--------------------------- MODULE Assistant_proofs ---------------------------
(***************************************************************************)
(* Proofs about Assistant, for every number of processes, every set of     *)
(* requests and every set of meetings: traces are counted, requests are    *)
(* settled, conversations and what is drawn from them are consistent, and  *)
(* standing rules prevail as they should.                                  *)
(***************************************************************************)
EXTENDS Assistant, FiniteSetTheorems, TLAPS

\* Where a process may be.
DoPoints      == {"confirm", "route", "look", "act", "factory", "cut"}
ChatPoints    == {"talk", "answered", "logging"}
ReflectPoints == {"reflect", "scan", "close", "suggest", "hygiene"}
Points        == {"idle", "start", "run", "end", "selected", "decide"}
                 \cup DoPoints \cup ChatPoints \cup ReflectPoints

\* A point inside a command belongs to one command.
Fits(c, point) ==
  /\ point \in DoPoints => c = "do"
  /\ point \in ChatPoints => c = "chat"
  /\ point \in ReflectPoints => c = "reflect"
  /\ point = "selected" => c = "trace"
  /\ point = "decide" => c = "suggestions"

ProcTypes ==
  /\ meeting \in Meetings
  /\ pc \in [Procs -> Points] /\ cmd \in [Procs -> meeting \cup {""}]
  /\ own \in [Procs -> Traces \cup {0}] /\ good \in [Procs -> BOOLEAN]

FrameOK == ProcTypes /\ \A p \in Procs : Fits(cmd[p], pc[p])

-----------------------------------------------------------------------------
(* The frame of the commands.                                              *)

\* What a process does in a step, the rest of the state left out.
Steps(p) ==
  \/ TraceSteps(p) \/ RouterSteps(p) \/ MemorySteps(p) \/ Finish(p) \/ Kill(p)

\* How a process moves.
Moves(p) ==
  \/ \E point \in Points : Goto(p, point) /\ Fits(cmd[p], point)
  \/ \E well \in BOOLEAN : End(p, well)
  \/ Leave(p)
  \/ \E c \in meeting : \E t \in Traces :
       /\ pc' = [pc EXCEPT ![p] = "start"] /\ cmd' = [cmd EXCEPT ![p] = c]
       /\ own' = [own EXCEPT ![p] = t] /\ UNCHANGED <<meeting, good>>

\* Each command goes through points of its own.
LEMMA StepsMove ==
  ASSUME FrameOK, NEW p \in Procs, Steps(p), Begun = 1 .. Cardinality(Begun),
         IsFiniteSet(Begun)
  PROVE  Moves(p)
<1> USE DEF Fits, Points, DoPoints, ChatPoints, ReflectPoints
<1>1. ProcTypes /\ Fits(cmd[p], pc[p])
  BY DEF FrameOK
<1>2. ASSUME NEW c \in meeting, Begin(p, c)
      PROVE  Moves(p)
  <2>1. Cardinality(Begun) + 1 \in Traces
    <3>1. Cardinality(Begun) \in Nat
      BY FS_CardinalityType
    <3>2. Begun \subseteq 1 .. MaxTraces /\ Begun # 1 .. MaxTraces
      BY <1>2 DEF Begin, Begun, Traces
    <3>3. MaxTraces \in Nat
      BY TraceAssumption
    <3>4. QED
      BY <3>1, <3>2, <3>3 DEF Traces
  <2>2. QED
    BY <1>2, <2>1 DEF Begin, Moves
<1>3. CASE Link(p)
  BY <1>3 DEF Link, Moves
<1>4. CASE CleanupSelect(p)
  BY <1>4 DEF CleanupSelect, At, Moves
<1>5. CASE CleanupCommit(p)
  BY <1>5 DEF CleanupCommit, Moves
<1>6. CASE Judge(p)
  BY <1>6 DEF Judge, Moves
<1>7. CASE DoAsk(p)
  BY <1>7 DEF DoAsk, At, Moves
<1>8. CASE DoDecline(p) \/ DoAct(p) \/ DoStart(p) \/ DoRecord(p) \/ DoFails(p)
             \/ Feedback(p) \/ Rule(p)
  BY <1>8 DEF DoDecline, DoAct, DoStart, DoRecord, DoFails, Feedback, Rule, Moves
<1>9. CASE DoConfigure(p) \/ DoConfigureFails(p) \/ DoRoute(p) \/ DoLook(p) \/ DoStartCut(p)
  <2>1. cmd[p] = "do"
    BY <1>1, <1>9 DEF DoConfigure, DoConfigureFails, DoRoute, DoLook, DoStartCut
  <2>2. \/ Goto(p, "route") \/ Goto(p, "factory") \/ Goto(p, "cut")
        \/ Goto(p, "look") \/ Goto(p, "act") \/ End(p, FALSE) \/ End(p, TRUE)
    BY <1>9 DEF DoConfigure, DoConfigureFails, DoRoute, DoLook, DoStartCut
  <2>3. CASE End(p, FALSE) \/ End(p, TRUE)
    BY <2>3 DEF Moves
  <2>4. ASSUME NEW point \in DoPoints, Goto(p, point)
        PROVE  Moves(p)
    BY <2>1, <2>4 DEF Moves
  <2>5. QED
    BY <2>2, <2>3, <2>4
<1>10. CASE ChatOpen(p)
  BY <1>10 DEF ChatOpen, At, Moves
<1>11. CASE ChatExit(p) \/ Purge(p) \/ Hygiene(p) \/ DecideWrite(p)
  BY <1>11 DEF ChatExit, Purge, Hygiene, DecideWrite, Moves
<1>12. CASE ChatSay(p) \/ LogRead(p) \/ LogNew(p) \/ LogWrite(p)
  <2>1. cmd[p] = "chat"
    BY <1>1, <1>12 DEF ChatSay, LogRead, LogNew, LogWrite
  <2>2. QED
    BY <1>12, <2>1 DEF ChatSay, LogRead, LogNew, LogWrite, Moves
<1>13. CASE ReflectRead(p)
  BY <1>13 DEF ReflectRead, At, Moves
<1>14. CASE ReflectWrite(p) \/ ReflectScan(p) \/ ReflectClose(p) \/ ReflectSuggest(p)
  <2>1. cmd[p] = "reflect"
    BY <1>1, <1>14 DEF ReflectWrite, ReflectScan, ReflectClose, ReflectSuggest
  <2>2. QED
    BY <1>14, <2>1 DEF ReflectWrite, ReflectScan, ReflectClose, ReflectSuggest, Moves
<1>15. CASE DecideRead(p)
  BY <1>15 DEF DecideRead, At, Moves
<1>16. CASE Finish(p) \/ Kill(p)
  BY <1>16 DEF Finish, Kill, Moves
<1>17. QED
  BY <1>2, <1>3, <1>4, <1>5, <1>6, <1>7, <1>8, <1>9, <1>10, <1>11, <1>12, <1>13, <1>14,
     <1>15, <1>16 DEF Steps, TraceSteps, RouterSteps, DoSteps, MemorySteps

\* A process moves alone, and stays in its command.
LEMMA MovesFrame ==
  ASSUME FrameOK, NEW p \in Procs, Moves(p)
  PROVE  /\ FrameOK'
         /\ \A q \in Procs \ {p} : /\ pc'[q] = pc[q] /\ cmd'[q] = cmd[q]
                                   /\ own'[q] = own[q] /\ good'[q] = good[q]
<1>1. ProcTypes /\ \A q \in Procs : Fits(cmd[q], pc[q])
  BY DEF FrameOK
<1>2. ASSUME ProcTypes', meeting' = meeting, Fits(cmd'[p], pc'[p]),
             \A q \in Procs \ {p} : /\ pc'[q] = pc[q] /\ cmd'[q] = cmd[q]
                                   /\ own'[q] = own[q] /\ good'[q] = good[q]
      PROVE  FrameOK'
  BY <1>1, <1>2 DEF FrameOK
<1>3. CASE \E point \in Points : Goto(p, point) /\ Fits(cmd[p], point)
  <2>1. PICK point \in Points : Goto(p, point) /\ Fits(cmd[p], point)
    BY <1>3
  <2>2. \A q \in Procs \ {p} : /\ pc'[q] = pc[q] /\ cmd'[q] = cmd[q]
                               /\ own'[q] = own[q] /\ good'[q] = good[q]
    BY <1>1, <2>1 DEF Goto, ProcTypes
  <2>3. ProcTypes' /\ meeting' = meeting /\ Fits(cmd'[p], pc'[p])
    BY <1>1, <2>1 DEF Goto, ProcTypes
  <2>4. QED
    BY <1>2, <2>2, <2>3
<1>4. CASE \E well \in BOOLEAN : End(p, well)
  <2>1. PICK well \in BOOLEAN : End(p, well)
    BY <1>4
  <2>2. \A q \in Procs \ {p} : /\ pc'[q] = pc[q] /\ cmd'[q] = cmd[q]
                               /\ own'[q] = own[q] /\ good'[q] = good[q]
    BY <1>1, <2>1 DEF End, ProcTypes
  <2>3. "end" \in Points /\ Fits(cmd[p], "end")
    BY DEF Points, Fits, DoPoints, ChatPoints, ReflectPoints
  <2>4. ProcTypes' /\ meeting' = meeting /\ Fits(cmd'[p], pc'[p])
    BY <1>1, <2>1, <2>3 DEF End, ProcTypes
  <2>5. QED
    BY <1>2, <2>2, <2>4
<1>5. CASE Leave(p)
  <2>1. \A q \in Procs \ {p} : /\ pc'[q] = pc[q] /\ cmd'[q] = cmd[q]
                               /\ own'[q] = own[q] /\ good'[q] = good[q]
    BY <1>1, <1>5 DEF Leave, ProcTypes
  <2>2. "idle" \in Points /\ Fits("", "idle")
    BY DEF Points, Fits, DoPoints, ChatPoints, ReflectPoints
  <2>3. ProcTypes' /\ meeting' = meeting /\ Fits(cmd'[p], pc'[p])
    BY <1>1, <1>5, <2>2 DEF Leave, ProcTypes
  <2>4. QED
    BY <1>2, <2>1, <2>3
<1>6. CASE \E c \in meeting : \E t \in Traces :
             /\ pc' = [pc EXCEPT ![p] = "start"] /\ cmd' = [cmd EXCEPT ![p] = c]
             /\ own' = [own EXCEPT ![p] = t] /\ UNCHANGED <<meeting, good>>
  <2>1. PICK c \in meeting, t \in Traces :
             /\ pc' = [pc EXCEPT ![p] = "start"] /\ cmd' = [cmd EXCEPT ![p] = c]
             /\ own' = [own EXCEPT ![p] = t] /\ UNCHANGED <<meeting, good>>
    BY <1>6
  <2>2. \A q \in Procs \ {p} : /\ pc'[q] = pc[q] /\ cmd'[q] = cmd[q]
                               /\ own'[q] = own[q] /\ good'[q] = good[q]
    BY <1>1, <2>1 DEF ProcTypes
  <2>3. "start" \in Points /\ Fits(c, "start")
    BY DEF Points, Fits, DoPoints, ChatPoints, ReflectPoints
  <2>4. ProcTypes' /\ meeting' = meeting /\ Fits(cmd'[p], pc'[p])
    BY <1>1, <2>1, <2>3 DEF ProcTypes
  <2>5. QED
    BY <1>2, <2>2, <2>4
<1>7. QED
  BY <1>3, <1>4, <1>5, <1>6 DEF Moves

-----------------------------------------------------------------------------
(* Traces.                                                                 *)

TraceTypes ==
  /\ trace \in [Traces -> Outcomes \cup {"none", "deleted"}]
  /\ of \in [Traces -> CommandNames \cup {""}]
  /\ linked \subseteq Begun /\ old \subseteq Begun
  /\ judged \subseteq Live \X Decisions
  /\ rollup \in [Outcomes -> Nat]
  /\ chosen \in [Procs -> SUBSET (Traces \X Outcomes)]
  /\ shared \subseteq (Begun \ Live) \X Procs

\* What a cleanup has selected, and whose selection is of a trace that a
\* cleanup of another has taken since.
Selected(p) == {x[1] : x \in chosen[p]}
Doubtful == {x \in (Traces \ Live) \X Procs : x[1] \in Selected(x[2])}
RolledUp == rollup["running"] + rollup["completed"] + rollup["failed"]

\* Ids are given in order, and a selection has one outcome for each trace.
IdsOK ==
  /\ Begun = 1 .. Cardinality(Begun)
  /\ \A p \in Procs : \A x, y \in chosen[p] : x[1] = y[1] => x = y
  /\ \A p \in Procs : Selected(p) \subseteq Begun

\* A trace is counted again at most once for each pair in shared; for a doubtful
\* one that is still to come.
CountOK ==
  /\ Cardinality(Begun) <= Cardinality(Live) + RolledUp
  /\ Cardinality(Live) + RolledUp + Cardinality(Doubtful)
       <= Cardinality(Begun) + Cardinality(shared)

TraceOK == TraceTypes /\ IdsOK

LEMMA TracesFinite ==
  /\ MaxTraces \in Nat \ {0} /\ IsFiniteSet(Traces) /\ IsFiniteSet(Procs)
  /\ \A S : S \subseteq Traces => IsFiniteSet(S) /\ Cardinality(S) \in Nat
  /\ \A S : S \subseteq Traces \X Procs => IsFiniteSet(S) /\ Cardinality(S) \in Nat
  /\ \A S : S \subseteq Traces \X Outcomes => IsFiniteSet(S) /\ Cardinality(S) \in Nat
<1>1. MaxTraces \in Nat \ {0} /\ IsFiniteSet(Procs)
  BY TraceAssumption
<1>2. IsFiniteSet(Traces)
  <2>1. MaxTraces \in Int /\ 1 \in Int
    BY <1>1
  <2>2. QED
    BY <2>1, FS_Interval DEF Traces
<1>3. IsFiniteSet(Outcomes)
  <2>1. IsFiniteSet({}) /\ Outcomes = (({} \cup {"running"}) \cup {"completed"}) \cup {"failed"}
    BY FS_EmptySet DEF Outcomes
  <2>2. QED
    BY <2>1, FS_AddElement
<1>4. IsFiniteSet(Traces \X Procs) /\ IsFiniteSet(Traces \X Outcomes)
  BY <1>1, <1>2, <1>3, FS_Product
<1>5. \A S, T : IsFiniteSet(T) /\ S \subseteq T => IsFiniteSet(S)
  BY FS_Subset
<1>6. \A S : IsFiniteSet(S) => Cardinality(S) \in Nat
  BY FS_CardinalityType
<1>7. QED
  BY <1>1, <1>2, <1>4, <1>5, <1>6

\* The cardinality of a union of disjoint sets.
LEMMA DisjointUnion ==
  ASSUME NEW S, NEW T, IsFiniteSet(S), IsFiniteSet(T), S \cap T = {}
  PROVE  /\ IsFiniteSet(S \cup T) /\ Cardinality(S) \in Nat /\ Cardinality(T) \in Nat
         /\ Cardinality(S \cup T) = Cardinality(S) + Cardinality(T)
<1>1. /\ IsFiniteSet(S \cup T)
      /\ Cardinality(S \cup T) = Cardinality(S) + Cardinality(T) - Cardinality(S \cap T)
  BY FS_Union
<1>2. Cardinality(S \cap T) = 0
  BY FS_EmptySet
<1>3. Cardinality(S) \in Nat /\ Cardinality(T) \in Nat
  BY FS_CardinalityType
<1>4. QED
  BY <1>1, <1>2, <1>3

\* A set has as many elements as its image under a function that tells them
\* apart.
LEMMA OneToOne ==
  ASSUME NEW S, NEW T, IsFiniteSet(S), NEW f \in [S -> T],
         \A x, y \in S : f[x] = f[y] => x = y, \A t \in T : \E x \in S : f[x] = t
  PROVE  IsFiniteSet(T) /\ Cardinality(T) = Cardinality(S)
<1>1. f \in Bijection(S, T)
  BY DEF Bijection, Injection, Surjection, IsInjective
<1>2. ExistsBijection(S, T)
  BY <1>1 DEF ExistsBijection
<1>3. QED
  BY <1>2, FS_Bijection

\* Every selected trace is added up once.
LEMMA AddedUp ==
  ASSUME TraceTypes, NEW S \in SUBSET (Traces \X Outcomes)
  PROVE  /\ Added(S) \in [Outcomes -> Nat]
         /\ Added(S)["running"] + Added(S)["completed"] + Added(S)["failed"]
              = RolledUp + Cardinality(S)
<1> DEFINE With(o) == {x \in S : x[2] = o}
<1>1. /\ IsFiniteSet(S) /\ Cardinality(S) \in Nat
      /\ \A o : IsFiniteSet(With(o)) /\ Cardinality(With(o)) \in Nat
  BY TracesFinite
<1>2. \A o \in Outcomes : Added(S)[o] = rollup[o] + Cardinality(With(o))
  BY DEF Added
<1>3. Added(S) \in [Outcomes -> Nat]
  <2>1. Added(S) = [o \in Outcomes |-> rollup[o] + Cardinality(With(o))]
    BY DEF Added
  <2> HIDE DEF With
  <2>2. \A o \in Outcomes : rollup[o] + Cardinality(With(o)) \in Nat
    <3> SUFFICES ASSUME NEW o \in Outcomes
                 PROVE  rollup[o] + Cardinality(With(o)) \in Nat
      OBVIOUS
    <3>1. rollup[o] \in Nat
      BY DEF TraceTypes
    <3>2. Cardinality(With(o)) \in Nat
      BY <1>1
    <3>3. QED
      BY <3>1, <3>2
  <2>3. QED
    BY <2>1, <2>2
<1>4. Cardinality(S) = Cardinality(With("running")) + Cardinality(With("completed"))
                       + Cardinality(With("failed"))
  <2>1. /\ With("running") \cap With("completed") = {}
        /\ (With("running") \cup With("completed")) \cap With("failed") = {}
        /\ S = (With("running") \cup With("completed")) \cup With("failed")
    BY DEF Outcomes
  <2> HIDE DEF With
  <2>2. /\ IsFiniteSet(With("running") \cup With("completed"))
        /\ Cardinality(With("running") \cup With("completed"))
             = Cardinality(With("running")) + Cardinality(With("completed"))
    BY <1>1, <2>1, DisjointUnion
  <2>3. Cardinality((With("running") \cup With("completed")) \cup With("failed"))
          = Cardinality(With("running") \cup With("completed")) + Cardinality(With("failed"))
    BY <1>1, <2>1, <2>2, DisjointUnion
  <2>4. QED
    BY <2>1, <2>2, <2>3
<1>5. /\ rollup["running"] \in Nat /\ rollup["completed"] \in Nat /\ rollup["failed"] \in Nat
      /\ {"running", "completed", "failed"} = Outcomes
  BY DEF TraceTypes, Outcomes
<1> HIDE DEF With
<1>6. QED
  BY <1>1, <1>2, <1>3, <1>4, <1>5 DEF RolledUp

LEMMA RolledUpType ==
  ASSUME TraceTypes
  PROVE  RolledUp \in Nat
<1>1. rollup["running"] \in Nat /\ rollup["completed"] \in Nat /\ rollup["failed"] \in Nat
  BY DEF TraceTypes, Outcomes
<1>2. QED
  BY <1>1 DEF RolledUp

\* Traces change in few steps.
LEMMA TraceFrame ==
  ASSUME [Next]_vars
  PROVE  \/ \E p \in Procs : TraceSteps(p) \/ Finish(p) \/ Kill(p)
         \/ Age
         \/ UNCHANGED traceVars
<1>1. ASSUME NEW p \in Procs, RouterSteps(p)
      PROVE  UNCHANGED traceVars
  BY <1>1 DEF RouterSteps, DoSteps, DoAsk, DoDecline, DoConfigure, DoConfigureFails,
              DoRoute, DoLook, DoAct, DoStart, DoStartCut, StartRun, DoRecord, DoFails,
              Feedback, Rule
<1>2. ASSUME NEW p \in Procs, MemorySteps(p)
      PROVE  UNCHANGED traceVars
  BY <1>2 DEF MemorySteps, ChatOpen, ChatSay, ChatExit, LogRead, LogNew, LogWrite, Purge,
              ReflectRead, ReflectWrite, ReflectScan, ReflectClose, ReflectSuggest,
              Hygiene, DecideRead, DecideWrite
<1>3. CASE MemoryAges
  BY <1>3 DEF MemoryAges
<1>4. CASE UNCHANGED vars
  BY <1>4 DEF vars
<1>5. QED
  BY <1>1, <1>2, <1>3, <1>4 DEF Next

LEMMA Decided == \A c, given, confirm : DecideCommand(c, given, confirm) \in Decisions
BY DEF DecideCommand, DecideEntry, Decisions

\* What a cleanup takes and adds up: each row it deletes is in the rollups, and
\* those of its selection that another one has deleted are there again.
LEMMA SwapCounts ==
  ASSUME TraceOK, CountOK, NEW p \in Procs, CleanupSwap(p),
         chosen' = [chosen EXCEPT ![p] = {}]
  PROVE  /\ Begun' = Begun
         /\ \E gone : gone = {x[1] : x \in chosen[p]} \cap Live
                      /\ Live' = Live \ (gone \cup Overflow(Live \ gone))
         /\ trace' \in [Traces -> Outcomes \cup {"none", "deleted"}]
         /\ rollup' \in [Outcomes -> Nat]
         /\ shared' \subseteq (Begun \ Live') \X Procs
         /\ CountOK'
<1> DEFINE gone == {x[1] : x \in chosen[p]} \cap Live
           dead == {x[1] : x \in chosen[p]} \ Live
           over == Overflow(Live \ gone)
           pairs == {<<t, trace[t]>> : t \in over}
           new == {x \in (gone \cup over) \X (Procs \ {p}) :
                     \E o \in Outcomes : <<x[1], o>> \in chosen[x[2]]}
           mine == dead \X {p}
<1>1. TraceTypes /\ IdsOK
  BY DEF TraceOK
<1>2. /\ chosen[p] \subseteq Traces \X Outcomes
      /\ over \subseteq Live \ gone /\ gone \subseteq Live /\ Live \subseteq Traces
      /\ dead \subseteq Traces \ Live
  <2>1. chosen[p] \subseteq Traces \X Outcomes
    BY <1>1 DEF TraceTypes
  <2>2. Live \subseteq Traces
    BY DEF Live
  <2>3. over \subseteq Live \ gone
    BY DEF Overflow
  <2>4. {x[1] : x \in chosen[p]} \subseteq Traces
    BY <2>1
  <2>5. QED
    BY <2>1, <2>2, <2>3, <2>4
<1>3. /\ rollup' = Added(chosen[p] \cup pairs)
      /\ trace' = [t \in Traces |-> IF t \in gone \cup over THEN "deleted" ELSE trace[t]]
      /\ shared' = shared \cup new
  BY DEF CleanupSwap
<1>4. Begun' = Begun /\ Live' = Live \ (gone \cup over)
      /\ trace' \in [Traces -> Outcomes \cup {"none", "deleted"}]
  <2>1. /\ \A t \in Traces : trace'[t] = IF t \in gone \cup over THEN "deleted" ELSE trace[t]
        /\ gone \cup over \subseteq Live
    BY <1>2, <1>3
  <2> HIDE DEF gone, over
  <2>2. Begun' = Begun
    BY <2>1 DEF Begun, Live, Outcomes
  <2>3. Live' = Live \ (gone \cup over)
    BY <2>1 DEF Live, Outcomes
  <2>4. trace' \in [Traces -> Outcomes \cup {"none", "deleted"}]
    BY <1>1, <1>3 DEF TraceTypes
  <2>5. QED
    BY <2>2, <2>3, <2>4
<1>5. /\ IsFiniteSet(Live) /\ IsFiniteSet(gone) /\ IsFiniteSet(over) /\ IsFiniteSet(dead)
      /\ IsFiniteSet(chosen[p]) /\ Cardinality(Live) \in Nat /\ Cardinality(gone) \in Nat
      /\ Cardinality(over) \in Nat /\ Cardinality(dead) \in Nat
      /\ Cardinality(chosen[p]) \in Nat
  BY <1>2, TracesFinite
\* The selection has a pair for each of its traces.
<1>6. Cardinality(chosen[p]) = Cardinality(gone) + Cardinality(dead)
  <2>1. gone \cap dead = {} /\ Selected(p) = gone \cup dead
    BY DEF Selected
  <2>2. Cardinality(Selected(p)) = Cardinality(chosen[p])
    <3>1. \A x, y \in chosen[p] : x[1] = y[1] => x = y
      BY <1>1 DEF IdsOK
    <3> DEFINE f == [x \in chosen[p] |-> x[1]]
    <3>2. f \in [chosen[p] -> Selected(p)]
      BY DEF Selected
    <3>3. \A x, y \in chosen[p] : f[x] = f[y] => x = y
      BY <3>1
    <3>4. \A t \in Selected(p) : \E x \in chosen[p] : f[x] = t
      BY DEF Selected
    <3>5. IsFiniteSet(chosen[p])
      BY <1>5
    <3> DEFINE S == chosen[p]
               T == Selected(p)
    <3> HIDE DEF f, S, T
    <3>6. IsFiniteSet(S) /\ f \in [S -> T]
      BY <3>2, <3>5 DEF S, T
    <3>7. \A x, y \in S : f[x] = f[y] => x = y
      BY <3>3 DEF S
    <3>8. \A t \in T : \E x \in S : f[x] = t
      BY <3>4 DEF S, T
    <3>9. Cardinality(T) = Cardinality(S)
      BY <3>6, <3>7, <3>8, OneToOne
    <3>10. QED
      BY <3>9 DEF S, T
  <2> HIDE DEF gone, dead
  <2>3. Cardinality(gone \cup dead) = Cardinality(gone) + Cardinality(dead)
    BY <1>5, <2>1, DisjointUnion
  <2>4. QED
    BY <2>1, <2>2, <2>3
<1>7. /\ pairs \subseteq Traces \X Outcomes /\ chosen[p] \cap pairs = {}
      /\ Cardinality(pairs) = Cardinality(over) /\ IsFiniteSet(pairs)
  <2>1. \A t \in over : t \in Traces /\ trace[t] \in Outcomes /\ t \notin gone /\ t \in Live
    <3> HIDE DEF gone, over
    <3>1. over \subseteq Live \ gone
      BY <1>2
    <3>2. QED
      BY <3>1 DEF Live
  <2> HIDE DEF over
  <2>2. pairs \subseteq Traces \X Outcomes
    BY <2>1
  <2>3. chosen[p] \cap pairs = {}
    <3> SUFFICES ASSUME NEW t \in over, <<t, trace[t]>> \in chosen[p]
                 PROVE  FALSE
      OBVIOUS
    <3>1. t \in {x[1] : x \in chosen[p]}
      OBVIOUS
    <3>2. QED
      BY <2>1, <3>1
  <2>4. Cardinality(pairs) = Cardinality(over) /\ IsFiniteSet(pairs)
    <3> DEFINE f == [t \in over |-> <<t, trace[t]>>]
    <3>1. f \in [over -> pairs]
      OBVIOUS
    <3>2. \A t, u \in over : f[t] = f[u] => t = u
      OBVIOUS
    <3>3. \A x \in pairs : \E t \in over : f[t] = x
      OBVIOUS
    <3> HIDE DEF f, pairs, over
    <3>4. QED
      BY <1>5, <3>1, <3>2, <3>3, OneToOne
  <2>5. QED
    BY <2>2, <2>3, <2>4
<1> HIDE DEF pairs
<1>8. /\ rollup' \in [Outcomes -> Nat]
      /\ RolledUp' = RolledUp + Cardinality(gone) + Cardinality(dead) + Cardinality(over)
  <2>1. Cardinality(chosen[p] \cup pairs) = Cardinality(chosen[p]) + Cardinality(pairs)
    BY <1>5, <1>7, DisjointUnion
  <2>2. chosen[p] \cup pairs \in SUBSET (Traces \X Outcomes)
    BY <1>2, <1>7
  <2>3. /\ Added(chosen[p] \cup pairs) \in [Outcomes -> Nat]
        /\ Added(chosen[p] \cup pairs)["running"] + Added(chosen[p] \cup pairs)["completed"]
             + Added(chosen[p] \cup pairs)["failed"]
             = RolledUp + Cardinality(chosen[p] \cup pairs)
    BY <1>1, <2>2, AddedUp
  <2>4. RolledUp' = RolledUp + Cardinality(chosen[p] \cup pairs)
    <3>1. RolledUp' = rollup'["running"] + rollup'["completed"] + rollup'["failed"]
      BY DEF RolledUp
    <3>2. QED
      BY <1>3, <2>3, <3>1
  <2>5. RolledUp \in Nat
    BY <1>1, RolledUpType
  <2> HIDE DEF gone, dead, over
  <2>6. RolledUp' = RolledUp + Cardinality(gone) + Cardinality(dead) + Cardinality(over)
    BY <1>5, <1>6, <1>7, <2>1, <2>4, <2>5
  <2>7. QED
    BY <1>3, <2>3, <2>6
<1>9. Cardinality(Live') = Cardinality(Live) - Cardinality(gone) - Cardinality(over)
  <2>1. gone \cap over = {} /\ Live \cap (gone \cup over) = gone \cup over
    BY <1>2
  <2> HIDE DEF gone, over
  <2>2. /\ IsFiniteSet(gone \cup over)
        /\ Cardinality(gone \cup over) = Cardinality(gone) + Cardinality(over)
    BY <1>5, <2>1, DisjointUnion
  <2>3. Cardinality(Live \ (gone \cup over))
          = Cardinality(Live) - Cardinality(Live \cap (gone \cup over))
    <3> DEFINE both == gone \cup over
    <3> HIDE DEF both
    <3>1. IsFiniteSet(Live)
      BY <1>5
    <3>2. Cardinality(Live \ both) = Cardinality(Live) - Cardinality(Live \cap both)
      BY <3>1, FS_Difference
    <3>3. QED
      BY <3>2 DEF both
  <2>4. Cardinality(Live \cap (gone \cup over)) = Cardinality(gone) + Cardinality(over)
    BY <2>1, <2>2
  <2>5. Cardinality(Live') = Cardinality(Live \ (gone \cup over))
    BY <1>4
  <2>6. QED
    BY <1>5, <2>3, <2>4, <2>5
\* Whose selections have become doubtful.
<1>10. /\ new \subseteq (gone \cup over) \X Procs
       /\ shared' \subseteq (Begun \ Live') \X Procs
       /\ Cardinality(shared') = Cardinality(shared) + Cardinality(new)
       /\ IsFiniteSet(new)
  <2>1. new \subseteq (gone \cup over) \X Procs
    OBVIOUS
  <2>2. gone \cup over \subseteq Live /\ shared \subseteq (Begun \ Live) \X Procs
        /\ Live \subseteq Begun /\ Begun \subseteq Traces
    BY <1>1, <1>2 DEF TraceTypes, Live, Begun, Outcomes
  <2> HIDE DEF new, gone, over
  <2>3. shared \cap new = {}
    BY <2>1, <2>2
  <2>4. IsFiniteSet(shared) /\ IsFiniteSet(new)
    BY <1>2, <2>1, <2>2, TracesFinite
  <2>5. shared' \subseteq (Begun \ Live') \X Procs
    BY <1>2, <1>3, <1>4, <2>1, <2>2
  <2>6. QED
    BY <1>3, <2>1, <2>3, <2>4, <2>5, DisjointUnion
<1>11. Doubtful' \subseteq (Doubtful \ mine) \cup new
  <2> SUFFICES ASSUME NEW t \in Traces, NEW q \in Procs, t \notin Live',
                      t \in Selected(q)'
               PROVE  <<t, q>> \in (Doubtful \ mine) \cup new
    BY DEF Doubtful
  <2>1. q # p /\ t \in Selected(q)
    BY <1>1 DEF Selected, TraceTypes
  <2>2. CASE t \in Live
    <3>1. t \in gone \cup over
      BY <1>4, <2>2
    <3>2. PICK x \in chosen[q] : x[1] = t
      BY <2>1 DEF Selected
    <3>3. x = <<t, x[2]>> /\ x[2] \in Outcomes
      <4>1. chosen[q] \subseteq Traces \X Outcomes
        BY <1>1 DEF TraceTypes
      <4>2. QED
        BY <3>2, <4>1
    <3>4. \E o \in Outcomes : <<t, o>> \in chosen[q]
      BY <3>2, <3>3
    <3>5. <<t, q>> \in (gone \cup over) \X (Procs \ {p})
      BY <2>1, <3>1
    <3>6. QED
      BY <3>4, <3>5
  <2>3. CASE t \notin Live
    BY <2>1, <2>3 DEF Doubtful
  <2>4. QED
    BY <2>2, <2>3
<1>12. /\ mine \subseteq Doubtful /\ Cardinality(mine) = Cardinality(dead)
       /\ IsFiniteSet(mine) /\ IsFiniteSet(Doubtful) /\ Cardinality(Doubtful) \in Nat
       /\ Cardinality(Doubtful') \in Nat
  <2>1. mine \subseteq Doubtful
    BY <1>2 DEF Doubtful, Selected
  <2>2. /\ IsFiniteSet(Doubtful) /\ Cardinality(Doubtful) \in Nat
        /\ Cardinality(Doubtful') \in Nat
    <3>1. Doubtful \subseteq Traces \X Procs /\ Doubtful' \subseteq Traces \X Procs
      BY DEF Doubtful
    <3>2. QED
      BY <3>1, TracesFinite
  <2>3. IsFiniteSet(mine) /\ Cardinality(mine) = Cardinality(dead)
    <3> DEFINE f == [t \in dead |-> <<t, p>>]
    <3> HIDE DEF dead
    <3>1. f \in [dead -> mine]
      OBVIOUS
    <3>2. \A t, u \in dead : f[t] = f[u] => t = u
      OBVIOUS
    <3>3. \A x \in mine : \E t \in dead : f[t] = x
      OBVIOUS
    <3> HIDE DEF f, mine
    <3>4. QED
      BY <1>5, <3>1, <3>2, <3>3, OneToOne
  <2>4. QED
    BY <2>1, <2>2, <2>3
<1> HIDE DEF gone, dead, over, new, mine
<1>13. Cardinality(Doubtful') <= Cardinality(Doubtful) - Cardinality(dead) + Cardinality(new)
  <2>1. /\ IsFiniteSet(Doubtful \ mine)
        /\ Cardinality(Doubtful \ mine)
             = Cardinality(Doubtful) - Cardinality(Doubtful \cap mine)
    BY <1>12, FS_Difference
  <2>2. Doubtful \cap mine = mine
    BY <1>12
  <2>3. /\ IsFiniteSet((Doubtful \ mine) \cup new)
        /\ Cardinality((Doubtful \ mine) \cup new)
             = Cardinality(Doubtful \ mine) + Cardinality(new)
               - Cardinality((Doubtful \ mine) \cap new)
    BY <1>10, <2>1, FS_Union
  <2>4. Cardinality(Doubtful') <= Cardinality((Doubtful \ mine) \cup new)
    BY <1>11, <2>3, FS_Subset
  <2>5. /\ Cardinality((Doubtful \ mine) \cap new) \in Nat /\ Cardinality(new) \in Nat
        /\ Cardinality(Doubtful \ mine) \in Nat
        /\ Cardinality((Doubtful \ mine) \cup new) \in Nat
    <3>1. IsFiniteSet((Doubtful \ mine) \cap new)
      BY <1>10, FS_Intersection
    <3>2. \A S : IsFiniteSet(S) => Cardinality(S) \in Nat
      BY FS_CardinalityType
    <3>3. QED
      BY <1>10, <2>1, <2>3, <3>1, <3>2
  <2>6. Cardinality(Doubtful \ mine) = Cardinality(Doubtful) - Cardinality(dead)
    BY <1>12, <2>1, <2>2
  <2>7. Cardinality((Doubtful \ mine) \cup new) <= Cardinality(Doubtful \ mine) + Cardinality(new)
    BY <2>3, <2>5
  <2>8. Cardinality(Doubtful) \in Nat /\ Cardinality(dead) \in Nat
        /\ Cardinality(Doubtful') \in Nat
    BY <1>5, <1>12
  <2>9. QED
    BY <2>4, <2>5, <2>6, <2>7, <2>8
<1>14. CountOK'
  <2>1. /\ Cardinality(Begun') = Cardinality(Begun) /\ Cardinality(Begun) \in Nat
        /\ Cardinality(shared) \in Nat /\ Cardinality(new) \in Nat
        /\ RolledUp \in Nat
    <3>1. Begun \subseteq Traces /\ shared \subseteq Traces \X Procs
      <4>1. shared \subseteq (Begun \ Live) \X Procs
        BY <1>1 DEF TraceTypes
      <4>2. QED
        BY <4>1 DEF Begun
    <3>2. RolledUp \in Nat
      BY <1>1, RolledUpType
    <3>3. QED
      <4>1. Cardinality(Begun) \in Nat /\ Cardinality(shared) \in Nat
        BY <3>1, TracesFinite
      <4>2. Cardinality(new) \in Nat
        BY <1>10, FS_CardinalityType
      <4>3. QED
        BY <1>4, <3>2, <4>1, <4>2
  <2>2. /\ Cardinality(Begun) <= Cardinality(Live) + RolledUp
        /\ Cardinality(Live) + RolledUp + Cardinality(Doubtful)
             <= Cardinality(Begun) + Cardinality(shared)
    BY DEF CountOK
  <2>3. /\ Cardinality(Begun)' = Cardinality(Begun')
        /\ Cardinality(Live') + RolledUp' = Cardinality(Live) + RolledUp + Cardinality(dead)
        /\ Cardinality(Live') + RolledUp' \in Nat
    BY <1>5, <1>8, <1>9, <2>1
  <2>4. Cardinality(Begun') <= Cardinality(Live') + RolledUp'
    BY <1>5, <2>1, <2>2, <2>3
  <2>5. Cardinality(Live') + RolledUp' + Cardinality(Doubtful')
          <= Cardinality(Begun') + Cardinality(shared')
    BY <1>5, <1>10, <1>12, <1>13, <2>1, <2>2, <2>3
  <2>6. QED
    BY <2>4, <2>5 DEF CountOK
<1>15. QED
  <2>1. \E g : /\ g = {x[1] : x \in chosen[p]} \cap Live
               /\ Live' = Live \ (g \cup Overflow(Live \ g))
    BY <1>4 DEF gone, over
  <2>2. QED
    BY <1>4, <1>8, <1>10, <1>14, <2>1

\* Nothing is counted.
LEMMA SameCounts ==
  ASSUME TraceTypes, CountOK, Begun' = Begun, Live' = Live, UNCHANGED <<rollup, shared>>,
         Doubtful' \subseteq Doubtful
  PROVE  CountOK'
<1>1. Doubtful \subseteq Traces \X Procs /\ shared \subseteq Traces \X Procs
      /\ Begun \subseteq Traces /\ Live \subseteq Traces
  BY DEF Doubtful, TraceTypes, Begun, Live
<1>2. /\ Cardinality(Doubtful) \in Nat /\ Cardinality(shared) \in Nat
      /\ Cardinality(Begun) \in Nat /\ Cardinality(Live) \in Nat /\ RolledUp \in Nat
      /\ IsFiniteSet(Doubtful)
  BY <1>1, TracesFinite, RolledUpType
<1>3. Cardinality(Doubtful') <= Cardinality(Doubtful) /\ Cardinality(Doubtful') \in Nat
  <2>1. Cardinality(Doubtful') <= Cardinality(Doubtful) /\ IsFiniteSet(Doubtful')
    BY <1>2, FS_Subset
  <2>2. QED
    BY <2>1, FS_CardinalityType
<1>4. RolledUp' = RolledUp
  BY DEF RolledUp
<1>5. /\ Cardinality(Begun) <= Cardinality(Live) + RolledUp
      /\ Cardinality(Live) + RolledUp + Cardinality(Doubtful)
           <= Cardinality(Begun) + Cardinality(shared)
  BY DEF CountOK
<1>6. Cardinality(Live) + RolledUp + Cardinality(Doubtful')
        <= Cardinality(Begun) + Cardinality(shared)
  BY <1>2, <1>3, <1>5
<1>7. QED
  BY <1>4, <1>5, <1>6 DEF CountOK

\* A command begins.
LEMMA BeginTraces ==
  ASSUME FrameOK, TraceOK, CountOK, NEW p \in Procs, NEW c \in meeting, Begin(p, c)
  PROVE  TraceOK' /\ CountOK'
<1> DEFINE t == Cardinality(Begun) + 1
<1>1. TraceTypes /\ IdsOK /\ c \in CommandNames
  <2>1. meeting \in Meetings
    BY DEF FrameOK, ProcTypes
  <2>2. QED
    BY <2>1, AssistantAssumption DEF TraceOK
<1>2. /\ trace' = [trace EXCEPT ![t] = "running"] /\ of' = [of EXCEPT ![t] = c]
      /\ UNCHANGED <<linked, judged, old, rollup, chosen, shared>>
      /\ Begun # Traces
  BY DEF Begin
<1>3. Cardinality(Begun) \in Nat /\ IsFiniteSet(Begun) /\ Begun \subseteq Traces
      /\ Cardinality(Live) \in Nat /\ IsFiniteSet(Live)
  BY TracesFinite DEF Begun, Live
<1>4. Begun = 1 .. Cardinality(Begun)
  BY <1>1 DEF IdsOK
<1>5. t \in Traces /\ t \notin Begun
  <2>1. MaxTraces \in Nat /\ 1 .. Cardinality(Begun) \subseteq 1 .. MaxTraces
        /\ 1 .. Cardinality(Begun) # 1 .. MaxTraces
    BY <1>2, <1>3, <1>4, TracesFinite DEF Traces
  <2>2. 1 .. t - 1 = 1 .. Cardinality(Begun)
    BY <1>3
  <2>3. t \in Traces /\ t \notin 1 .. Cardinality(Begun)
    BY <1>3, <2>1 DEF Traces
  <2>4. QED
    BY <1>4, <2>3
<1> HIDE DEF t
<1>6. \A u \in Traces : trace'[u] = IF u = t THEN "running" ELSE trace[u]
  BY <1>1, <1>2, <1>5 DEF TraceTypes
<1>7. Begun' = Begun \cup {t} /\ Live' = Live \cup {t} /\ t \notin Live
      /\ Live \subseteq Begun
  BY <1>5, <1>6 DEF Begun, Live, Outcomes
<1>8. Cardinality(Begun') = Cardinality(Begun) + 1 /\ Cardinality(Live') = Cardinality(Live) + 1
  BY <1>3, <1>5, <1>7, FS_AddElement
<1>9. TraceTypes'
  <2>1. trace' \in [Traces -> Outcomes \cup {"none", "deleted"}]
    BY <1>1, <1>2, <1>5 DEF TraceTypes, Outcomes
  <2>2. of' \in [Traces -> CommandNames \cup {""}]
    BY <1>1, <1>2, <1>5 DEF TraceTypes
  <2>3. Begun' \ Live' = Begun \ Live
    BY <1>5, <1>7
  <2>4. /\ linked' \subseteq Begun' /\ old' \subseteq Begun'
        /\ judged' \subseteq Live' \X Decisions /\ shared' \subseteq (Begun' \ Live') \X Procs
    BY <1>1, <1>2, <1>7, <2>3 DEF TraceTypes
  <2>5. QED
    BY <1>1, <1>2, <2>1, <2>2, <2>4 DEF TraceTypes
<1>10. IdsOK'
  <2>1. Begun' = 1 .. Cardinality(Begun')
    BY <1>3, <1>4, <1>7, <1>8 DEF t
  <2>2. \A q \in Procs : Selected(q)' = Selected(q)
    BY <1>2 DEF Selected
  <2>3. QED
    BY <1>1, <1>2, <1>7, <2>1, <2>2 DEF IdsOK
<1>11. CountOK'
  <2>1. Doubtful' \subseteq Doubtful
    BY <1>2, <1>7 DEF Doubtful, Selected
  <2>2. IsFiniteSet(Doubtful) /\ Cardinality(Doubtful) \in Nat /\ Cardinality(shared) \in Nat
    <3>1. Doubtful \subseteq Traces \X Procs /\ shared \subseteq Traces \X Procs
      BY <1>1, <1>3 DEF Doubtful, TraceTypes
    <3>2. QED
      BY <3>1, TracesFinite
  <2>3. Cardinality(Doubtful') <= Cardinality(Doubtful) /\ Cardinality(Doubtful') \in Nat
    <3>1. Cardinality(Doubtful') <= Cardinality(Doubtful) /\ IsFiniteSet(Doubtful')
      BY <2>1, <2>2, FS_Subset
    <3>2. QED
      BY <3>1, FS_CardinalityType
  <2>4. RolledUp' = RolledUp /\ RolledUp \in Nat
    BY <1>1, <1>2, RolledUpType DEF RolledUp
  <2>5. /\ Cardinality(Begun) <= Cardinality(Live) + RolledUp
        /\ Cardinality(Live) + RolledUp + Cardinality(Doubtful)
             <= Cardinality(Begun) + Cardinality(shared)
    BY DEF CountOK
  <2>6. Cardinality(Begun') <= Cardinality(Live') + RolledUp'
    BY <1>3, <1>8, <2>4, <2>5
  <2>7. Cardinality(Live') + RolledUp' + Cardinality(Doubtful')
          <= Cardinality(Begun') + Cardinality(shared')
    BY <1>2, <1>3, <1>8, <2>2, <2>3, <2>4, <2>5
  <2>8. QED
    BY <2>6, <2>7 DEF CountOK
<1>12. QED
  BY <1>9, <1>10, <1>11 DEF TraceOK

\* A cleanup selects.
LEMMA SelectTraces ==
  ASSUME TraceOK, CountOK, NEW p \in Procs, CleanupSelect(p)
  PROVE  TraceOK' /\ CountOK'
<1> DEFINE rows == {<<t, trace[t]>> : t \in Live \cap old}
<1>1. TraceTypes /\ IdsOK
  BY DEF TraceOK
<1>2. /\ chosen' = [chosen EXCEPT ![p] = rows]
      /\ UNCHANGED <<trace, of, linked, judged, old, rollup, shared>>
  BY DEF CleanupSelect
<1>3. Begun' = Begun /\ Live' = Live
  BY <1>2 DEF Begun, Live
<1>4. /\ rows \subseteq Traces \X Outcomes /\ \A x, y \in rows : x[1] = y[1] => x = y
      /\ {x[1] : x \in rows} \subseteq Live
  BY DEF Live
<1> HIDE DEF rows
<1>5. \A q \in Procs : chosen'[q] = IF q = p THEN rows ELSE chosen[q]
  BY <1>1, <1>2 DEF TraceTypes
<1>6. TraceTypes'
  <2>1. chosen' \in [Procs -> SUBSET (Traces \X Outcomes)]
    BY <1>1, <1>2, <1>4 DEF TraceTypes
  <2>2. QED
    BY <1>1, <1>2, <1>3, <2>1 DEF TraceTypes
<1>7. /\ Selected(p)' \subseteq Live
      /\ \A q \in Procs \ {p} : Selected(q)' = Selected(q)
  BY <1>4, <1>5 DEF Selected
<1>8. Live \subseteq Begun
  BY DEF Live, Begun, Outcomes
<1>9. IdsOK'
  BY <1>1, <1>3, <1>4, <1>5, <1>7, <1>8 DEF IdsOK
<1>10. Doubtful' \subseteq Doubtful
  <2> SUFFICES ASSUME NEW t \in Traces, NEW q \in Procs, t \notin Live,
                      t \in Selected(q)'
               PROVE  <<t, q>> \in Doubtful
    BY <1>3 DEF Doubtful
  <2>1. q # p
    BY <1>7
  <2>2. QED
    BY <1>7, <2>1 DEF Doubtful
<1>11. QED
  BY <1>1, <1>2, <1>3, <1>6, <1>9, <1>10, SameCounts DEF TraceOK

\* A selection is dropped.
LEMMA DropSelection ==
  ASSUME TraceOK, CountOK, NEW p \in Procs, chosen' = [chosen EXCEPT ![p] = {}],
         UNCHANGED <<trace, of, linked, judged, old, rollup, shared>>
  PROVE  TraceOK' /\ CountOK'
<1>1. TraceTypes /\ IdsOK
  BY DEF TraceOK
<1>2. Begun' = Begun /\ Live' = Live
  BY DEF Begun, Live
<1>3. \A q \in Procs : chosen'[q] = IF q = p THEN {} ELSE chosen[q]
  BY <1>1 DEF TraceTypes
<1>4. \A q \in Procs : Selected(q)' \subseteq Selected(q)
  BY <1>3 DEF Selected
<1>5. TraceTypes'
  <2>1. chosen' \in [Procs -> SUBSET (Traces \X Outcomes)]
    BY <1>1 DEF TraceTypes
  <2>2. QED
    BY <1>1, <1>2, <2>1 DEF TraceTypes
<1>6. IdsOK'
  BY <1>1, <1>2, <1>3, <1>4 DEF IdsOK
<1>7. Doubtful' \subseteq Doubtful
  BY <1>2, <1>4 DEF Doubtful
<1>8. QED
  BY <1>1, <1>2, <1>5, <1>6, <1>7, SameCounts DEF TraceOK

\* A cleanup counts and deletes, or is undone by a judgement.
LEMMA CommitTraces ==
  ASSUME TraceOK, CountOK, NEW p \in Procs, CleanupCommit(p)
  PROVE  TraceOK' /\ CountOK'
<1> DEFINE gone == {x[1] : x \in chosen[p]} \cap Live
           blocked == \E j \in judged : j[1] \in gone \cup Overflow(Live \ gone)
<1>1. TraceTypes /\ IdsOK
  BY DEF TraceOK
<1>2. /\ chosen' = [chosen EXCEPT ![p] = {}] /\ UNCHANGED <<of, linked, judged, old>>
      /\ IF blocked THEN UNCHANGED <<trace, rollup, shared>> ELSE CleanupSwap(p)
  BY DEF CleanupCommit
<1>3. CASE blocked
  BY <1>2, <1>3, DropSelection
<1>4. CASE ~blocked
  <2>1. CleanupSwap(p)
    BY <1>2, <1>4
  <2>2. /\ Begun' = Begun /\ Live' = Live \ (gone \cup Overflow(Live \ gone))
        /\ trace' \in [Traces -> Outcomes \cup {"none", "deleted"}]
        /\ rollup' \in [Outcomes -> Nat]
        /\ shared' \subseteq (Begun \ Live') \X Procs
        /\ CountOK'
    BY <1>2, <2>1, SwapCounts
  <2>3. judged' \subseteq Live' \X Decisions
    <3>1. judged \subseteq Live \X Decisions
      BY <1>1 DEF TraceTypes
    <3>2. \A j \in judged : j[1] \notin gone \cup Overflow(Live \ gone)
      BY <1>4
    <3> HIDE DEF gone, blocked
    <3>3. QED
      BY <1>2, <2>2, <3>1, <3>2
  <2> HIDE DEF gone, blocked
  <2>4. \A q \in Procs : chosen'[q] = IF q = p THEN {} ELSE chosen[q]
    BY <1>1, <1>2 DEF TraceTypes
  <2>5. \A q \in Procs : Selected(q)' \subseteq Selected(q)
    BY <2>4 DEF Selected
  <2>6. TraceTypes'
    <3>1. chosen' \in [Procs -> SUBSET (Traces \X Outcomes)]
      BY <1>1, <1>2 DEF TraceTypes
    <3>2. QED
      BY <1>1, <1>2, <2>2, <2>3, <3>1 DEF TraceTypes
  <2>7. IdsOK'
    BY <1>1, <2>2, <2>4, <2>5 DEF IdsOK
  <2>8. QED
    BY <2>2, <2>6, <2>7 DEF TraceOK
<1>5. QED
  BY <1>3, <1>4

\* The other steps leave the rows and the rollups alone.
LEMMA OtherTraces ==
  ASSUME TraceOK, CountOK, Begun' = Begun, Live' = Live,
         trace' \in [Traces -> Outcomes \cup {"none", "deleted"}],
         UNCHANGED <<of, rollup, chosen, shared>>,
         linked' \subseteq Begun, old' \subseteq Begun, judged' \subseteq Live \X Decisions
  PROVE  TraceOK' /\ CountOK'
<1>1. TraceTypes /\ IdsOK
  BY DEF TraceOK
<1>2. \A q \in Procs : Selected(q)' = Selected(q)
  BY DEF Selected
<1>3. TraceTypes'
  BY <1>1 DEF TraceTypes
<1>4. IdsOK'
  BY <1>1, <1>2 DEF IdsOK
<1>5. Doubtful' \subseteq Doubtful
  BY <1>2 DEF Doubtful
<1>6. QED
  BY <1>1, <1>3, <1>4, <1>5, SameCounts DEF TraceOK

LEMMA TraceStep ==
  ASSUME FrameOK, TraceOK, CountOK, [Next]_vars
  PROVE  TraceOK' /\ CountOK'
<1>1. TraceTypes /\ IdsOK
  BY DEF TraceOK
<1>2. Live \subseteq Begun /\ Live \subseteq Traces
  BY DEF Live, Begun, Outcomes
<1>3. ASSUME UNCHANGED trace
      PROVE  Live' = Live /\ Begun' = Begun
  BY <1>3 DEF Live, Begun
<1>4. ASSUME NEW p \in Procs, Link(p)
      PROVE  TraceOK' /\ CountOK'
  <2>1. linked' \subseteq Begun /\ UNCHANGED <<trace, of, judged, old, rollup, chosen, shared>>
    BY <1>1, <1>2, <1>4 DEF Link, TraceTypes
  <2>2. QED
    BY <1>1, <1>3, <2>1, OtherTraces DEF TraceTypes
<1>5. ASSUME NEW p \in Procs, Judge(p)
      PROVE  TraceOK' /\ CountOK'
  <2>1. UNCHANGED <<trace, of, linked, old, rollup, chosen, shared>>
    BY <1>5 DEF Judge
  <2>2. judged' \subseteq Live \X Decisions
    <3>1. PICK t \in Live : \E d \in Decisions : judged' = judged \cup {<<t, d>>}
      BY <1>5, Decided DEF Judge
    <3>2. judged \subseteq Live \X Decisions
      BY <1>1 DEF TraceTypes
    <3>3. QED
      BY <3>1, <3>2
  <2>3. QED
    BY <1>1, <1>3, <2>1, <2>2, OtherTraces DEF TraceTypes
<1>6. ASSUME NEW p \in Procs, Finish(p)
      PROVE  TraceOK' /\ CountOK'
  <2>1. UNCHANGED <<of, linked, judged, old, rollup, chosen, shared>>
    BY <1>6 DEF Finish
  <2>2. CASE own[p] \in Live
    <3>1. PICK o \in Outcomes : trace' = [trace EXCEPT ![own[p]] = o]
      BY <1>6, <2>2 DEF Finish, Outcomes
    <3>2. \A t \in Traces : trace'[t] = IF t = own[p] THEN o ELSE trace[t]
      BY <1>1, <1>2, <2>2, <3>1 DEF TraceTypes
    <3>3. Live' = Live /\ Begun' = Begun
      BY <2>2, <3>2 DEF Live, Begun, Outcomes
    <3>4. trace' \in [Traces -> Outcomes \cup {"none", "deleted"}]
      BY <1>1, <3>1 DEF TraceTypes
    <3>5. QED
      BY <1>1, <2>1, <3>3, <3>4, OtherTraces DEF TraceTypes
  <2>3. CASE own[p] \notin Live
    <3>1. UNCHANGED trace
      BY <1>6, <2>3 DEF Finish
    <3>2. QED
      BY <1>1, <1>3, <2>1, <3>1, OtherTraces DEF TraceTypes
  <2>4. QED
    BY <2>2, <2>3
<1>7. ASSUME NEW p \in Procs, Kill(p)
      PROVE  TraceOK' /\ CountOK'
  BY <1>7, DropSelection DEF Kill
<1>8. CASE Age
  <2>1. old' = Begun /\ UNCHANGED <<trace, of, linked, judged, rollup, chosen, shared>>
    BY <1>8 DEF Age
  <2>2. QED
    BY <1>1, <1>3, <2>1, OtherTraces DEF TraceTypes
<1>9. CASE UNCHANGED traceVars
  <2>1. UNCHANGED <<trace, of, linked, judged, old, rollup, chosen, shared>>
    BY <1>9 DEF traceVars
  <2>2. QED
    BY <1>1, <1>3, <2>1, OtherTraces DEF TraceTypes
<1>10. QED
  BY <1>4, <1>5, <1>6, <1>7, <1>8, <1>9, BeginTraces, SelectTraces, CommitTraces,
     TraceFrame DEF TraceSteps

LEMMA FrameStep ==
  ASSUME FrameOK, IdsOK, [Next]_vars
  PROVE  /\ FrameOK' /\ meeting' = meeting
         /\ \/ \E p \in Procs : Steps(p)
            \/ UNCHANGED procVars
<1>1. ASSUME NEW p \in Procs, Steps(p)
      PROVE  FrameOK' /\ meeting' = meeting
  <2>1. IsFiniteSet(Begun)
    BY TracesFinite DEF Begun
  <2>2. Moves(p)
    BY <1>1, <2>1, StepsMove DEF IdsOK
  <2>3. QED
    BY <2>2, MovesFrame DEF Moves, Goto, End, Leave
<1>2. ASSUME UNCHANGED procVars
      PROVE  FrameOK' /\ meeting' = meeting
  BY <1>2 DEF procVars, FrameOK, ProcTypes
<1>3. (\E p \in Procs : Steps(p)) \/ UNCHANGED procVars
  BY DEF Next, Steps, Age, MemoryAges, vars
<1>4. QED
  BY <1>1, <1>2, <1>3

\* A process moves alone.
LEMMA OwnStep ==
  ASSUME FrameOK, IdsOK, NEW p \in Procs, Steps(p), NEW q \in Procs \ {p}
  PROVE  pc'[q] = pc[q] /\ cmd'[q] = cmd[q] /\ own'[q] = own[q] /\ good'[q] = good[q]
<1>1. IsFiniteSet(Begun)
  BY TracesFinite DEF Begun
<1>2. Moves(p)
  BY <1>1, StepsMove DEF IdsOK
<1>3. QED
  BY <1>2, MovesFrame

-----------------------------------------------------------------------------
(* Requests.                                                               *)

Packs  == SendingPacks \cup {"", "intent_execution"}
Routes == [intent : INTENTS \cup {"none"}, pack : Packs]
Events == [text : Texts, intent : INTENTS \cup {"none"}, base : Nat]

RouteTypes ==
  /\ text \in [Procs -> Texts \cup {NoText}] /\ route \in [Procs -> Routes]
  /\ latest \in [Procs -> 0 .. intents] /\ base \in [Procs -> Nat]
  /\ did \in [Procs -> SUBSET {"configured", "untold", "acted", "recorded"}]
  /\ override \in [Texts -> INTENTS \cup {"none"}]
  /\ corrections \in [Texts -> Seq(INTENTS)]
  /\ events \in Seq(Events) /\ intents \in Nat /\ plans \subseteq 1 .. intents
  /\ runs \in Seq(Nat \X Packs)

\* The last correction of a text is in force.
CorrectionsOK ==
  \A t \in Texts : Len(corrections[t]) > 0 =>
    override[t] = corrections[t][Len(corrections[t])]

\* A route that was taken after the first b corrections of its text is one of
\* them or of the later ones.
Obeys(t, b, i) ==
  b > 0 => \E k \in b .. Len(corrections[t]) : corrections[t][k] = i

\* What may have become of a request that is to be routed, and of one whose
\* run is committed and not recorded.
Unacted  == {{}, {"configured", "untold"}}
CutShort == {{"acted"}, {"configured", "untold", "acted"}}

RequestOK(p) ==
  /\ pc[p] \in {"idle", "start", "run", "confirm"} => did[p] = {}
  /\ pc[p] \in {"route", "look", "act", "factory"} => did[p] \in Unacted
  /\ pc[p] = "cut" => did[p] \in CutShort
  /\ pc[p] = "end" /\ cmd[p] = "do" => Settled(p)
  /\ pc[p] \in DoPoints =>
       text[p] \in Texts /\ base[p] \in 0 .. Len(corrections[text[p]])
  /\ pc[p] \in {"look", "act", "factory", "cut"} =>
       Obeys(text[p], base[p], route[p].intent)
  /\ pc[p] \in {"look", "factory", "cut"} =>
       route[p].intent \in {"factory_run", "connector_update"}

EventsOK ==
  /\ \A i \in DOMAIN events :
       LET e == events[i]
       IN  /\ Obeys(e.text, e.base, e.intent)
           /\ e.intent = "capture" /\ "chat" \notin meeting => e.text \in captured
  /\ \A i \in DOMAIN runs : runs[i][1] \in 1 .. intents

RequestInv ==
  /\ RouteTypes /\ CorrectionsOK /\ (\A p \in Procs : RequestOK(p)) /\ EventsOK

\* Nothing was acted on, or all of it, or a run was committed and the command
\* fails.
LEMMA NowSettled ==
  ASSUME NEW p \in Procs,
         \/ did'[p] \in Unacted \cup {{"configured"}}
         \/ \E d \in Unacted \cup CutShort : did'[p] = d \cup {"acted", "recorded"}
         \/ /\ did'[p] \in CutShort /\ ~good'[p]
            /\ route'[p].intent \in {"factory_run", "connector_update"}
  PROVE  Settled(p)'
<1>1. CASE did'[p] \in Unacted \cup {{"configured"}}
  <2>1. "acted" \notin did'[p] /\ "recorded" \notin did'[p]
    BY <1>1 DEF Unacted
  <2>2. did'[p] \cap {"acted", "recorded"} = {}
    BY <2>1
  <2>3. QED
    BY <2>1, <2>2 DEF Settled
<1>2. ASSUME NEW d \in Unacted \cup CutShort, did'[p] = d \cup {"acted", "recorded"}
      PROVE  Settled(p)'
  <2>1. did'[p] \cap {"acted", "recorded"} = {"acted", "recorded"}
    BY <1>2
  <2>2. "configured" \in d => "untold" \in d
    BY DEF Unacted, CutShort
  <2>3. "configured" \in did'[p] => "untold" \in did'[p]
    BY <1>2, <2>2
  <2>4. QED
    BY <2>1, <2>3 DEF Settled
<1>3. CASE /\ did'[p] \in CutShort /\ ~good'[p]
           /\ route'[p].intent \in {"factory_run", "connector_update"}
  <2>1. /\ "acted" \in did'[p] /\ "recorded" \notin did'[p]
        /\ "configured" \in did'[p] => "untold" \in did'[p]
    BY <1>3 DEF CutShort
  <2>2. did'[p] \cap {"acted", "recorded"} = {"acted"}
    BY <2>1
  <2>3. QED
    BY <1>3, <2>1, <2>2 DEF Settled
<1>4. QED
  BY <1>1, <1>2, <1>3

\* A text that was corrected goes where the last correction sends it.
LEMMA RouteGiven ==
  ASSUME RouteTypes, CorrectionsOK, NEW t \in Texts, NEW d \in RouteWithFeedback(t)
  PROVE  /\ d \in Routes
         /\ d.intent \in INTENTS
         /\ Len(corrections[t]) > 0 => d.intent = corrections[t][Len(corrections[t])]
<1>1. override[t] \in INTENTS \cup {"none"} /\ corrections[t] \in Seq(INTENTS)
  BY DEF RouteTypes
<1>2. \A i \in INTENTS : /\ DecisionForIntent(i) \in Routes
                         /\ DecisionForIntent(i).intent = i
  <2>1. \A i : PackOf(i) \in Packs
    BY DEF PackOf, Packs, SendingPacks
  <2>2. QED
    BY <2>1 DEF DecisionForIntent, Routes
<1>3. HeuristicIntent(CuesOf[t]) \in INTENTS
  BY DEF HeuristicIntent, INTENTS
<1>4. CASE override[t] \in ROUTABLE_INTENTS
  <2>1. d = DecisionForIntent(override[t])
    BY <1>4 DEF RouteWithFeedback
  <2>2. override[t] \in INTENTS
    BY <1>4 DEF ROUTABLE_INTENTS
  <2>3. QED
    BY <1>2, <2>1, <2>2 DEF CorrectionsOK
<1>5. CASE override[t] \notin ROUTABLE_INTENTS
  <2>1. ~(Len(corrections[t]) > 0)
    <3> SUFFICES ASSUME Len(corrections[t]) > 0
                 PROVE  FALSE
      OBVIOUS
    <3>1. corrections[t][Len(corrections[t])] \in INTENTS
      BY <1>1
    <3>2. override[t] = corrections[t][Len(corrections[t])]
      BY DEF CorrectionsOK
    <3>3. QED
      BY <1>5, <3>1, <3>2 DEF ROUTABLE_INTENTS
  <2>2. d \in {DecisionForIntent(HeuristicIntent(CuesOf[t]))} \cup Guesses
    BY <1>5 DEF RouteWithFeedback, RouteText
  <2>3. CASE d \in Guesses
    <3>1. d \in [intent : INTENTS, pack : {""} \cup SendingPacks \cup {"intent_execution"}]
      BY <2>3, RouterAssumption
    <3>2. QED
      BY <2>1, <3>1 DEF Routes, Packs
  <2>4. CASE d = DecisionForIntent(HeuristicIntent(CuesOf[t]))
    BY <1>2, <1>3, <2>1, <2>4
  <2>5. QED
    BY <2>2, <2>3, <2>4
<1>6. QED
  BY <1>4, <1>5

\* What a request holds is changed by its own process.
LEMMA OwnRequest ==
  ASSUME RouteTypes, NEW p \in Procs, NEW q \in Procs \ {p},
         RouterSteps(p) \/ ChatSay(p) \/ RequestOver(p)
  PROVE  /\ text'[q] = text[q] /\ route'[q] = route[q] /\ latest'[q] = latest[q]
         /\ base'[q] = base[q] /\ did'[q] = did[q]
<1> USE DEF RouterSteps, DoSteps, DoAsk, DoDecline, DoConfigure, DoConfigureFails,
            DoRoute, DoLook, DoAct, DoStart, DoStartCut, StartRun, DoRecord, DoFails,
            Feedback, Rule, ChatSay, RequestOver, requestVars
<1>1. \E x : text' = [text EXCEPT ![p] = x] \/ text' = text
  OBVIOUS
<1>2. \E x : route' = [route EXCEPT ![p] = x] \/ route' = route
  OBVIOUS
<1>3. \E x : latest' = [latest EXCEPT ![p] = x] \/ latest' = latest
  OBVIOUS
<1>4. \E x : base' = [base EXCEPT ![p] = x] \/ base' = base
  OBVIOUS
<1>5. \E x : did' = [did EXCEPT ![p] = x] \/ did' = did
  OBVIOUS
<1>6. QED
  BY <1>1, <1>2, <1>3, <1>4, <1>5 DEF RouteTypes

\* Corrections are only added.
Grown ==
  \A t \in Texts :
    /\ Len(corrections[t]) <= Len(corrections'[t])
    /\ \A k \in 1 .. Len(corrections[t]) : corrections'[t][k] = corrections[t][k]

LEMMA ObeysStill ==
  ASSUME RouteTypes, RouteTypes', Grown, NEW t \in Texts, NEW b \in Nat, NEW i,
         Obeys(t, b, i)
  PROVE  b > 0 => \E k \in b .. Len(corrections'[t]) : corrections'[t][k] = i
<1> SUFFICES ASSUME b > 0
             PROVE  \E k \in b .. Len(corrections'[t]) : corrections'[t][k] = i
  OBVIOUS
<1>1. PICK k \in b .. Len(corrections[t]) : corrections[t][k] = i
  BY DEF Obeys
<1>2. Len(corrections[t]) \in Nat /\ Len(corrections'[t]) \in Nat
  BY DEF RouteTypes
<1>3. k \in 1 .. Len(corrections[t]) /\ Len(corrections[t]) <= Len(corrections'[t])
  BY <1>1, <1>2 DEF Grown
<1>4. corrections'[t][k] = i
  BY <1>1, <1>3 DEF Grown
<1>5. QED
  BY <1>1, <1>2, <1>3, <1>4

\* What one process does leaves the requests of the others as they were.
LEMMA RequestKept ==
  ASSUME RouteTypes, RouteTypes', Grown, NEW q \in Procs, RequestOK(q),
         pc'[q] = pc[q], cmd'[q] = cmd[q], good'[q] = good[q], text'[q] = text[q],
         route'[q] = route[q], base'[q] = base[q], did'[q] = did[q]
  PROVE  RequestOK(q)'
<1>1. base[q] \in Nat
  BY DEF RouteTypes
<1>2. ASSUME pc[q] \in DoPoints
      PROVE  text[q] \in Texts /\ base[q] \in 0 .. Len(corrections'[text[q]])
  <2>1. text[q] \in Texts /\ base[q] \in 0 .. Len(corrections[text[q]])
    BY <1>2 DEF RequestOK
  <2>2. /\ Len(corrections[text[q]]) \in Nat /\ Len(corrections'[text[q]]) \in Nat
        /\ Len(corrections[text[q]]) <= Len(corrections'[text[q]])
    BY <2>1 DEF RouteTypes, Grown
  <2>3. QED
    BY <2>1, <2>2
<1>3. ASSUME pc[q] \in {"look", "act", "factory", "cut"}
      PROVE  Obeys(text[q], base[q], route[q].intent)'
  <2>1. text[q] \in Texts
    BY <1>2, <1>3 DEF DoPoints
  <2>2. Obeys(text[q], base[q], route[q].intent)
    BY <1>3 DEF RequestOK
  <2>3. base[q] > 0 => \E k \in base[q] .. Len(corrections'[text[q]]) :
                         corrections'[text[q]][k] = route[q].intent
    BY <1>1, <2>1, <2>2, ObeysStill
  <2>4. QED
    BY <2>3 DEF Obeys
<1>4. Settled(q) => Settled(q)'
  BY DEF Settled
<1>5. QED
  BY <1>2, <1>3, <1>4 DEF RequestOK

\* A log that has got one more entry.
LEMMA OneMore ==
  ASSUME NEW S, NEW s \in Seq(S), NEW e \in S
  PROVE  /\ Append(s, e) \in Seq(S) /\ Len(s) \in Nat /\ DOMAIN s = 1 .. Len(s)
         /\ Len(Append(s, e)) = Len(s) + 1
         /\ DOMAIN Append(s, e) = 1 .. Len(s) + 1
         /\ \A i \in 1 .. Len(s) : Append(s, e)[i] = s[i]
         /\ Append(s, e)[Len(s) + 1] = e
OBVIOUS

\* What holds of the entries of a log and of the next holds of them all.
LEMMA AllOfMore ==
  ASSUME NEW S, NEW s \in Seq(S), NEW e \in S, NEW Good,
         \A i \in DOMAIN s : s[i] \in Good, e \in Good
  PROVE  \A i \in DOMAIN Append(s, e) : Append(s, e)[i] \in Good
<1>1. /\ Len(s) \in Nat /\ DOMAIN s = 1 .. Len(s)
      /\ DOMAIN Append(s, e) = 1 .. Len(s) + 1
      /\ \A i \in 1 .. Len(s) : Append(s, e)[i] = s[i]
      /\ Append(s, e)[Len(s) + 1] = e
  BY OneMore
<1>2. ASSUME NEW i \in 1 .. Len(s) + 1
      PROVE  Append(s, e)[i] \in Good
  <2>1. i \in 1 .. Len(s) \/ i = Len(s) + 1
    BY <1>1
  <2>2. QED
    BY <1>1, <2>1
<1>3. QED
  BY <1>1, <1>2

\* What is in the logs stays right.
LEMMA EventsKept ==
  ASSUME RouteTypes, RouteTypes', Grown, EventsOK, meeting' = meeting,
         captured \subseteq captured', intents <= intents',
         \/ events' = events
         \/ \E e \in Events :
              /\ events' = Append(events, e)
              /\ e.base > 0 => \E k \in e.base .. Len(corrections'[e.text]) :
                                 corrections'[e.text][k] = e.intent
              /\ e.intent = "capture" /\ "chat" \notin meeting => e.text \in captured',
         runs' = runs \/ \E x \in (1 .. intents') \X Packs : runs' = Append(runs, x)
  PROVE  EventsOK'
<1> DEFINE Right(e) == /\ e.base > 0 => \E k \in e.base .. Len(corrections'[e.text]) :
                                          corrections'[e.text][k] = e.intent
                       /\ e.intent = "capture" /\ "chat" \notin meeting =>
                            e.text \in captured'
<1>1. ASSUME NEW i \in DOMAIN events
      PROVE  Right(events[i])
  <2>1. events[i] \in Events
    BY DEF RouteTypes
  <2>2. /\ Obeys(events[i].text, events[i].base, events[i].intent)
        /\ events[i].intent = "capture" /\ "chat" \notin meeting =>
             events[i].text \in captured
    BY DEF EventsOK
  <2>3. events[i].text \in Texts /\ events[i].base \in Nat
    BY <2>1 DEF Events
  <2>4. events[i].base > 0 =>
          \E k \in events[i].base .. Len(corrections'[events[i].text]) :
            corrections'[events[i].text][k] = events[i].intent
    BY <2>2, <2>3, ObeysStill
  <2>5. QED
    BY <2>2, <2>4
<1>2. \A i \in DOMAIN events' : Right(events'[i])
  <2>1. CASE events' = events
    BY <1>1, <2>1
  <2>2. ASSUME NEW e \in Events, events' = Append(events, e), Right(e)
        PROVE  \A i \in DOMAIN events' : Right(events'[i])
    <3> HIDE DEF Right
    <3>1. events \in Seq(Events) /\ \A i \in DOMAIN events : events[i] \in Events
      BY DEF RouteTypes
    <3>2. \A i \in DOMAIN events : events[i] \in {x \in Events : Right(x)}
      BY <1>1, <3>1
    <3>3. \A i \in DOMAIN events' : events'[i] \in {x \in Events : Right(x)}
      BY <2>2, <3>1, <3>2, AllOfMore
    <3>4. QED
      BY <3>3
  <2>3. QED
    BY <2>1, <2>2
<1>3. \A i \in DOMAIN runs' : runs'[i][1] \in 1 .. intents'
  <2>1. \A i \in DOMAIN runs : runs[i][1] \in 1 .. intents'
    BY DEF EventsOK, RouteTypes
  <2>2. ASSUME NEW x \in (1 .. intents') \X Packs, runs' = Append(runs, x)
        PROVE  \A i \in DOMAIN runs' : runs'[i][1] \in 1 .. intents'
    <3>1. runs \in Seq(Nat \X Packs) /\ intents' \in Nat
      BY DEF RouteTypes
    <3>2. \A i \in DOMAIN runs : runs[i] \in (1 .. intents') \X Packs
      BY <2>1, <3>1
    <3>3. x \in Nat \X Packs
      BY <2>2, <3>1
    <3>4. \A i \in DOMAIN runs' : runs'[i] \in (1 .. intents') \X Packs
      BY <2>2, <3>1, <3>2, <3>3, AllOfMore
    <3>5. QED
      BY <3>4
  <2>3. QED
    BY <2>1, <2>2
<1>4. QED
  BY <1>2, <1>3 DEF EventsOK, Obeys

\* The steps of a request before it is carried out, and those that fail.
LEMMA AskSteps ==
  ASSUME FrameOK, RequestInv, NEW p \in Procs,
         \/ DoAsk(p) \/ DoDecline(p) \/ DoConfigure(p) \/ DoConfigureFails(p)
         \/ DoRoute(p) \/ DoLook(p) \/ DoFails(p)
  PROVE  RouteTypes' /\ CorrectionsOK' /\ Grown /\ EventsOK' /\ RequestOK(p)'
<1>1. /\ RouteTypes /\ CorrectionsOK /\ RequestOK(p) /\ EventsOK
      /\ ProcTypes
  BY DEF RequestInv, FrameOK
<1>2. UNCHANGED <<routeVars, meeting, cmd>>
  BY DEF DoAsk, DoDecline, DoConfigure, DoConfigureFails, DoRoute, DoLook, DoFails, Goto,
         End, requestVars
<1>3. /\ UNCHANGED <<override, corrections, events, captured, intents, plans, runs>>
      /\ CorrectionsOK' /\ Grown
  BY <1>1, <1>2 DEF routeVars, CorrectionsOK, Grown, RouteTypes
<1>4. EventsOK'
  BY <1>1, <1>2, <1>3 DEF EventsOK, Obeys
<1>5. CASE DoAsk(p)
  <2>1. PICK t \in Texts : /\ text' = [text EXCEPT ![p] = t]
                           /\ base' = [base EXCEPT ![p] = Len(corrections[t])]
    BY <1>5 DEF DoAsk
  <2>2. UNCHANGED <<route, latest, did>> /\ pc[p] = "run"
    BY <1>5 DEF DoAsk, At
  <2>3. pc'[p] \in {"route", "confirm"}
    BY <1>1, <1>5 DEF DoAsk, Goto, ProcTypes
  <2>4. Len(corrections[t]) \in Nat
    BY <1>1 DEF RouteTypes
  <2>5. RouteTypes'
    BY <1>1, <1>3, <2>1, <2>2, <2>4 DEF RouteTypes
  <2>6. text'[p] = t /\ base'[p] = Len(corrections[t]) /\ did'[p] = did[p]
    BY <1>1, <2>1, <2>2 DEF RouteTypes
  <2>7. did'[p] = {}
    BY <1>1, <2>2, <2>6 DEF RequestOK
  <2>8. RequestOK(p)'
    BY <1>3, <2>3, <2>4, <2>6, <2>7 DEF RequestOK, DoPoints, Unacted
  <2>9. QED
    BY <1>3, <1>4, <2>5, <2>8
<1>6. CASE DoDecline(p) \/ DoConfigureFails(p)
  <2>1. UNCHANGED <<text, route, latest, base, did>> /\ pc[p] = "confirm"
    BY <1>6 DEF DoDecline, DoConfigureFails, requestVars
  <2>2. pc'[p] \in {"end", "route"}
    BY <1>1, <1>6 DEF DoDecline, DoConfigureFails, Goto, End, ProcTypes
  <2>3. RouteTypes'
    BY <1>1, <1>3, <2>1 DEF RouteTypes
  <2>4. did'[p] = {} /\ did'[p] \in Unacted
    BY <1>1, <2>1 DEF RequestOK, Unacted
  <2>5. Settled(p)'
    BY <2>4, NowSettled
  <2>6. RequestOK(p)'
    BY <1>1, <1>3, <2>1, <2>2, <2>4, <2>5 DEF RequestOK, DoPoints
  <2>7. QED
    BY <1>3, <1>4, <2>3, <2>6
<1>7. CASE DoConfigure(p)
  <2>1. /\ UNCHANGED <<text, route, latest, base>> /\ pc[p] = "confirm"
        /\ \/ /\ did' = [did EXCEPT ![p] = did[p] \cup {"configured"}] /\ End(p, TRUE)
           \/ /\ did' = [did EXCEPT ![p] = did[p] \cup {"configured", "untold"}]
              /\ Goto(p, "route")
    BY <1>7 DEF DoConfigure
  <2>2. did[p] = {}
    BY <1>1, <2>1 DEF RequestOK
  <2>3. \/ did'[p] = {"configured"} /\ pc'[p] = "end"
        \/ did'[p] = {"configured", "untold"} /\ pc'[p] = "route"
    <3>1. CASE did' = [did EXCEPT ![p] = did[p] \cup {"configured"}] /\ End(p, TRUE)
      BY <1>1, <2>2, <3>1 DEF RouteTypes, End, ProcTypes
    <3>2. CASE /\ did' = [did EXCEPT ![p] = did[p] \cup {"configured", "untold"}]
               /\ Goto(p, "route")
      BY <1>1, <2>2, <3>2 DEF RouteTypes, Goto, ProcTypes
    <3>3. QED
      BY <2>1, <3>1, <3>2
  <2>4. RouteTypes'
    <3>1. did' \in [Procs -> SUBSET {"configured", "untold", "acted", "recorded"}]
      BY <1>1, <2>1, <2>2 DEF RouteTypes
    <3>2. QED
      BY <1>1, <1>3, <2>1, <3>1 DEF RouteTypes
  <2>5. Settled(p)'
    <3>1. did'[p] \in Unacted \cup {{"configured"}}
      BY <2>3 DEF Unacted
    <3>2. QED
      BY <3>1, NowSettled
  <2>6. RequestOK(p)'
    BY <1>1, <1>3, <2>1, <2>3, <2>5 DEF RequestOK, DoPoints, Unacted
  <2>7. QED
    BY <1>3, <1>4, <2>4, <2>6
<1>8. CASE DoRoute(p)
  <2>1. PICK r \in RouteWithFeedback(text[p]) :
          /\ route' = [route EXCEPT ![p] = r]
          /\ IF DecisionForRoute(r.intent) = "blocked"
             THEN End(p, FALSE)
             ELSE Goto(p, IF r.intent \in {"factory_run", "connector_update"}
                          THEN "look" ELSE "act")
    BY <1>8 DEF DoRoute
  <2>2. UNCHANGED <<text, latest, base, did>> /\ pc[p] = "route"
    BY <1>8 DEF DoRoute
  <2>3. did[p] \in Unacted /\ text[p] \in Texts /\ base[p] \in 0 .. Len(corrections[text[p]])
    BY <1>1, <2>2 DEF RequestOK, DoPoints
  <2>4. /\ r \in Routes
        /\ Len(corrections[text[p]]) > 0 =>
             r.intent = corrections[text[p]][Len(corrections[text[p]])]
    BY <1>1, <2>1, <2>3, RouteGiven
  <2>5. RouteTypes'
    BY <1>1, <1>3, <2>1, <2>2, <2>4 DEF RouteTypes
  <2>6. \/ pc'[p] \in {"end", "act"}
        \/ pc'[p] = "look" /\ r.intent \in {"factory_run", "connector_update"}
    BY <1>1, <2>1 DEF Goto, End, ProcTypes
  <2>7. route'[p] = r
    BY <1>1, <2>1 DEF RouteTypes
  <2>8. Len(corrections[text[p]]) \in Nat
    BY <1>1, <2>3 DEF RouteTypes
  <2>9. Obeys(text[p], base[p], r.intent)
    BY <2>3, <2>4, <2>8 DEF Obeys
  <2>10. Obeys(text[p], base[p], route[p].intent)'
    BY <1>3, <2>2, <2>7, <2>9 DEF Obeys
  <2>11. Settled(p)'
    BY <2>2, <2>3, NowSettled
  <2>12. RequestOK(p)'
    BY <1>3, <2>2, <2>3, <2>6, <2>7, <2>10, <2>11 DEF RequestOK
  <2>13. QED
    BY <1>3, <1>4, <2>5, <2>12
<1>9. CASE DoLook(p)
  <2>1. /\ latest' = [latest EXCEPT ![p] = intents]
        /\ UNCHANGED <<text, route, base, did>> /\ pc[p] = "look"
    BY <1>9 DEF DoLook
  <2>2. pc'[p] = "factory"
    BY <1>1, <1>9 DEF DoLook, Goto, ProcTypes
  <2>3. RouteTypes'
    <3>1. intents \in 0 .. intents
      BY <1>1 DEF RouteTypes
    <3>2. QED
      BY <1>1, <1>3, <2>1, <3>1 DEF RouteTypes
  <2>4. Obeys(text[p], base[p], route[p].intent)'
    BY <1>1, <1>3, <2>1 DEF RequestOK, Obeys
  <2>5. RequestOK(p)'
    BY <1>1, <1>3, <2>1, <2>2, <2>4 DEF RequestOK, DoPoints
  <2>6. QED
    BY <1>3, <1>4, <2>3, <2>5
<1>10. CASE DoFails(p)
  <2>1. /\ UNCHANGED <<text, route, latest, base, did>>
        /\ pc[p] \in {"route", "look", "act", "factory", "cut"}
    BY <1>10 DEF DoFails, requestVars
  <2>2. pc'[p] = "end" /\ good'[p] = FALSE
    BY <1>1, <1>10 DEF DoFails, End, ProcTypes
  <2>3. RouteTypes'
    BY <1>1, <1>3, <2>1 DEF RouteTypes
  <2>4. CASE pc[p] # "cut"
    <3>1. did'[p] \in Unacted
      BY <1>1, <2>1, <2>4 DEF RequestOK
    <3>2. Settled(p)'
      BY <3>1, NowSettled
    <3>3. QED
      BY <1>3, <1>4, <2>2, <2>3, <3>2 DEF RequestOK, DoPoints
  <2>5. CASE pc[p] = "cut"
    <3>1. did'[p] \in CutShort /\ route'[p].intent \in {"factory_run", "connector_update"}
      BY <1>1, <2>1, <2>5 DEF RequestOK
    <3>2. Settled(p)'
      BY <2>2, <3>1, NowSettled
    <3>3. QED
      BY <1>3, <1>4, <2>2, <2>3, <3>2 DEF RequestOK, DoPoints
  <2>6. QED
    BY <2>4, <2>5
<1>11. QED
  BY <1>5, <1>6, <1>7, <1>8, <1>9, <1>10

\* The steps in which a request is carried out and recorded.
LEMMA ActSteps ==
  ASSUME FrameOK, RequestInv, NEW p \in Procs,
         DoAct(p) \/ DoStart(p) \/ DoStartCut(p) \/ DoRecord(p)
  PROVE  RouteTypes' /\ CorrectionsOK' /\ Grown /\ EventsOK' /\ RequestOK(p)'
<1> DEFINE e == Recorded(p)
           i == IF latest[p] = 0 THEN intents + 1 ELSE latest[p]
           k == IF route[p].pack = "" THEN "intent_execution" ELSE route[p].pack
<1>1. /\ RouteTypes /\ CorrectionsOK /\ RequestOK(p) /\ EventsOK
      /\ ProcTypes
  BY DEF RequestInv, FrameOK
<1>2. UNCHANGED <<override, corrections, meeting, cmd, text, route, latest, base>>
  BY DEF DoAct, DoStart, DoStartCut, StartRun, DoRecord, Goto, End
<1>3. CorrectionsOK' /\ Grown
  BY <1>1, <1>2 DEF CorrectionsOK, Grown, RouteTypes
<1>4. /\ pc[p] \in {"act", "factory", "cut"}
      /\ pc[p] \in {"factory", "cut"} => ~DoAct(p)
      /\ ~DoAct(p) => pc[p] \in {"factory", "cut"}
  BY DEF DoAct, DoStart, DoStartCut, DoRecord
<1>5. /\ text[p] \in Texts /\ base[p] \in Nat /\ route[p] \in Routes
      /\ Obeys(text[p], base[p], route[p].intent)
      /\ ~DoAct(p) => route[p].intent # "capture"
  BY <1>1, <1>4 DEF RequestOK, DoPoints, RouteTypes
<1>6. /\ e \in Events
      /\ e.base > 0 => \E j \in e.base .. Len(corrections'[e.text]) :
                         corrections'[e.text][j] = e.intent
      /\ e.text = text[p] /\ e.intent = route[p].intent
  BY <1>2, <1>5 DEF Recorded, Events, Routes, Obeys
<1>7. /\ intents \in Nat /\ latest[p] \in 0 .. intents /\ plans \subseteq 1 .. intents
      /\ i \in 1 .. intents + 1 /\ (latest[p] # 0 => i \in 1 .. intents) /\ k \in Packs
  <2>1. /\ intents \in Nat /\ latest[p] \in 0 .. intents /\ plans \subseteq 1 .. intents
    BY <1>1 DEF RouteTypes
  <2>2. i \in 1 .. intents + 1 /\ (latest[p] # 0 => i \in 1 .. intents)
    BY <2>1
  <2>3. k \in Packs
    BY <1>5 DEF Routes, Packs
  <2>4. QED
    BY <2>1, <2>2, <2>3
<1>8. /\ events' = events \/ events' = Append(events, e)
      /\ captured \subseteq captured'
      /\ e.intent = "capture" => e.text \in captured'
      /\ intents' \in {intents, intents + 1}
      /\ plans' = plans \/ (plans' = plans \cup {intents + 1} /\ intents' = intents + 1)
  BY <1>5, <1>6 DEF DoAct, DoStart, DoStartCut, StartRun, DoRecord
<1>9. runs' = runs \/ (<<i, k>> \in (1 .. intents') \X Packs /\ runs' = Append(runs, <<i, k>>))
  <2>1. CASE DoAct(p) \/ DoRecord(p)
    BY <2>1 DEF DoAct, DoRecord
  <2>2. CASE DoStart(p) \/ DoStartCut(p)
    <3>1. /\ runs' = Append(runs, <<i, k>>)
          /\ intents' = IF latest[p] = 0 THEN intents + 1 ELSE intents
      BY <2>2 DEF DoStart, DoStartCut, StartRun
    <3>2. i \in 1 .. intents'
      BY <1>7, <3>1
    <3>3. QED
      BY <1>7, <3>1, <3>2
  <2>3. QED
    BY <2>1, <2>2
<1>10. RouteTypes'
  <2>1. events' \in Seq(Events)
    <3> HIDE DEF e
    <3>1. events \in Seq(Events)
      BY <1>1 DEF RouteTypes
    <3>2. Append(events, e) \in Seq(Events)
      BY <1>6, <3>1, OneMore
    <3>3. QED
      BY <1>8, <3>1, <3>2
  <2>2. intents' \in Nat /\ plans' \subseteq 1 .. intents' /\ intents <= intents'
    <3>1. /\ intents \in Nat /\ plans \subseteq 1 .. intents
          /\ intents' \in {intents, intents + 1}
          /\ plans' = plans \/ (plans' = plans \cup {intents + 1} /\ intents' = intents + 1)
      BY <1>7, <1>8
    <3>2. intents' \in Nat /\ intents <= intents'
      BY <3>1
    <3>3. 1 .. intents \subseteq 1 .. intents'
      BY <3>1, <3>2
    <3>4. intents' = intents + 1 => intents + 1 \in 1 .. intents'
      BY <3>1
    <3>5. QED
      BY <3>1, <3>2, <3>3, <3>4
  <2>3. runs' \in Seq(Nat \X Packs)
    <3>1. CASE runs' = runs
      BY <1>1, <3>1 DEF RouteTypes
    <3>2. CASE <<i, k>> \in (1 .. intents') \X Packs /\ runs' = Append(runs, <<i, k>>)
      <4>1. runs \in Seq(Nat \X Packs)
        BY <1>1 DEF RouteTypes
      <4>2. <<i, k>> \in Nat \X Packs
        <5> HIDE DEF i, k
        <5>1. i \in 1 .. intents + 1 /\ k \in Packs /\ intents \in Nat
          BY <1>7
        <5>2. QED
          BY <5>1
      <4>3. QED
        BY <3>2, <4>1, <4>2, OneMore
    <3>3. QED
      BY <1>9, <3>1, <3>2
  <2>4. latest' \in [Procs -> 0 .. intents']
    <3>1. intents \in Nat /\ latest \in [Procs -> 0 .. intents] /\ latest' = latest
      BY <1>1, <1>2 DEF RouteTypes
    <3>2. 0 .. intents \subseteq 0 .. intents'
      BY <2>2, <3>1
    <3>3. QED
      BY <3>1, <3>2
  <2>5. \E x \in SUBSET {"configured", "untold", "acted", "recorded"} :
          did' = [did EXCEPT ![p] = did[p] \cup x]
    BY DEF DoAct, DoStart, DoStartCut, DoRecord
  <2>6. did' \in [Procs -> SUBSET {"configured", "untold", "acted", "recorded"}]
    BY <1>1, <2>5 DEF RouteTypes
  <2>7. QED
    BY <1>1, <1>2, <2>1, <2>2, <2>3, <2>4, <2>6 DEF RouteTypes
<1>11. EventsOK'
  <2>1. intents <= intents'
    <3>1. intents \in Nat /\ intents' \in {intents, intents + 1}
      BY <1>7, <1>8
    <3>2. QED
      BY <3>1
  <2>2. \/ events' = events
        \/ \E x \in Events :
             /\ events' = Append(events, x)
             /\ x.base > 0 => \E j \in x.base .. Len(corrections'[x.text]) :
                                corrections'[x.text][j] = x.intent
             /\ x.intent = "capture" /\ "chat" \notin meeting => x.text \in captured'
    BY <1>6, <1>8
  <2>3. runs' = runs \/ \E x \in (1 .. intents') \X Packs : runs' = Append(runs, x)
    BY <1>9
  <2>4. QED
    BY <1>1, <1>2, <1>3, <1>8, <1>10, <2>1, <2>2, <2>3, EventsKept
<1>12. RequestOK(p)'
  <2>1. CASE DoAct(p) \/ DoStart(p)
    <3>1. /\ did[p] \in Unacted
          /\ did' = [did EXCEPT ![p] = did[p] \cup {"acted", "recorded"}]
      BY <1>1, <2>1 DEF RequestOK, DoAct, DoStart
    <3>2. did'[p] = did[p] \cup {"acted", "recorded"}
      BY <1>1, <3>1 DEF RouteTypes
    <3>3. Settled(p)'
      BY <3>1, <3>2, NowSettled
    <3>4. pc'[p] = "end"
      BY <1>1, <2>1 DEF DoAct, DoStart, End, ProcTypes
    <3>5. QED
      BY <3>3, <3>4 DEF RequestOK, DoPoints
  <2>2. CASE DoStartCut(p)
    <3>1. did[p] \in Unacted /\ did' = [did EXCEPT ![p] = did[p] \cup {"acted"}]
      BY <1>1, <2>2 DEF RequestOK, DoStartCut
    <3>2. did'[p] \in CutShort
      <4>1. did'[p] = did[p] \cup {"acted"}
        BY <1>1, <3>1 DEF RouteTypes
      <4>2. {} \cup {"acted"} = {"acted"}
            /\ {"configured", "untold"} \cup {"acted"} = {"configured", "untold", "acted"}
        OBVIOUS
      <4>3. QED
        BY <3>1, <4>1, <4>2 DEF Unacted, CutShort
    <3>3. pc[p] = "factory" /\ pc'[p] = "cut"
      BY <1>1, <2>2 DEF DoStartCut, Goto, ProcTypes
    <3>4. Obeys(text[p], base[p], route[p].intent)'
      BY <1>2, <1>5 DEF Obeys
    <3>5. base[p] \in 0 .. Len(corrections[text[p]])
          /\ route[p].intent \in {"factory_run", "connector_update"}
      BY <1>1, <3>3 DEF RequestOK, DoPoints
    <3>6. QED
      BY <1>2, <1>5, <3>2, <3>3, <3>4, <3>5 DEF RequestOK
  <2>3. CASE DoRecord(p)
    <3>1. /\ did[p] \in CutShort
          /\ did' = [did EXCEPT ![p] = did[p] \cup {"recorded"}]
      BY <1>1, <2>3 DEF RequestOK, DoRecord
    <3>2. did'[p] = did[p] \cup {"acted", "recorded"}
      <4>1. did'[p] = did[p] \cup {"recorded"}
        BY <1>1, <3>1 DEF RouteTypes
      <4>2. "acted" \in did[p]
        BY <3>1 DEF CutShort
      <4>3. QED
        BY <4>1, <4>2
    <3>3. Settled(p)'
      BY <3>1, <3>2, NowSettled
    <3>4. pc'[p] = "end"
      BY <1>1, <2>3 DEF DoRecord, End, ProcTypes
    <3>5. QED
      BY <3>3, <3>4 DEF RequestOK, DoPoints
  <2>4. QED
    BY <2>1, <2>2, <2>3
<1>13. QED
  BY <1>3, <1>10, <1>11, <1>12

\* A correction is the newest of its text and in force at once.
LEMMA FeedbackStep ==
  ASSUME FrameOK, RequestInv, NEW p \in Procs, Feedback(p)
  PROVE  RouteTypes' /\ CorrectionsOK' /\ Grown /\ EventsOK' /\ RequestOK(p)'
<1>1. /\ RouteTypes /\ CorrectionsOK /\ RequestOK(p) /\ EventsOK
      /\ ProcTypes
  BY DEF RequestInv, FrameOK
<1>2. PICK e \in 1 .. Len(events), j \in Corrected :
        /\ override' = [override EXCEPT ![events[e].text] = j]
        /\ corrections' = [corrections EXCEPT ![events[e].text] = Append(@, j)]
  BY DEF Feedback
<1>3. UNCHANGED <<requestVars, events, captured, intents, plans, runs, cmd, meeting>>
  BY DEF Feedback, End
<1>4. PICK t \in Texts : t = events[e].text
  <2>1. events[e] \in Events
    BY <1>1 DEF RouteTypes
  <2>2. QED
    BY <2>1 DEF Events
<1>5. j \in INTENTS /\ corrections[t] \in Seq(INTENTS)
  BY <1>1, RouterAssumption DEF RouteTypes
<1>6. /\ override' = [override EXCEPT ![t] = j]
      /\ corrections' = [corrections EXCEPT ![t] = Append(corrections[t], j)]
  BY <1>2, <1>4
<1>7. /\ Append(corrections[t], j) \in Seq(INTENTS) /\ Len(corrections[t]) \in Nat
      /\ Len(Append(corrections[t], j)) = Len(corrections[t]) + 1
      /\ \A k \in 1 .. Len(corrections[t]) :
           Append(corrections[t], j)[k] = corrections[t][k]
      /\ Append(corrections[t], j)[Len(corrections[t]) + 1] = j
  BY <1>5, OneMore
<1>8. RouteTypes'
  BY <1>1, <1>3, <1>5, <1>6, <1>7 DEF RouteTypes, requestVars
<1>9. /\ override'[t] = j /\ corrections'[t] = Append(corrections[t], j)
      /\ \A u \in Texts \ {t} : override'[u] = override[u] /\ corrections'[u] = corrections[u]
  BY <1>1, <1>6 DEF RouteTypes
<1>10. CorrectionsOK'
  BY <1>1, <1>7, <1>9 DEF CorrectionsOK
<1>11. Grown
  <2>1. \A u \in Texts : Len(corrections[u]) \in Nat
    BY <1>1 DEF RouteTypes
  <2>2. QED
    BY <1>7, <1>9, <2>1 DEF Grown
<1>12. EventsOK'
  <2>1. intents \in Nat
    BY <1>1 DEF RouteTypes
  <2>2. QED
    BY <1>1, <1>3, <1>8, <1>11, <2>1, EventsKept
<1>13. RequestOK(p)'
  <2>1. did[p] = {} /\ cmd[p] = "router"
    BY <1>1 DEF RequestOK, Feedback, At
  <2>2. pc'[p] = "end"
    BY <1>1 DEF Feedback, End, ProcTypes
  <2>3. QED
    BY <1>3, <2>1, <2>2 DEF RequestOK, DoPoints, requestVars
<1>14. QED
  BY <1>8, <1>10, <1>11, <1>12, <1>13

\* A turn of a chat is routed as a request is.
LEMMA SayStep ==
  ASSUME FrameOK, RequestInv, NEW p \in Procs, ChatSay(p)
  PROVE  RouteTypes' /\ CorrectionsOK' /\ Grown /\ EventsOK' /\ RequestOK(p)'
<1>1. /\ RouteTypes /\ CorrectionsOK /\ EventsOK
      /\ ProcTypes /\ Fits(cmd[p], pc[p])
  BY DEF RequestInv, FrameOK
<1>2. PICK t \in Messages : \E x \in RouteWithFeedback(t) :
        /\ text' = [text EXCEPT ![p] = t]
        /\ base' = [base EXCEPT ![p] = Len(corrections[t])]
        /\ events' = Append(events, [text |-> t, intent |-> x.intent,
                                     base |-> Len(corrections[t])])
  BY DEF ChatSay
<1>3. PICK x \in RouteWithFeedback(t) :
        events' = Append(events, [text |-> t, intent |-> x.intent,
                                  base |-> Len(corrections[t])])
  BY <1>2
<1>4. UNCHANGED <<route, latest, did, override, corrections, captured, intents, plans,
                  runs, meeting, cmd>>
  BY DEF ChatSay, Goto
<1>5. pc'[p] = "answered" /\ cmd[p] = "chat" /\ "chat" \in meeting
  BY <1>1 DEF ChatSay, Goto, ProcTypes, Fits, ChatPoints
<1>6. t \in Texts /\ Len(corrections[t]) \in Nat
  BY <1>1, MemoryAssumption DEF RouteTypes
<1>7. /\ x.intent \in INTENTS
      /\ Len(corrections[t]) > 0 => x.intent = corrections[t][Len(corrections[t])]
  BY <1>1, <1>6, RouteGiven
<1>8. CorrectionsOK' /\ Grown
  BY <1>1, <1>4 DEF CorrectionsOK, Grown, RouteTypes
<1> DEFINE e == [text |-> t, intent |-> x.intent, base |-> Len(corrections[t])]
<1>9. /\ e \in Events
      /\ e.base > 0 => \E j \in e.base .. Len(corrections'[e.text]) :
                         corrections'[e.text][j] = e.intent
  BY <1>4, <1>6, <1>7 DEF Events
<1>10. events' \in Seq(Events)
  <2> HIDE DEF e
  <2>1. events' = Append(events, e) /\ events \in Seq(Events)
    BY <1>1, <1>3 DEF RouteTypes, e
  <2>2. QED
    BY <1>9, <2>1, OneMore
<1>11. RouteTypes'
  BY <1>1, <1>2, <1>4, <1>6, <1>10 DEF RouteTypes
<1>12. EventsOK'
  <2>1. intents <= intents'
    BY <1>1, <1>4 DEF RouteTypes
  <2>2. \E y \in Events :
          /\ events' = Append(events, y)
          /\ y.base > 0 => \E j \in y.base .. Len(corrections'[y.text]) :
                             corrections'[y.text][j] = y.intent
          /\ y.intent = "capture" /\ "chat" \notin meeting => y.text \in captured'
    BY <1>3, <1>5, <1>9
  <2>3. QED
    BY <1>1, <1>4, <1>8, <1>11, <2>1, <2>2, EventsKept
<1>13. RequestOK(p)'
  BY <1>4, <1>5 DEF RequestOK, DoPoints
<1>14. QED
  BY <1>8, <1>11, <1>12, <1>13

\* A request that is over has left nothing with its process.
LEMMA OverStep ==
  ASSUME FrameOK, RequestInv, NEW p \in Procs, RequestOver(p), Leave(p)
  PROVE  RouteTypes' /\ CorrectionsOK' /\ Grown /\ EventsOK' /\ RequestOK(p)'
<1>1. /\ RouteTypes /\ CorrectionsOK /\ EventsOK /\ ProcTypes
  BY DEF RequestInv, FrameOK
<1>2. /\ UNCHANGED <<override, corrections, events, captured, intents, plans, runs, meeting>>
      /\ text' = [text EXCEPT ![p] = NoText] /\ route' = [route EXCEPT ![p] = NoRoute]
      /\ latest' = [latest EXCEPT ![p] = 0] /\ base' = [base EXCEPT ![p] = 0]
      /\ did' = [did EXCEPT ![p] = {}]
  BY DEF RequestOver, Leave, routeVars
<1>3. pc'[p] = "idle" /\ did'[p] = {}
  BY <1>1, <1>2 DEF Leave, ProcTypes, RouteTypes
<1>4. RouteTypes'
  <2>1. NoRoute \in Routes
    BY DEF NoRoute, Routes, Packs
  <2>2. 0 \in 0 .. intents /\ 0 \in Nat
    BY <1>1 DEF RouteTypes
  <2>3. QED
    BY <1>1, <1>2, <2>1, <2>2 DEF RouteTypes
<1>5. CorrectionsOK' /\ Grown
  BY <1>1, <1>2 DEF CorrectionsOK, Grown, RouteTypes
<1>6. EventsOK'
  BY <1>1, <1>2 DEF EventsOK, Obeys
<1>7. RequestOK(p)'
  BY <1>3 DEF RequestOK, DoPoints
<1>8. QED
  BY <1>4, <1>5, <1>6, <1>7

\* Where the commands on conversations and advice are.
LEMMA MemoryPoints ==
  ASSUME FrameOK, NEW p \in Procs, MemorySteps(p)
  PROVE  /\ cmd[p] \in {"chat", "cleanup", "reflect", "suggestions"} /\ cmd' = cmd
         /\ pc'[p] \in {"end", "decide"} \cup ChatPoints \cup ReflectPoints
         /\ pc[p] \in {"run", "decide"} \cup ChatPoints \cup ReflectPoints
<1> USE DEF Fits, ChatPoints, ReflectPoints, Goto, End, At
<1>1. Fits(cmd[p], pc[p]) /\ pc \in [Procs -> Points]
  BY DEF FrameOK, ProcTypes
<1>2. CASE ChatOpen(p) \/ ChatSay(p) \/ ChatExit(p) \/ LogRead(p) \/ LogNew(p)
           \/ LogWrite(p)
  BY <1>1, <1>2 DEF ChatOpen, ChatSay, ChatExit, LogRead, LogNew, LogWrite
<1>3. CASE Purge(p) \/ DecideWrite(p)
  BY <1>1, <1>3 DEF Purge, DecideWrite
<1>4. CASE ReflectWrite(p) \/ ReflectScan(p) \/ ReflectClose(p) \/ ReflectSuggest(p)
           \/ Hygiene(p)
  BY <1>1, <1>4 DEF ReflectWrite, ReflectScan, ReflectClose, ReflectSuggest, Hygiene
<1>5. CASE ReflectRead(p)
  BY <1>1, <1>5 DEF ReflectRead
<1>6. CASE DecideRead(p)
  BY <1>1, <1>6 DEF DecideRead
<1>7. QED
  BY <1>2, <1>3, <1>4, <1>5, <1>6 DEF MemorySteps

\* What is left of the requests by all other steps.
LEMMA QuietStep ==
  ASSUME FrameOK, RequestInv, NEW p \in Procs, TraceSteps(p) \/ MemorySteps(p) \/ Rule(p),
         UNCHANGED requestVars, UNCHANGED routeVars, meeting' = meeting
  PROVE  RouteTypes' /\ CorrectionsOK' /\ Grown /\ EventsOK' /\ RequestOK(p)'
<1>1. /\ RouteTypes /\ CorrectionsOK /\ EventsOK /\ RequestOK(p)
      /\ ProcTypes /\ Fits(cmd[p], pc[p])
  BY DEF RequestInv, FrameOK
<1>2. UNCHANGED <<text, route, latest, base, did, override, corrections, events, captured,
                  intents, plans, runs, meeting>>
  BY DEF requestVars, routeVars
<1>3. RouteTypes' /\ CorrectionsOK' /\ Grown /\ EventsOK'
  BY <1>1, <1>2 DEF RouteTypes, CorrectionsOK, Grown, EventsOK, Obeys
<1>4. \/ pc[p] \in {"idle", "start"} /\ pc'[p] \in {"start", "run"}
      \/ /\ pc'[p] \notin DoPoints \cup {"idle", "start", "run"}
         /\ cmd'[p] # "do"
  <2>1. CASE MemorySteps(p)
    BY <2>1, MemoryPoints DEF DoPoints, ChatPoints, ReflectPoints
  <2>2. CASE Rule(p)
    BY <1>1, <2>2 DEF Rule, At, End, DoPoints, ProcTypes
  <2>3. CASE CleanupSelect(p) \/ CleanupCommit(p) \/ Judge(p)
    BY <1>1, <2>3 DEF CleanupSelect, CleanupCommit, Judge, At, Goto, End, DoPoints,
                      ProcTypes, Fits
  <2>4. CASE Link(p) \/ \E c \in meeting : Begin(p, c)
    BY <1>1, <2>4 DEF Link, Begin, Goto, ProcTypes
  <2>5. QED
    BY <2>1, <2>2, <2>3, <2>4 DEF TraceSteps
<1>5. RequestOK(p)'
  BY <1>1, <1>2, <1>4 DEF RequestOK, DoPoints
<1>6. QED
  BY <1>3, <1>5

\* A step is one of these.
LEMMA RequestFrame ==
  ASSUME FrameOK, IdsOK, [Next]_vars
  PROVE  \/ \E p \in Procs :
              /\ Steps(p)
              /\ \/ RouterSteps(p) \/ ChatSay(p)
                 \/ RequestOver(p) /\ Leave(p)
                 \/ /\ TraceSteps(p) \/ MemorySteps(p)
                    /\ UNCHANGED requestVars /\ UNCHANGED routeVars
         \/ UNCHANGED <<requestVars, routeVars, procVars>>
<1>1. ASSUME NEW p \in Procs, MemorySteps(p)
      PROVE  ChatSay(p) \/ UNCHANGED <<requestVars, routeVars>>
  BY <1>1 DEF MemorySteps, ChatOpen, ChatExit, LogRead, LogNew, LogWrite, Purge,
              ReflectRead, ReflectWrite, ReflectScan, ReflectClose, ReflectSuggest,
              Hygiene, DecideRead, DecideWrite, routerVars
<1>2. ASSUME NEW p \in Procs, TraceSteps(p), UNCHANGED <<routerVars, memoryVars>>
      PROVE  UNCHANGED <<requestVars, routeVars>>
  BY <1>2 DEF routerVars
<1>3. ASSUME NEW p \in Procs, Finish(p) \/ Kill(p)
      PROVE  Leave(p)
  BY <1>3 DEF Finish, Kill
<1>4. CASE UNCHANGED vars
  BY <1>4 DEF vars, routerVars
<1>5. CASE Age /\ UNCHANGED <<routerVars, memoryVars>>
  BY <1>5 DEF Age, routerVars
<1>6. CASE MemoryAges
  BY <1>6 DEF MemoryAges, routerVars
<1>7. QED
  BY <1>1, <1>2, <1>3, <1>4, <1>5, <1>6 DEF Next, Steps

\* The requests are settled in every step.
LEMMA RequestStep ==
  ASSUME FrameOK, IdsOK, RequestInv, [Next]_vars
  PROVE  RequestInv'
<1>1. ASSUME NEW p \in Procs, Steps(p),
             RouterSteps(p) \/ ChatSay(p) \/ (RequestOver(p) /\ Leave(p))
             \/ ((TraceSteps(p) \/ MemorySteps(p)) /\ UNCHANGED requestVars
                 /\ UNCHANGED routeVars)
      PROVE  RequestInv'
  <2>1. RouteTypes' /\ CorrectionsOK' /\ Grown /\ EventsOK' /\ RequestOK(p)'
    <3>1. meeting' = meeting
      BY FrameStep
    <3>2. CASE RouterSteps(p)
      <4>1. CASE Rule(p)
        BY <3>1, <4>1, QuietStep DEF Rule
      <4>2. CASE Feedback(p)
        BY <4>2, FeedbackStep
      <4>3. CASE DoSteps(p)
        BY <4>3, AskSteps, ActSteps DEF DoSteps
      <4>4. QED
        BY <3>2, <4>1, <4>2, <4>3 DEF RouterSteps
    <3>3. CASE ChatSay(p)
      BY <3>3, SayStep
    <3>4. CASE RequestOver(p) /\ Leave(p)
      BY <3>4, OverStep
    <3>5. CASE (TraceSteps(p) \/ MemorySteps(p)) /\ UNCHANGED requestVars
               /\ UNCHANGED routeVars
      BY <3>1, <3>5, QuietStep
    <3>6. QED
      BY <1>1, <3>2, <3>3, <3>4, <3>5
  <2>2. ASSUME NEW q \in Procs \ {p}
        PROVE  RequestOK(q)'
    <3>1. RouteTypes /\ RequestOK(q)
      BY DEF RequestInv
    <3>2. /\ text'[q] = text[q] /\ route'[q] = route[q]
          /\ base'[q] = base[q] /\ did'[q] = did[q]
      BY <1>1, <3>1, OwnRequest DEF requestVars
    <3>3. pc'[q] = pc[q] /\ cmd'[q] = cmd[q] /\ good'[q] = good[q]
      BY <1>1, OwnStep
    <3>4. QED
      BY <2>1, <3>1, <3>2, <3>3, RequestKept
  <2>3. QED
    BY <2>1, <2>2 DEF RequestInv
<1>2. CASE UNCHANGED <<requestVars, routeVars, procVars>>
  <2>1. UNCHANGED <<meeting, pc, cmd, good, text, route, latest, base, did, override,
                    corrections, events, captured, intents, plans, runs>>
    BY <1>2 DEF requestVars, routeVars, procVars
  <2>2. RouteTypes' /\ CorrectionsOK'
    BY <2>1 DEF RequestInv, RouteTypes, CorrectionsOK
  <2>3. \A p \in Procs : RequestOK(p)'
    BY <2>1 DEF RequestInv, RequestOK, Settled, Obeys
  <2>4. EventsOK'
    BY <2>1 DEF RequestInv, EventsOK, Obeys
  <2>5. QED
    BY <2>2, <2>3, <2>4 DEF RequestInv
<1>3. QED
  BY <1>1, <1>2, RequestFrame

-----------------------------------------------------------------------------
(* Facts about numbers and sequences.                                      *)

\* A finite set of numbers has a greatest one.
LEMMA Greatest ==
  ASSUME NEW S \in SUBSET Nat, IsFiniteSet(S), S # {}
  PROVE  \E m \in S : \A k \in S : k <= m
<1> DEFINE Above(m) == {x \in S : x > m}
           U == {Above(m) : m \in S}
<1>1. U \subseteq FiniteSubsetsOf(Nat) /\ U # {}
  <2>1. \A m : Above(m) \in SUBSET S
    OBVIOUS
  <2>2. \A m : IsFiniteSet(Above(m))
    <3> HIDE DEF Above
    <3>1. QED
      BY <2>1, FS_Subset
  <2>3. QED
    BY <2>2 DEF FiniteSubsetsOf
<1>2. PICK T \in U : \A y \in U : <<y, T>> \notin StrictSubsetOrdering(Nat)
  <2> HIDE DEF U
  <2>1. IsWellFoundedOn(StrictSubsetOrdering(Nat), FiniteSubsetsOf(Nat))
    BY FS_StrictSubsetOrderingWellFounded
  <2>2. QED
    BY <1>1, <2>1, WFMin
<1>3. PICK m \in S : T = Above(m)
  OBVIOUS
<1>4. ASSUME NEW k \in S, k > m
      PROVE  FALSE
  <2>1. Above(k) \subseteq Above(m) /\ k \in Above(m) /\ k \notin Above(k)
    <3>1. k \in Nat /\ m \in Nat /\ \A x \in S : x \in Nat
      BY <1>3, <1>4
    <3>2. k > m /\ ~(k > k) /\ \A x \in S : x > k => x > m
      BY <1>4, <3>1
    <3>3. k \in S
      BY <1>4
    <3>4. QED
      BY <3>2, <3>3
  <2>2. Above(k) \in U /\ Above(k) \in SUBSET Nat /\ Above(m) \in SUBSET Nat
    OBVIOUS
  <2>3. <<Above(k), T>> \in StrictSubsetOrdering(Nat)
    <3>1. Above(k) # Above(m)
      BY <2>1
    <3> HIDE DEF Above
    <3>2. QED
      BY <1>3, <2>1, <2>2, <3>1 DEF StrictSubsetOrdering
  <2>4. QED
    BY <1>2, <2>2, <2>3
<1>5. \A k \in S : k <= m
  BY <1>4
<1>6. QED
  BY <1>5

\* A set of numbers up to a bound has a least one.
LEMMA Least ==
  ASSUME NEW n \in Nat, NEW S \in SUBSET (1 .. n), S # {}
  PROVE  Min(S) \in S
<1> DEFINE T == {n - x : x \in S}
<1>1. T \in SUBSET Nat /\ T # {} /\ \A x \in T : x <= n
  <2>1. \A x \in S : x \in 1 .. n
    OBVIOUS
  <2>2. \A x \in 1 .. n : n - x \in Nat /\ n - x <= n
    OBVIOUS
  <2>3. \A y \in T : y \in Nat /\ y <= n
    BY <2>1, <2>2
  <2>4. QED
    BY <2>3
<1>2. PICK m \in T : \A k \in T : k <= m
  <2> HIDE DEF T
  <2>1. IsFiniteSet(T)
    BY <1>1, FS_BoundedSetOfNaturals
  <2>2. QED
    BY <1>1, <2>1, Greatest
<1>3. PICK x \in S : m = n - x
  OBVIOUS
<1>4. \A y \in S : x <= y
  <2>1. \A y \in S : n - y \in T
    OBVIOUS
  <2>2. \A y \in S : n - y <= n - x
    BY <1>2, <1>3, <2>1
  <2>3. QED
    BY <2>2
<1>5. QED
  BY <1>4 DEF Min

\* The elements of a finite set in a row, each of them once.
LEMMA InARow ==
  ASSUME NEW S, IsFiniteSet(S)
  PROVE  /\ SetToSeq(S) \in Seq(S) /\ Cardinality(S) \in Nat
         /\ Len(SetToSeq(S)) = Cardinality(S)
         /\ DOMAIN SetToSeq(S) = 1 .. Cardinality(S)
         /\ \A i, j \in 1 .. Cardinality(S) : SetToSeq(S)[i] = SetToSeq(S)[j] => i = j
         /\ \A s \in S : \E i \in 1 .. Cardinality(S) : SetToSeq(S)[i] = s
<1> DEFINE n == Cardinality(S)
           f == SetToSeq(S)
<1>1. n \in Nat /\ ExistsBijection(1 .. n, S)
  BY FS_CardinalityType
<1>2. PICK g : g \in Bijection(1 .. n, S)
  BY <1>1 DEF ExistsBijection
<1>3. g \in [1 .. n -> S] /\ IsInjective(g)
  BY <1>2 DEF Bijection, Injection
<1>4. f \in [1 .. n -> S] /\ IsInjective(f)
  BY <1>3 DEF SetToSeq
<1>5. f \in Injection(1 .. n, S)
  BY <1>4 DEF Injection
<1>6. f \in Surjection(1 .. n, S)
  <2> HIDE DEF f
  <2>1. IsFiniteSet(1 .. n) /\ Cardinality(1 .. n) = n
    <3>1. 1 \in Int /\ n \in Int
      BY <1>1
    <3>2. Cardinality(1 .. n) = (IF 1 > n THEN 0 ELSE n - 1 + 1) /\ IsFiniteSet(1 .. n)
      BY <3>1, FS_Interval
    <3>3. QED
      BY <1>1, <3>2
  <2> HIDE DEF n
  <2>2. Cardinality(1 .. n) = Cardinality(S)
    BY <2>1 DEF n
  <2>3. QED
    BY <1>5, <2>2, FS_Injection
<1>7. \A s \in S : \E i \in 1 .. n : f[i] = s
  BY <1>6 DEF Surjection
<1>8. f \in Seq(S) /\ Len(f) = n /\ DOMAIN f = 1 .. n
  <2> HIDE DEF f, n
  <2>1. QED
    BY <1>1, <1>4
<1>9. \A i, j \in 1 .. n : f[i] = f[j] => i = j
  BY <1>4 DEF IsInjective
<1>10. QED
  BY <1>1, <1>7, <1>8, <1>9

\* Two logs, one after the other.
LEMMA OneAfterTheOther ==
  ASSUME NEW S, NEW s \in Seq(S), NEW t \in Seq(S)
  PROVE  /\ s \o t \in Seq(S) /\ Len(s) \in Nat /\ Len(t) \in Nat
         /\ Len(s \o t) = Len(s) + Len(t)
         /\ DOMAIN (s \o t) = 1 .. Len(s) + Len(t)
         /\ \A i \in 1 .. Len(s) : (s \o t)[i] = s[i]
         /\ \A i \in 1 .. Len(t) : (s \o t)[Len(s) + i] = t[i]
OBVIOUS

-----------------------------------------------------------------------------
(* Conversations.                                                          *)

Talking == {p \in Procs : pc[p] \in {"answered", "logging"}}

TurnTypes ==
  /\ convs \in Seq([alive : BOOLEAN, count : Nat, old : BOOLEAN])
  /\ turns \in Seq([conv : Nat, index : Nat, alive : BOOLEAN, old : BOOLEAN])
  /\ session \in [Procs -> [conv : Nat, count : Nat]]
  /\ answered \in Nat /\ failures \in Nat

TurnsIn(c) == {t \in DOMAIN turns : turns[t].conv = c}

\* Every turn has its place in a conversation, and a number below its count.
TurnsOK ==
  /\ \A t \in DOMAIN turns :
       /\ turns[t].conv \in DOMAIN convs
       /\ turns[t].index < convs[turns[t].conv].count
       /\ turns[t].alive => convs[turns[t].conv].alive
  /\ \A c \in DOMAIN convs : convs[c].count = Cardinality(TurnsIn(c))
  /\ \A t, u \in DOMAIN turns :
       t < u /\ turns[t].conv = turns[u].conv /\ turns[t].index = turns[u].index
         => <<"conversation", turns[t].conv>> \in raced

\* A count that was read before another session logged is marked.
LogOK(p) ==
  /\ pc[p] \in {"answered", "logging"} => text[p] \in Messages
  /\ pc[p] = "logging" =>
       LET c == session[p].conv
       IN  /\ c \in DOMAIN convs /\ session[p].count <= convs[c].count
           /\ session[p].count # convs[c].count => <<"conversation", c>> \in raced

TurnInv ==
  /\ TurnTypes /\ TurnsOK /\ (\A p \in Procs : LogOK(p))
  /\ answered = Len(turns) + failures + Cardinality(Talking)

-----------------------------------------------------------------------------
(* Observations, insights and suggestions.                                 *)

Subjects == {NoSubject} \cup UNION {{x[2] : x \in ObservedIn[t]} : t \in Messages}
Statuses == {"accepted", "dismissed", "applied"}
Named    == ({"risk"} \X Subjects) \cup ({"preference"} \X Texts)

\* What is observed, and of which turn.
ObsOK ==
  /\ IsFiniteSet(obs)
  /\ \A o \in obs : /\ o.turn \in {0} \cup DOMAIN turns /\ o.subject \in Subjects
                    /\ o.kind = "preference" => o.detail[1] \in Texts
                    /\ o.turn # 0 => turns[o.turn].alive
  /\ \A o, x \in obs : /\ o.kind = x.kind /\ o.subject = x.subject /\ o.detail = x.detail
                       => o.turn = x.turn

Plans == [subjects : SUBSET Subjects, id : Nat, title : Named \cup {<<>>},
          status : Statuses \cup {""}]

Insight == [subject : Subjects, by : Int, old : BOOLEAN]

\* Open insights are on subjects of their own.
Distinct(s) ==
  \A i, j \in DOMAIN s :
    s[i].by = 0 /\ s[j].by = 0 /\ s[i].subject = s[j].subject => i = j

InsightsOK ==
  /\ insights \in Seq(Insight) /\ Distinct(insights)
  /\ \A p \in Procs :
       /\ pc[p] = "reflect" => IsFiniteSet(plan[p].subjects)
       /\ pc[p] = "close" => plan[p].id \in DOMAIN insights

Suggestion == [title : Named, status : Statuses \cup {"proposed"}, past : SUBSET Statuses]

SuggestionTypes == suggestions \in Seq(Suggestion)

Already == {suggestions[i].title : i \in DOMAIN suggestions}

\* What has been decided goes with the status.
Followed(s) ==
  \/ s.status = "proposed" /\ s.past = {}
  \/ s.status \in Statuses /\ s.past = {s.status}
  \/ s.status = "applied" /\ s.past = {"accepted", "applied"}

SuggestionsOK ==
  /\ SuggestionTypes
  /\ \A i, j \in DOMAIN suggestions :
       i < j /\ suggestions[i].title = suggestions[j].title
         => <<"title", suggestions[i].title>> \in raced
  /\ \A i \in DOMAIN suggestions :
       <<"suggestion", i>> \in raced \/ Followed(suggestions[i])

\* What a process has read is still so, or marked.
PlanOK(p) ==
  /\ pc[p] = "suggest" =>
       /\ plan[p].title \in Named
       /\ plan[p].title \in Already => <<"title", plan[p].title>> \in raced
  /\ pc[p] = "decide" =>
       LET i == plan[p].id
       IN  /\ i \in DOMAIN suggestions /\ plan[p].status \in Statuses
           /\ \/ <<"suggestion", i>> \in raced
              \/ MayBecome(suggestions[i].status, plan[p].status)
           /\ \A q \in Procs \ {p} : pc[q] = "decide" /\ plan[q].id = i =>
                <<"suggestion", i>> \in raced

AdviceInv ==
  /\ plan \in [Procs -> Plans]
  /\ ObsOK /\ InsightsOK /\ SuggestionsOK /\ \A p \in Procs : PlanOK(p)

-----------------------------------------------------------------------------
(* Conversations: each step keeps them.                                    *)

\* Who is being answered changes by one process at most.
LEMMA TalkingMoves ==
  ASSUME NEW p \in Procs, \A q \in Procs \ {p} : pc'[q] = pc[q]
  PROVE  /\ Cardinality(Talking) \in Nat /\ Cardinality(Talking') \in Nat
         /\ p \in Talking /\ p \notin Talking' =>
              Cardinality(Talking) = Cardinality(Talking') + 1
         /\ p \notin Talking /\ p \in Talking' =>
              Cardinality(Talking') = Cardinality(Talking) + 1
         /\ (p \in Talking <=> p \in Talking') => Talking' = Talking
<1>1. IsFiniteSet(Talking) /\ IsFiniteSet(Talking')
  <2>1. IsFiniteSet(Procs) /\ Talking \in SUBSET Procs /\ Talking' \in SUBSET Procs
    BY TraceAssumption DEF Talking
  <2>2. QED
    BY <2>1, FS_Subset
<1>2. \A S : IsFiniteSet(S) => Cardinality(S) \in Nat
  BY FS_CardinalityType
<1>3. \A q \in Procs \ {p} : q \in Talking <=> q \in Talking'
  BY DEF Talking
<1>4. Talking \subseteq Procs /\ Talking' \subseteq Procs
  BY DEF Talking
<1>5. ASSUME p \in Talking, p \notin Talking'
      PROVE  Cardinality(Talking) = Cardinality(Talking') + 1
  <2>1. Talking = Talking' \cup {p}
    BY <1>3, <1>4, <1>5
  <2>2. Cardinality(Talking' \cup {p}) = Cardinality(Talking') + 1
    BY <1>1, <1>5, FS_AddElement
  <2>3. QED
    BY <2>1, <2>2
<1>6. ASSUME p \notin Talking, p \in Talking'
      PROVE  Cardinality(Talking') = Cardinality(Talking) + 1
  <2>1. Talking' = Talking \cup {p}
    BY <1>3, <1>4, <1>6
  <2>2. Cardinality(Talking \cup {p}) = Cardinality(Talking) + 1
    BY <1>1, <1>6, FS_AddElement
  <2>3. QED
    BY <2>1, <2>2
<1>7. (p \in Talking <=> p \in Talking') => Talking' = Talking
  BY <1>3, <1>4
<1>8. QED
  BY <1>1, <1>2, <1>5, <1>6, <1>7

\* The rows of the two tables.
LEMMA RowTypes ==
  ASSUME TurnTypes
  PROVE  /\ \A c \in DOMAIN convs :
              /\ convs[c] \in [alive : BOOLEAN, count : Nat, old : BOOLEAN]
              /\ convs[c].count \in Nat /\ convs[c].alive \in BOOLEAN
         /\ \A t \in DOMAIN turns :
              /\ turns[t] \in [conv : Nat, index : Nat, alive : BOOLEAN, old : BOOLEAN]
              /\ turns[t].conv \in Nat /\ turns[t].index \in Nat
         /\ Len(convs) \in Nat /\ DOMAIN convs = 1 .. Len(convs)
         /\ Len(turns) \in Nat /\ DOMAIN turns = 1 .. Len(turns)
<1> DEFINE Conv == [alive : BOOLEAN, count : Nat, old : BOOLEAN]
           Turn == [conv : Nat, index : Nat, alive : BOOLEAN, old : BOOLEAN]
<1>1. convs \in Seq(Conv) /\ turns \in Seq(Turn)
  BY DEF TurnTypes
<1>2. /\ \A c \in Conv : c.count \in Nat /\ c.alive \in BOOLEAN
      /\ \A t \in Turn : t.conv \in Nat /\ t.index \in Nat
  OBVIOUS
<1>3. /\ \A c \in DOMAIN convs : convs[c] \in Conv
      /\ \A t \in DOMAIN turns : turns[t] \in Turn
      /\ Len(convs) \in Nat /\ DOMAIN convs = 1 .. Len(convs)
      /\ Len(turns) \in Nat /\ DOMAIN turns = 1 .. Len(turns)
  <2> HIDE DEF Conv, Turn
  <2>1. QED
    BY <1>1
<1>4. /\ \A c \in DOMAIN convs : convs[c].count \in Nat /\ convs[c].alive \in BOOLEAN
      /\ \A t \in DOMAIN turns : turns[t].conv \in Nat /\ turns[t].index \in Nat
  <2> HIDE DEF Conv, Turn
  <2>1. QED
    BY <1>2, <1>3
<1>5. QED
  BY <1>3, <1>4

\* What is not touched stays.
LEMMA TurnsQuiet ==
  ASSUME TurnInv, UNCHANGED <<convs, turns, answered, failures>>, raced \subseteq raced',
         session' \in [Procs -> [conv : Nat, count : Nat]],
         \A q \in Procs : q \in Talking \/ q \in Talking' =>
           pc'[q] = pc[q] /\ text'[q] = text[q] /\ session'[q] = session[q]
  PROVE  TurnInv'
<1>1. TurnTypes'
  BY DEF TurnInv, TurnTypes
<1>2. TurnsOK'
  BY DEF TurnInv, TurnsOK, TurnsIn
<1>3. ASSUME NEW q \in Procs
      PROVE  LogOK(q)'
  BY DEF TurnInv, LogOK, Talking
<1>4. Talking' = Talking
  BY DEF Talking
<1>5. QED
  BY <1>1, <1>2, <1>3, <1>4 DEF TurnInv

\* A turn that is added to conversation c, be it a new one.
LEMMA TurnAdded ==
  ASSUME TurnTypes, TurnsOK, NEW c, NEW k \in Nat,
         turns' = Append(turns, [conv |-> c, index |-> k, alive |-> TRUE, old |-> FALSE]),
         convs' \in Seq([alive : BOOLEAN, count : Nat, old : BOOLEAN]),
         c \in DOMAIN convs', convs'[c].alive, k < convs'[c].count,
         \A d \in DOMAIN convs :
           /\ d \in DOMAIN convs' /\ convs'[d].alive = convs[d].alive
           /\ convs'[d].count = IF d = c THEN convs[d].count + 1 ELSE convs[d].count,
         \A d \in DOMAIN convs' \ DOMAIN convs : d = c /\ convs'[d].count = 1,
         raced \subseteq raced',
         \A t \in DOMAIN turns : turns[t].conv = c /\ turns[t].index = k =>
           <<"conversation", c>> \in raced
  PROVE  /\ turns' \in Seq([conv : Nat, index : Nat, alive : BOOLEAN, old : BOOLEAN])
         /\ TurnsOK' /\ Len(turns') = Len(turns) + 1 /\ Len(turns) \in Nat
         /\ DOMAIN turns \subseteq DOMAIN turns' /\ turns'[Len(turns) + 1].alive
         /\ Len(turns) + 1 \in DOMAIN turns'
         /\ \A t \in DOMAIN turns : turns'[t] = turns[t]
<1> DEFINE n == Len(turns) + 1
           new == [conv |-> c, index |-> k, alive |-> TRUE, old |-> FALSE]
           Turn == [conv : Nat, index : Nat, alive : BOOLEAN, old : BOOLEAN]
<1>1. /\ turns \in Seq(Turn)
      /\ convs \in Seq([alive : BOOLEAN, count : Nat, old : BOOLEAN])
  BY DEF TurnTypes
<1>2. c \in Nat /\ new \in Turn
  OBVIOUS
<1>3. /\ turns' \in Seq(Turn) /\ Len(turns) \in Nat /\ Len(turns') = n
      /\ DOMAIN turns = 1 .. Len(turns) /\ DOMAIN turns' = 1 .. n
      /\ \A t \in 1 .. Len(turns) : turns'[t] = turns[t]
      /\ turns'[n] = new
  <2> HIDE DEF new, Turn
  <2>1. turns' = Append(turns, new)
    BY DEF new
  <2>2. QED
    BY <1>1, <1>2, <2>1, OneMore
<1>4. \A t \in DOMAIN turns' : t \in DOMAIN turns \/ t = n
  BY <1>3
<1>5. ASSUME NEW t \in DOMAIN turns
      PROVE  /\ turns'[t] = turns[t] /\ turns[t].conv \in DOMAIN convs
             /\ turns[t].index \in Nat /\ t < n /\ t # n /\ t \in Nat
             /\ turns[t].index < convs[turns[t].conv].count
             /\ turns[t].alive => convs[turns[t].conv].alive
  <2>1. turns'[t] = turns[t] /\ t < n /\ t # n /\ t \in Nat
    BY <1>3, <1>5
  <2>2. turns[t] \in Turn
    <3> HIDE DEF Turn
    <3>1. QED
      BY <1>1, <1>5
  <2>3. turns[t].index \in Nat
    BY <2>2
  <2>4. QED
    BY <1>5, <2>1, <2>3 DEF TurnsOK
<1>6. ASSUME NEW d \in DOMAIN convs
      PROVE  convs[d].count \in Nat /\ convs'[d].count \in Nat
  <2> DEFINE Conv == [alive : BOOLEAN, count : Nat, old : BOOLEAN]
  <2>1. convs[d] \in Conv
    <3> HIDE DEF Conv
    <3>1. convs \in Seq(Conv)
      BY <1>1 DEF Conv
    <3>2. QED
      BY <1>6, <3>1
  <2>2. QED
    BY <1>6, <2>1
<1>7. ASSUME NEW t \in DOMAIN turns'
      PROVE  /\ turns'[t].conv \in DOMAIN convs'
             /\ turns'[t].index < convs'[turns'[t].conv].count
             /\ turns'[t].alive => convs'[turns'[t].conv].alive
  <2>1. CASE t \in DOMAIN turns
    <3>1. turns[t].index < convs[turns[t].conv].count
          /\ turns[t].conv \in DOMAIN convs /\ turns[t].index \in Nat
      BY <1>5, <2>1
    <3>2. turns[t].index < convs'[turns[t].conv].count
      <4> DEFINE d == turns[t].conv
      <4>1. /\ d \in DOMAIN convs /\ turns[t].index < convs[d].count
            /\ turns[t].index \in Nat /\ convs[d].count \in Nat
        BY <1>6, <3>1
      <4>2. convs'[d].count \in {convs[d].count, convs[d].count + 1}
        BY <4>1
      <4> HIDE DEF d
      <4>3. turns[t].index < convs'[d].count
        BY <4>1, <4>2
      <4>4. QED
        BY <4>3 DEF d
    <3>3. QED
      BY <1>5, <2>1, <3>1, <3>2
  <2>2. CASE t = n
    BY <1>3, <2>2
  <2>3. QED
    BY <1>4, <1>7, <2>1, <2>2
<1>8. ASSUME NEW d \in DOMAIN convs'
      PROVE  convs'[d].count = Cardinality(TurnsIn(d)')
  <2>1. TurnsIn(d)' = IF d = c THEN TurnsIn(d) \cup {n} ELSE TurnsIn(d)
    <3>1. n \in DOMAIN turns'
      BY <1>3
    <3>2. \A t : t \in TurnsIn(d)' <=> t \in DOMAIN turns' /\ turns'[t].conv = d
      BY DEF TurnsIn
    <3>3. \A t : t \in TurnsIn(d) <=> t \in DOMAIN turns /\ turns[t].conv = d
      BY DEF TurnsIn
    <3>4. turns'[n].conv = c
      BY <1>3
    <3>5. DOMAIN turns' = DOMAIN turns \cup {n}
      BY <1>3, <1>4
    <3>6. \A t \in DOMAIN turns : turns'[t] = turns[t]
      BY <1>5
    <3> HIDE DEF n
    <3>7. \A t : t \in TurnsIn(d)' <=> t \in TurnsIn(d) \/ (t = n /\ c = d)
      BY <3>1, <3>2, <3>3, <3>4, <3>5, <3>6
    <3>8. QED
      BY <3>7
  <2>2. n \notin TurnsIn(d) /\ IsFiniteSet(TurnsIn(d))
    <3>1. TurnsIn(d) \subseteq 1 .. Len(turns) /\ n \notin 1 .. Len(turns)
      BY <1>3 DEF TurnsIn
    <3>2. IsFiniteSet(1 .. Len(turns))
      BY <1>3, FS_Interval
    <3>3. QED
      BY <3>1, <3>2, FS_Subset
  <2>3. d \notin DOMAIN convs => TurnsIn(d) = {}
    BY <1>5 DEF TurnsIn
  <2>4. d \in DOMAIN convs => convs[d].count = Cardinality(TurnsIn(d))
    BY DEF TurnsOK
  <2>5. Cardinality(TurnsIn(d) \cup {n}) = Cardinality(TurnsIn(d)) + 1
    <3> HIDE DEF n
    <3>1. QED
      BY <2>2, FS_AddElement
  <2>6. CASE d \in DOMAIN convs
    BY <2>1, <2>4, <2>5, <2>6
  <2>7. CASE d \notin DOMAIN convs
    <3>1. d = c /\ convs'[d].count = 1 /\ Cardinality(TurnsIn(d)) = 0
      BY <1>8, <2>3, <2>7, FS_EmptySet
    <3>2. QED
      BY <2>1, <2>5, <3>1
  <2>8. QED
    BY <2>6, <2>7
<1>9. ASSUME NEW t \in DOMAIN turns', NEW u \in DOMAIN turns', t < u,
             turns'[t].conv = turns'[u].conv, turns'[t].index = turns'[u].index
      PROVE  <<"conversation", turns'[t].conv>> \in raced'
  <2>1. t \in DOMAIN turns
    <3>1. t \in 1 .. n /\ u \in 1 .. n
      BY <1>3, <1>9
    <3>2. t \in 1 .. Len(turns)
      BY <1>3, <1>9, <3>1
    <3>3. QED
      BY <1>3, <3>2
  <2>2. CASE u \in DOMAIN turns
    BY <1>5, <1>9, <2>1, <2>2 DEF TurnsOK
  <2>3. CASE u = n
    <3>1. turns[t].conv = c /\ turns[t].index = k
      BY <1>3, <1>5, <1>9, <2>1, <2>3
    <3>2. QED
      BY <1>5, <2>1, <3>1
  <2>4. QED
    BY <1>4, <1>9, <2>2, <2>3
<1>10. TurnsOK'
  BY <1>7, <1>8, <1>9 DEF TurnsOK
<1>11. QED
  BY <1>3, <1>10

\* A chat is opened or left.
LEMMA OpenTurns ==
  ASSUME FrameOK, TurnInv, NEW p \in Procs, ChatOpen(p) \/ ChatExit(p)
  PROVE  TurnInv'
<1>1. /\ TurnTypes /\ pc \in [Procs -> Points]
      /\ session \in [Procs -> [conv : Nat, count : Nat]]
  BY DEF TurnInv, TurnTypes, FrameOK, ProcTypes
<1>2. UNCHANGED <<convs, turns, answered, failures, raced, text>>
  BY DEF ChatOpen, ChatExit, routerVars, requestVars
<1>3. \E n \in Nat : session' = [session EXCEPT ![p] = [conv |-> n, count |-> 0]]
  <2>1. CASE ChatExit(p)
    BY <2>1 DEF ChatExit, NoSession
  <2>2. CASE ChatOpen(p)
    <3> DEFINE open == {c \in DOMAIN convs : convs[c].alive}
    <3>1. session' = [session EXCEPT ![p] =
                        [conv |-> IF open = {} THEN 0 ELSE Max(open), count |-> 0]]
      BY <2>2 DEF ChatOpen
    <3>2. open \in SUBSET Nat /\ IsFiniteSet(open)
      <4>1. Len(convs) \in Nat /\ DOMAIN convs = 1 .. Len(convs)
        BY <1>1 DEF TurnTypes
      <4>2. open \subseteq 1 .. Len(convs)
        BY <4>1
      <4> HIDE DEF open
      <4>3. IsFiniteSet(1 .. Len(convs))
        BY <4>1, FS_Interval
      <4>4. IsFiniteSet(open)
        BY <4>2, <4>3, FS_Subset
      <4>5. QED
        BY <4>1, <4>2, <4>4
    <3> HIDE DEF open
    <3>3. open # {} => Max(open) \in Nat
      <4> SUFFICES ASSUME open # {} PROVE Max(open) \in Nat
        OBVIOUS
      <4>1. \E m \in open : \A k \in open : k <= m
        BY <3>2, Greatest
      <4>2. \E m \in open : \A k \in open : m >= k
        BY <3>2, <4>1
      <4>3. Max(open) \in open
        BY <4>2 DEF Max
      <4>4. QED
        BY <3>2, <4>3
    <3>4. QED
      BY <3>1, <3>3
  <2>3. QED
    BY <2>1, <2>2
<1>4. session' \in [Procs -> [conv : Nat, count : Nat]]
  BY <1>1, <1>3
<1>5. pc[p] \in {"run", "talk"} /\ pc'[p] \in {"talk", "end"}
  BY <1>1 DEF ChatOpen, ChatExit, At, Goto, End
<1>6. \A q \in Procs \ {p} : pc'[q] = pc[q] /\ session'[q] = session[q]
  BY <1>1, <1>3 DEF ChatOpen, ChatExit, Goto, End
<1>7. \A q \in Procs : q \in Talking \/ q \in Talking' =>
        pc'[q] = pc[q] /\ text'[q] = text[q] /\ session'[q] = session[q]
  BY <1>2, <1>5, <1>6 DEF Talking
<1>8. QED
  BY <1>2, <1>4, <1>7, TurnsQuiet

\* A turn is answered.
LEMMA SayTurns ==
  ASSUME FrameOK, RouteTypes, TurnInv, NEW p \in Procs, ChatSay(p)
  PROVE  TurnInv'
<1>1. /\ TurnTypes /\ TurnsOK /\ pc \in [Procs -> Points] /\ text \in [Procs -> Texts \cup {NoText}]
      /\ answered = Len(turns) + failures + Cardinality(Talking)
  BY DEF TurnInv, FrameOK, ProcTypes, RouteTypes
<1>2. PICK t \in Messages : text' = [text EXCEPT ![p] = t]
  BY DEF ChatSay
<1>3. UNCHANGED <<convs, turns, session, failures, raced>> /\ answered' = answered + 1
  BY DEF ChatSay
<1>4. /\ pc[p] = "talk" /\ pc'[p] = "answered"
      /\ \A q \in Procs \ {p} : pc'[q] = pc[q] /\ text'[q] = text[q]
      /\ text'[p] = t
  BY <1>1, <1>2 DEF ChatSay, Goto
<1>5. TurnTypes' /\ TurnsOK'
  <2>1. answered' \in Nat
    BY <1>1, <1>3 DEF TurnTypes
  <2>2. TurnTypes'
    BY <1>1, <1>3, <2>1 DEF TurnTypes
  <2>3. TurnsOK'
    BY <1>1, <1>3 DEF TurnsOK, TurnsIn
  <2>4. QED
    BY <2>2, <2>3
<1>6. ASSUME NEW q \in Procs
      PROVE  LogOK(q)'
  <2>1. CASE q = p
    BY <1>2, <1>4, <2>1 DEF LogOK
  <2>2. CASE q # p
    BY <1>3, <1>4, <2>2 DEF LogOK, TurnInv
  <2>3. QED
    BY <2>1, <2>2
<1>7. answered' = Len(turns') + failures' + Cardinality(Talking')
  <2>1. p \notin Talking /\ p \in Talking'
    BY <1>4 DEF Talking
  <2>2. /\ Cardinality(Talking') = Cardinality(Talking) + 1 /\ Cardinality(Talking) \in Nat
    BY <1>4, <2>1, TalkingMoves
  <2>3. Len(turns) \in Nat /\ failures \in Nat
    BY <1>1 DEF TurnTypes
  <2>4. QED
    BY <1>1, <1>3, <2>2, <2>3
<1>8. QED
  BY <1>5, <1>6, <1>7 DEF TurnInv

\* The count of a conversation is read.
LEMMA ReadTurns ==
  ASSUME FrameOK, TurnInv, NEW p \in Procs, LogRead(p)
  PROVE  TurnInv'
<1>1. /\ TurnTypes /\ TurnsOK /\ pc \in [Procs -> Points]
      /\ session \in [Procs -> [conv : Nat, count : Nat]]
      /\ answered = Len(turns) + failures + Cardinality(Talking)
  BY DEF TurnInv, TurnTypes, FrameOK, ProcTypes
<1>2. /\ UNCHANGED <<convs, turns, answered, failures, raced, text>>
      /\ session' = [session EXCEPT ![p].count = convs[session[p].conv].count]
      /\ session[p].conv \in DOMAIN convs
  BY DEF LogRead, routerVars, requestVars, Alive
<1>3. /\ pc[p] = "answered" /\ pc'[p] = "logging"
      /\ \A q \in Procs \ {p} : pc'[q] = pc[q] /\ session'[q] = session[q]
  BY <1>1, <1>2 DEF LogRead, Goto
<1>4. convs[session[p].conv].count \in Nat
  <2>1. \A c \in DOMAIN convs : convs[c].count \in Nat
    BY <1>1, RowTypes
  <2>2. QED
    BY <1>2, <2>1
<1>5. /\ session'[p].conv = session[p].conv
      /\ session'[p].count = convs[session[p].conv].count
      /\ session' \in [Procs -> [conv : Nat, count : Nat]]
  BY <1>1, <1>2, <1>4
<1>6. TurnTypes' /\ TurnsOK'
  <2>1. TurnTypes'
    BY <1>1, <1>2, <1>5 DEF TurnTypes
  <2>2. TurnsOK'
    BY <1>1, <1>2 DEF TurnsOK, TurnsIn
  <2>3. QED
    BY <2>1, <2>2
<1>7. ASSUME NEW q \in Procs
      PROVE  LogOK(q)'
  <2>1. CASE q = p
    <3>1. text[p] \in Messages
      BY <1>3 DEF TurnInv, LogOK
    <3>2. QED
      BY <1>2, <1>4, <1>5, <2>1, <3>1 DEF LogOK
  <2>2. CASE q # p
    BY <1>2, <1>3, <2>2 DEF LogOK, TurnInv
  <2>3. QED
    BY <2>1, <2>2
<1>8. Talking' = Talking
  BY <1>3, TalkingMoves DEF Talking
<1>9. QED
  BY <1>1, <1>2, <1>6, <1>7, <1>8 DEF TurnInv

\* Turns that are there stay, and what is observed is of one that was added.
TurnsStay ==
  \A t \in DOMAIN turns :
    t \in DOMAIN turns' /\ (turns[t].alive => turns'[t].alive)

ObservedNow(p) ==
  LET n == Len(turns) + 1
  IN  \/ obs' = obs
      \/ /\ obs' = Extracted(n, text[p]) /\ text[p] \in Messages
         /\ n \in Nat /\ n \in DOMAIN turns' /\ turns'[n].alive

\* A turn begins a conversation.
LEMMA NewTurns ==
  ASSUME FrameOK, TurnInv, NEW p \in Procs, LogNew(p)
  PROVE  TurnInv' /\ TurnsStay /\ ObservedNow(p)
<1> DEFINE Conv == [alive : BOOLEAN, count : Nat, old : BOOLEAN]
           c == Len(convs) + 1
<1>1. /\ TurnTypes /\ TurnsOK /\ pc \in [Procs -> Points] /\ LogOK(p)
      /\ session \in [Procs -> [conv : Nat, count : Nat]]
      /\ answered = Len(turns) + failures + Cardinality(Talking)
  BY DEF TurnInv, TurnTypes, FrameOK, ProcTypes
<1>2. /\ convs' = Append(convs, [alive |-> TRUE, count |-> 1, old |-> FALSE])
      /\ session' = [session EXCEPT ![p] = [conv |-> c, count |-> 0]]
      /\ turns' = Append(turns, [conv |-> c, index |-> 0, alive |-> TRUE, old |-> FALSE])
      /\ obs' = Extracted(Len(turns) + 1, text[p])
      /\ UNCHANGED <<answered, failures, raced, text>>
  BY DEF LogNew, Logged, routerVars, requestVars
<1>3. /\ pc[p] = "answered" /\ pc'[p] = "talk"
      /\ \A q \in Procs \ {p} : pc'[q] = pc[q] /\ session'[q] = session[q]
  BY <1>1, <1>2 DEF LogNew, Goto
<1>4. /\ convs' \in Seq(Conv) /\ Len(convs) \in Nat /\ DOMAIN convs = 1 .. Len(convs)
      /\ DOMAIN convs' = 1 .. c
      /\ \A d \in 1 .. Len(convs) : convs'[d] = convs[d]
      /\ convs'[c] = [alive |-> TRUE, count |-> 1, old |-> FALSE]
  <2>1. [alive |-> TRUE, count |-> 1, old |-> FALSE] \in Conv /\ convs \in Seq(Conv)
    BY <1>1 DEF TurnTypes
  <2> HIDE DEF Conv
  <2>2. QED
    BY <1>2, <2>1, OneMore
<1>5. /\ c \in Nat /\ c \in DOMAIN convs' /\ c \notin DOMAIN convs
      /\ convs'[c].alive /\ convs'[c].count = 1
      /\ \A d \in DOMAIN convs : d \in DOMAIN convs' /\ convs'[d] = convs[d] /\ d # c
      /\ \A d \in DOMAIN convs' \ DOMAIN convs : d = c
  BY <1>4
<1>6. /\ turns' \in Seq([conv : Nat, index : Nat, alive : BOOLEAN, old : BOOLEAN])
      /\ TurnsOK' /\ Len(turns') = Len(turns) + 1 /\ Len(turns) \in Nat
      /\ DOMAIN turns \subseteq DOMAIN turns' /\ turns'[Len(turns) + 1].alive
      /\ Len(turns) + 1 \in DOMAIN turns'
      /\ \A t \in DOMAIN turns : turns'[t] = turns[t]
  <2>1. \A t \in DOMAIN turns : turns[t].conv # c
    BY <1>1, <1>5 DEF TurnsOK
  <2>2. 0 \in Nat /\ 0 < convs'[c].count /\ raced \subseteq raced'
    BY <1>2, <1>5
  <2>3. \A d \in DOMAIN convs :
          /\ d \in DOMAIN convs' /\ convs'[d].alive = convs[d].alive
          /\ convs'[d].count = IF d = c THEN convs[d].count + 1 ELSE convs[d].count
    <3> HIDE DEF c
    <3>1. QED
      BY <1>5
  <2>4. \A d \in DOMAIN convs' \ DOMAIN convs : d = c /\ convs'[d].count = 1
    <3> HIDE DEF c
    <3>1. QED
      BY <1>5
  <2>5. convs' \in Seq([alive : BOOLEAN, count : Nat, old : BOOLEAN])
    BY <1>4
  <2> HIDE DEF c
  <2>6. \A t \in DOMAIN turns : turns[t].conv = c /\ turns[t].index = 0 =>
          <<"conversation", c>> \in raced
    BY <2>1
  <2>7. QED
    BY <1>1, <1>2, <1>5, <2>2, <2>3, <2>4, <2>5, <2>6, TurnAdded
<1>7. session' \in [Procs -> [conv : Nat, count : Nat]]
  BY <1>1, <1>2, <1>5
<1>8. TurnTypes'
  BY <1>1, <1>2, <1>4, <1>6, <1>7 DEF TurnTypes
<1>9. ASSUME NEW q \in Procs
      PROVE  LogOK(q)'
  <2>1. CASE q = p
    BY <1>3, <2>1 DEF LogOK
  <2>2. CASE q # p
    BY <1>2, <1>3, <1>5, <2>2 DEF LogOK, TurnInv
  <2>3. QED
    BY <2>1, <2>2
<1>10. answered' = Len(turns') + failures' + Cardinality(Talking')
  <2>1. p \in Talking /\ p \notin Talking'
    BY <1>3 DEF Talking
  <2>2. /\ Cardinality(Talking) = Cardinality(Talking') + 1 /\ Cardinality(Talking') \in Nat
    BY <1>3, <2>1, TalkingMoves
  <2>3. failures \in Nat
    BY <1>1 DEF TurnTypes
  <2>4. QED
    BY <1>1, <1>2, <1>6, <2>2, <2>3
<1>11. TurnsStay /\ ObservedNow(p)
  <2>1. text[p] \in Messages
    BY <1>1, <1>3 DEF LogOK
  <2>2. Len(turns) + 1 \in Nat
    BY <1>6
  <2>3. QED
    BY <1>2, <1>6, <2>1, <2>2 DEF TurnsStay, ObservedNow
<1>12. QED
  BY <1>6, <1>8, <1>9, <1>10, <1>11 DEF TurnInv

\* A turn goes into a conversation, or is a failure.
LEMMA WriteTurns ==
  ASSUME FrameOK, TurnInv, NEW p \in Procs, LogWrite(p)
  PROVE  TurnInv' /\ TurnsStay /\ ObservedNow(p)
<1> DEFINE Conv == [alive : BOOLEAN, count : Nat, old : BOOLEAN]
           c == session[p].conv
<1>1. /\ TurnTypes /\ TurnsOK /\ pc \in [Procs -> Points] /\ LogOK(p)
      /\ session \in [Procs -> [conv : Nat, count : Nat]]
      /\ answered = Len(turns) + failures + Cardinality(Talking)
  BY DEF TurnInv, TurnTypes, FrameOK, ProcTypes
<1>2. UNCHANGED <<answered, text, session>>
  BY DEF LogWrite, routerVars, requestVars
<1>3. /\ pc[p] = "logging" /\ pc'[p] = "talk"
      /\ \A q \in Procs \ {p} : pc'[q] = pc[q]
  BY <1>1 DEF LogWrite, Goto
<1>4. /\ c \in DOMAIN convs /\ session[p].count <= convs[c].count
      /\ session[p].count # convs[c].count => <<"conversation", c>> \in raced
      /\ text[p] \in Messages
  BY <1>1, <1>3 DEF LogOK
<1>5. /\ \A d \in DOMAIN convs : convs[d] \in Conv /\ convs[d].count \in Nat
      /\ \A t \in DOMAIN turns : turns[t].index \in Nat
      /\ Len(turns) \in Nat /\ session[p].count \in Nat /\ failures \in Nat
  <2>1. session[p].count \in Nat /\ failures \in Nat
    BY <1>1 DEF TurnTypes
  <2> HIDE DEF Conv
  <2>2. /\ \A d \in DOMAIN convs : convs[d] \in Conv /\ convs[d].count \in Nat
        /\ \A t \in DOMAIN turns : turns[t].index \in Nat
        /\ Len(turns) \in Nat
    BY <1>1, RowTypes DEF Conv
  <2>3. QED
    BY <2>1, <2>2
<1>6. /\ p \in Talking /\ p \notin Talking'
      /\ Cardinality(Talking) = Cardinality(Talking') + 1 /\ Cardinality(Talking') \in Nat
  <2>1. p \in Talking /\ p \notin Talking'
    BY <1>3 DEF Talking
  <2>2. QED
    BY <1>3, <2>1, TalkingMoves
<1>7. CASE ~Alive(c)
  <2>1. failures' = failures + 1 /\ UNCHANGED <<convs, turns, obs, raced>>
    BY <1>7 DEF LogWrite
  <2>2. TurnTypes' /\ TurnsOK'
    <3>1. failures' \in Nat
      BY <1>5, <2>1
    <3>2. TurnTypes'
      BY <1>1, <1>2, <2>1, <3>1 DEF TurnTypes
    <3>3. TurnsOK'
      BY <1>1, <2>1 DEF TurnsOK, TurnsIn
    <3>4. QED
      BY <3>2, <3>3
  <2>3. \A q \in Procs : LogOK(q)'
    BY <1>2, <1>3, <2>1 DEF LogOK, TurnInv
  <2>4. answered' = Len(turns') + failures' + Cardinality(Talking')
    BY <1>1, <1>2, <1>5, <1>6, <2>1
  <2>5. QED
    BY <2>1, <2>2, <2>3, <2>4 DEF TurnInv, TurnsStay, ObservedNow
<1>8. CASE Alive(c)
  <2> DEFINE k == session[p].count
  <2>1. /\ convs' = [convs EXCEPT ![c].count = @ + 1]
        /\ turns' = Append(turns, [conv |-> c, index |-> k, alive |-> TRUE, old |-> FALSE])
        /\ obs' = Extracted(Len(turns) + 1, text[p])
        /\ raced' = IF \E q \in Procs \ {p} : pc[q] = "logging" /\ session[q].conv = c
                    THEN raced \cup {<<"conversation", c>>} ELSE raced
        /\ UNCHANGED failures
    BY <1>8 DEF LogWrite, Logged
  <2>2. /\ convs' \in Seq(Conv) /\ DOMAIN convs' = DOMAIN convs
        /\ \A d \in DOMAIN convs :
             /\ convs'[d].alive = convs[d].alive
             /\ convs'[d].count = IF d = c THEN convs[d].count + 1 ELSE convs[d].count
    <3>1. [convs[c] EXCEPT !.count = @ + 1] \in Conv
      BY <1>4, <1>5
    <3>2. convs \in Seq(Conv) /\ convs' = [convs EXCEPT ![c] = [convs[c] EXCEPT !.count = @ + 1]]
      BY <1>1, <2>1 DEF TurnTypes
    <3>3. convs' \in Seq(Conv) /\ DOMAIN convs' = DOMAIN convs
      <4> HIDE DEF Conv, c
      <4>1. QED
        BY <1>4, <3>1, <3>2
    <3>4. \A d \in DOMAIN convs :
            convs'[d] = IF d = c THEN [convs[d] EXCEPT !.count = @ + 1] ELSE convs[d]
      BY <3>2
    <3>5. ASSUME NEW d \in DOMAIN convs
          PROVE  /\ convs'[d].alive = convs[d].alive
                 /\ convs'[d].count = IF d = c THEN convs[d].count + 1 ELSE convs[d].count
      BY <1>5, <3>4, <3>5
    <3>6. QED
      BY <3>3, <3>5
  <2>3. raced \subseteq raced'
    BY <2>1
  <2>4. convs'[c].alive /\ k < convs'[c].count /\ k \in Nat
    <3>1. convs[c].alive
      BY <1>8 DEF Alive
    <3>2. convs'[c].alive /\ convs'[c].count = convs[c].count + 1
      BY <1>4, <2>2, <3>1
    <3>3. k \in Nat /\ convs[c].count \in Nat /\ k <= convs[c].count
      BY <1>4, <1>5
    <3>4. QED
      BY <3>2, <3>3
  <2>5. ASSUME NEW t \in DOMAIN turns, turns[t].conv = c, turns[t].index = k
        PROVE  <<"conversation", c>> \in raced
    <3>1. turns[t].index < convs[c].count
      BY <1>1, <2>5 DEF TurnsOK
    <3>2. convs[c].count \in Nat /\ k \in Nat
      BY <1>4, <1>5
    <3>3. k # convs[c].count
      BY <2>5, <3>1, <3>2
    <3>4. QED
      BY <1>4, <3>3
  <2>6. /\ turns' \in Seq([conv : Nat, index : Nat, alive : BOOLEAN, old : BOOLEAN])
        /\ TurnsOK' /\ Len(turns') = Len(turns) + 1 /\ Len(turns) \in Nat
        /\ DOMAIN turns \subseteq DOMAIN turns' /\ turns'[Len(turns) + 1].alive
        /\ Len(turns) + 1 \in DOMAIN turns'
        /\ \A t \in DOMAIN turns : turns'[t] = turns[t]
    <3> HIDE DEF c, k
    <3>1. /\ c \in DOMAIN convs'
          /\ \A d \in DOMAIN convs' \ DOMAIN convs : d = c /\ convs'[d].count = 1
      BY <1>4, <2>2
    <3>2. QED
      BY <1>1, <2>1, <2>2, <2>3, <2>4, <2>5, <3>1, TurnAdded
  <2>7. TurnTypes'
    BY <1>1, <1>2, <2>1, <2>2, <2>6 DEF TurnTypes
  <2>8. ASSUME NEW q \in Procs
        PROVE  LogOK(q)'
    <3>1. CASE q = p
      BY <1>3, <3>1 DEF LogOK
    <3>2. CASE q # p /\ pc[q] # "logging"
      BY <1>2, <1>3, <3>2 DEF LogOK, TurnInv
    <3>3. CASE q # p /\ pc[q] = "logging"
      <4> DEFINE d == session[q].conv
      <4>1. /\ d \in DOMAIN convs /\ session[q].count <= convs[d].count
            /\ session[q].count # convs[d].count => <<"conversation", d>> \in raced
            /\ text[q] \in Messages
        BY <3>3 DEF TurnInv, LogOK
      <4>2. session[q].count \in Nat /\ convs[d].count \in Nat
        <5>1. session[q].count \in Nat
          BY <1>1
        <5>2. QED
          BY <1>5, <4>1, <5>1
      <4>3. convs'[d].count = IF d = c THEN convs[d].count + 1 ELSE convs[d].count
        BY <2>2, <4>1
      <4>4. session[q].count <= convs'[d].count
        BY <4>1, <4>2, <4>3
      <4>5. d = c => <<"conversation", d>> \in raced'
        BY <2>1, <3>3
      <4>6. session[q].count # convs'[d].count => <<"conversation", d>> \in raced'
        BY <2>3, <4>1, <4>3, <4>5
      <4>7. pc'[q] = pc[q] /\ text'[q] = text[q] /\ session'[q] = session[q]
            /\ d \in DOMAIN convs'
        BY <1>2, <1>3, <2>2, <3>3, <4>1
      <4>8. QED
        BY <4>1, <4>4, <4>6, <4>7 DEF LogOK
    <3>4. QED
      BY <3>1, <3>2, <3>3
  <2>9. answered' = Len(turns') + failures' + Cardinality(Talking')
    BY <1>1, <1>2, <1>5, <1>6, <2>1, <2>6
  <2>10. TurnsStay /\ ObservedNow(p)
    <3>1. Len(turns) + 1 \in Nat
      BY <1>5
    <3>2. QED
      BY <1>4, <2>1, <2>6, <3>1 DEF TurnsStay, ObservedNow
  <2>11. QED
    BY <2>6, <2>7, <2>8, <2>9, <2>10 DEF TurnInv
<1>9. QED
  BY <1>7, <1>8

\* Marks on the rows that are there.
LEMMA MarkedTurns ==
  ASSUME TurnInv, UNCHANGED <<answered, failures, session, raced>>,
         convs' \in [DOMAIN convs -> [alive : BOOLEAN, count : Nat, old : BOOLEAN]],
         turns' \in [DOMAIN turns ->
                      [conv : Nat, index : Nat, alive : BOOLEAN, old : BOOLEAN]],
         \A c \in DOMAIN convs : convs'[c].count = convs[c].count,
         \A t \in DOMAIN turns : /\ turns'[t].conv = turns[t].conv
                                 /\ turns'[t].index = turns[t].index
                                 /\ turns'[t].alive => convs'[turns[t].conv].alive,
         \A q \in Procs : q \in Talking \/ q \in Talking' =>
           pc'[q] = pc[q] /\ text'[q] = text[q]
  PROVE  TurnInv' /\ DOMAIN turns' = DOMAIN turns
<1> DEFINE Conv == [alive : BOOLEAN, count : Nat, old : BOOLEAN]
           Turn == [conv : Nat, index : Nat, alive : BOOLEAN, old : BOOLEAN]
<1>1. TurnTypes /\ TurnsOK /\ answered = Len(turns) + failures + Cardinality(Talking)
  BY DEF TurnInv
<1>2. /\ Len(convs) \in Nat /\ DOMAIN convs = 1 .. Len(convs)
      /\ Len(turns) \in Nat /\ DOMAIN turns = 1 .. Len(turns)
  BY <1>1, RowTypes
<1>3. /\ convs' \in Seq(Conv) /\ turns' \in Seq(Turn) /\ Len(turns') = Len(turns)
      /\ DOMAIN convs' = DOMAIN convs /\ DOMAIN turns' = DOMAIN turns
  <2>1. convs' \in [1 .. Len(convs) -> Conv] /\ turns' \in [1 .. Len(turns) -> Turn]
    BY <1>2
  <2> HIDE DEF Conv, Turn
  <2>2. QED
    BY <1>2, <2>1
<1>4. TurnTypes'
  BY <1>1, <1>3 DEF TurnTypes
<1>5. \A c : TurnsIn(c)' = TurnsIn(c)
  BY <1>3 DEF TurnsIn
<1>6. TurnsOK'
  <2>1. ASSUME NEW t \in DOMAIN turns'
        PROVE  /\ turns'[t].conv \in DOMAIN convs'
               /\ turns'[t].index < convs'[turns'[t].conv].count
               /\ turns'[t].alive => convs'[turns'[t].conv].alive
    <3>1. t \in DOMAIN turns /\ turns[t].conv \in DOMAIN convs
          /\ turns[t].index < convs[turns[t].conv].count
      BY <1>1, <1>3, <2>1 DEF TurnsOK
    <3>2. QED
      BY <1>3, <3>1
  <2>2. \A c \in DOMAIN convs' : convs'[c].count = Cardinality(TurnsIn(c)')
    BY <1>1, <1>3, <1>5 DEF TurnsOK
  <2>3. \A t, u \in DOMAIN turns' :
          t < u /\ turns'[t].conv = turns'[u].conv /\ turns'[t].index = turns'[u].index
            => <<"conversation", turns'[t].conv>> \in raced'
    BY <1>1, <1>3 DEF TurnsOK
  <2>4. QED
    BY <2>1, <2>2, <2>3 DEF TurnsOK
<1>7. ASSUME NEW q \in Procs
      PROVE  LogOK(q)'
  BY <1>3 DEF LogOK, TurnInv, Talking
<1>8. Talking' = Talking
  BY DEF Talking
<1>9. QED
  BY <1>1, <1>3, <1>4, <1>6, <1>7, <1>8 DEF TurnInv

\* What has passed the retention goes.
LEMMA PurgeTurns ==
  ASSUME FrameOK, TurnInv, NEW p \in Procs, Purge(p)
  PROVE  /\ TurnInv' /\ DOMAIN turns' = DOMAIN turns
         /\ \A o \in obs' : o \in obs
                            /\ (o.turn # 0 => o.turn \in DOMAIN turns /\ turns'[o.turn].alive)
<1> DEFINE kept == {t \in DOMAIN turns : turns[t].alive /\ ~turns[t].old}
<1>1. /\ TurnTypes /\ TurnsOK /\ pc \in [Procs -> Points]
  BY DEF TurnInv, FrameOK, ProcTypes
<1>2. /\ turns' = [t \in DOMAIN turns |-> [turns[t] EXCEPT !.alive = t \in kept]]
      /\ obs' = {o \in obs : o.turn \in kept \cup {0}}
      /\ convs' = [c \in DOMAIN convs |->
                    [convs[c] EXCEPT !.alive =
                       @ /\ (convs[c].old => \E t \in kept : turns[t].conv = c)]]
      /\ UNCHANGED <<answered, failures, session, raced, text>>
  BY DEF Purge, routerVars, requestVars
<1>3. \A c \in DOMAIN convs : /\ convs[c] \in [alive : BOOLEAN, count : Nat, old : BOOLEAN]
                              /\ convs[c].alive \in BOOLEAN
  BY <1>1, RowTypes
<1>4. \A t \in DOMAIN turns :
        turns[t] \in [conv : Nat, index : Nat, alive : BOOLEAN, old : BOOLEAN]
  BY <1>1, RowTypes
<1>5. ASSUME NEW t \in DOMAIN turns
      PROVE  /\ turns'[t] \in [conv : Nat, index : Nat, alive : BOOLEAN, old : BOOLEAN]
             /\ turns'[t].conv = turns[t].conv /\ turns'[t].index = turns[t].index
             /\ turns'[t].alive <=> t \in kept
  <2>1. turns[t] \in [conv : Nat, index : Nat, alive : BOOLEAN, old : BOOLEAN]
    BY <1>4, <1>5
  <2>2. turns'[t] = [turns[t] EXCEPT !.alive = t \in kept] /\ (t \in kept) \in BOOLEAN
    BY <1>2, <1>5
  <2> HIDE DEF kept
  <2>3. QED
    BY <2>1, <2>2
<1>6. ASSUME NEW c \in DOMAIN convs
      PROVE  /\ convs'[c] \in [alive : BOOLEAN, count : Nat, old : BOOLEAN]
             /\ convs'[c].count = convs[c].count
             /\ convs[c].alive /\ (\E t \in kept : turns[t].conv = c) => convs'[c].alive
  <2>1. convs[c] \in [alive : BOOLEAN, count : Nat, old : BOOLEAN]
    BY <1>3, <1>6
  <2>2. PICK b \in BOOLEAN :
          /\ convs'[c] = [convs[c] EXCEPT !.alive = b]
          /\ b <=> convs[c].alive /\ (convs[c].old => \E t \in kept : turns[t].conv = c)
    <3> HIDE DEF kept
    <3>1. QED
      BY <1>2, <1>6
  <2> HIDE DEF kept
  <2>3. QED
    BY <2>1, <2>2
<1>7. /\ convs' \in [DOMAIN convs -> [alive : BOOLEAN, count : Nat, old : BOOLEAN]]
      /\ turns' \in [DOMAIN turns ->
                      [conv : Nat, index : Nat, alive : BOOLEAN, old : BOOLEAN]]
  <2> DEFINE Conv == [alive : BOOLEAN, count : Nat, old : BOOLEAN]
             Turn == [conv : Nat, index : Nat, alive : BOOLEAN, old : BOOLEAN]
  <2>1. /\ \A c \in DOMAIN convs : convs'[c] \in Conv
        /\ \A t \in DOMAIN turns : turns'[t] \in Turn
    BY <1>5, <1>6
  <2>2. /\ convs' = [c \in DOMAIN convs |-> convs'[c]]
        /\ turns' = [t \in DOMAIN turns |-> turns'[t]]
    BY <1>2
  <2> HIDE DEF Conv, Turn
  <2>3. convs' \in [DOMAIN convs -> Conv] /\ turns' \in [DOMAIN turns -> Turn]
    BY <2>1, <2>2
  <2>4. QED
    BY <2>3 DEF Conv, Turn
<1>8. ASSUME NEW t \in DOMAIN turns, turns'[t].alive
      PROVE  convs'[turns[t].conv].alive
  <2>1. t \in kept /\ turns[t].conv \in DOMAIN convs /\ convs[turns[t].conv].alive
    BY <1>1, <1>5, <1>8 DEF TurnsOK
  <2> HIDE DEF kept
  <2>2. QED
    BY <1>6, <2>1
<1>9. /\ pc[p] = "run" /\ pc'[p] = "end"
      /\ \A q \in Procs \ {p} : pc'[q] = pc[q]
  BY <1>1 DEF Purge, At, End
<1>10. TurnInv' /\ DOMAIN turns' = DOMAIN turns
  <2>1. \A q \in Procs : q \in Talking \/ q \in Talking' =>
          pc'[q] = pc[q] /\ text'[q] = text[q]
    BY <1>2, <1>9 DEF Talking
  <2>2. \A c \in DOMAIN convs : convs'[c].count = convs[c].count
    BY <1>6
  <2>3. \A t \in DOMAIN turns : /\ turns'[t].conv = turns[t].conv
                                /\ turns'[t].index = turns[t].index
                                /\ turns'[t].alive => convs'[turns[t].conv].alive
    BY <1>5, <1>8
  <2>4. QED
    BY <1>2, <1>7, <2>1, <2>2, <2>3, MarkedTurns
<1>11. ASSUME NEW o \in obs', o.turn # 0
       PROVE  o.turn \in DOMAIN turns /\ turns'[o.turn].alive
  <2>1. o.turn \in kept
    BY <1>2, <1>11
  <2>2. o.turn \in DOMAIN turns
    BY <2>1
  <2>3. QED
    BY <1>5, <2>1, <2>2
<1>12. QED
  BY <1>2, <1>10, <1>11

\* Time passes.
LEMMA AgeTurns ==
  ASSUME TurnInv, MemoryAges
  PROVE  TurnInv' /\ TurnsStay
<1> DEFINE Conv == [alive : BOOLEAN, count : Nat, old : BOOLEAN]
           Turn == [conv : Nat, index : Nat, alive : BOOLEAN, old : BOOLEAN]
<1>1. TurnTypes /\ TurnsOK
  BY DEF TurnInv
<1>2. /\ turns' = [t \in DOMAIN turns |-> [turns[t] EXCEPT !.old = TRUE]]
      /\ convs' = [c \in DOMAIN convs |-> [convs[c] EXCEPT !.old = TRUE]]
      /\ UNCHANGED <<answered, failures, session, raced, text, pc>>
  BY DEF MemoryAges, routerVars, requestVars, procVars
<1>3. /\ \A c \in DOMAIN convs : convs[c] \in Conv
      /\ \A t \in DOMAIN turns : turns[t] \in Turn
  BY <1>1, RowTypes
<1>4. ASSUME NEW c \in DOMAIN convs
      PROVE  /\ convs'[c] \in Conv /\ convs'[c].count = convs[c].count
             /\ convs'[c].alive = convs[c].alive
  <2>1. convs[c] \in Conv /\ convs'[c] = [convs[c] EXCEPT !.old = TRUE]
    BY <1>2, <1>3, <1>4
  <2>2. QED
    BY <2>1
<1>5. ASSUME NEW t \in DOMAIN turns
      PROVE  /\ turns'[t] \in Turn /\ turns'[t].conv = turns[t].conv
             /\ turns'[t].index = turns[t].index /\ turns'[t].alive = turns[t].alive
  <2>1. turns[t] \in Turn /\ turns'[t] = [turns[t] EXCEPT !.old = TRUE]
    BY <1>2, <1>3, <1>5
  <2>2. QED
    BY <2>1
<1>6. convs' \in [DOMAIN convs -> Conv] /\ turns' \in [DOMAIN turns -> Turn]
  <2>1. /\ convs' = [c \in DOMAIN convs |-> convs'[c]]
        /\ turns' = [t \in DOMAIN turns |-> turns'[t]]
    BY <1>2
  <2> HIDE DEF Conv, Turn
  <2>2. QED
    BY <1>4, <1>5, <2>1
<1>7. \A t \in DOMAIN turns : turns[t].alive => convs[turns[t].conv].alive
                              /\ turns[t].conv \in DOMAIN convs
  BY <1>1 DEF TurnsOK
<1>8. TurnInv' /\ DOMAIN turns' = DOMAIN turns
  <2>1. \A q \in Procs : q \in Talking \/ q \in Talking' =>
          pc'[q] = pc[q] /\ text'[q] = text[q]
    BY <1>2
  <2>2. \A c \in DOMAIN convs : convs'[c].count = convs[c].count
    BY <1>4
  <2>3. \A t \in DOMAIN turns : /\ turns'[t].conv = turns[t].conv
                                /\ turns'[t].index = turns[t].index
                                /\ turns'[t].alive => convs'[turns[t].conv].alive
    BY <1>4, <1>5, <1>7
  <2>4. QED
    BY <1>2, <1>6, <2>1, <2>2, <2>3, MarkedTurns
<1>9. QED
  BY <1>5, <1>8 DEF TurnsStay

\* A turn that dies with its process was not answered.
LEMMA KillTurns ==
  ASSUME FrameOK, RouteTypes, TurnInv, NEW p \in Procs, Kill(p), MemoryKill(p),
         RequestOver(p)
  PROVE  TurnInv'
<1>1. /\ TurnTypes /\ TurnsOK /\ pc \in [Procs -> Points]
      /\ text \in [Procs -> Texts \cup {NoText}]
      /\ session \in [Procs -> [conv : Nat, count : Nat]]
      /\ answered = Len(turns) + failures + Cardinality(Talking)
  BY DEF TurnInv, TurnTypes, FrameOK, ProcTypes, RouteTypes
<1>2. /\ UNCHANGED <<convs, turns, failures, raced>>
      /\ session' = [session EXCEPT ![p] = NoSession]
      /\ answered' = IF p \in Talking THEN answered - 1 ELSE answered
  BY DEF MemoryKill, Talking
<1>3. /\ pc'[p] = "idle"
      /\ \A q \in Procs \ {p} : /\ pc'[q] = pc[q] /\ text'[q] = text[q]
                                /\ session'[q] = session[q]
  BY <1>1, <1>2 DEF Kill, Leave, RequestOver
<1>4. p \notin Talking'
  BY <1>3 DEF Talking
<1>5. /\ Len(turns) \in Nat /\ failures \in Nat /\ answered \in Nat
  BY <1>1, RowTypes DEF TurnTypes
<1>6. /\ Cardinality(Talking') \in Nat
      /\ p \in Talking => Cardinality(Talking) = Cardinality(Talking') + 1
      /\ p \notin Talking => Talking' = Talking
  BY <1>3, <1>4, TalkingMoves
<1>7. answered' \in Nat /\ answered' = Len(turns) + failures + Cardinality(Talking')
  BY <1>1, <1>2, <1>5, <1>6
<1>8. session' \in [Procs -> [conv : Nat, count : Nat]]
  BY <1>1, <1>2 DEF NoSession
<1>9. TurnTypes' /\ TurnsOK'
  <2>1. TurnTypes'
    BY <1>1, <1>2, <1>7, <1>8 DEF TurnTypes
  <2>2. TurnsOK'
    BY <1>1, <1>2 DEF TurnsOK, TurnsIn
  <2>3. QED
    BY <2>1, <2>2
<1>10. ASSUME NEW q \in Procs
       PROVE  LogOK(q)'
  <2>1. CASE q = p
    BY <1>3, <2>1 DEF LogOK
  <2>2. CASE q # p
    BY <1>2, <1>3, <2>2 DEF LogOK, TurnInv
  <2>3. QED
    BY <2>1, <2>2
<1>11. QED
  BY <1>2, <1>7, <1>9, <1>10 DEF TurnInv

\* Points inside the commands on conversations and advice.
MemPoints == ChatPoints \cup ReflectPoints \cup {"decide"}

\* Other commands are elsewhere.
LEMMA OtherPoints ==
  ASSUME FrameOK, NEW p \in Procs, TraceSteps(p) \/ RouterSteps(p) \/ Finish(p)
  PROVE  pc[p] \notin MemPoints /\ pc'[p] \notin MemPoints
<1> USE DEF MemPoints, ChatPoints, ReflectPoints, Goto, End, At
<1>1. pc \in [Procs -> Points]
  BY DEF FrameOK, ProcTypes
<1>2. CASE TraceSteps(p)
  BY <1>1, <1>2 DEF TraceSteps, Begin, Link, CleanupSelect, CleanupCommit, Judge
<1>3. CASE DoAsk(p) \/ DoDecline(p) \/ DoConfigure(p) \/ DoConfigureFails(p)
           \/ DoRoute(p) \/ DoLook(p)
  BY <1>1, <1>3 DEF DoAsk, DoDecline, DoConfigure, DoConfigureFails, DoRoute, DoLook
<1>4. CASE DoAct(p) \/ DoStart(p) \/ DoStartCut(p) \/ DoRecord(p) \/ DoFails(p)
  BY <1>1, <1>4 DEF DoAct, DoStart, DoStartCut, DoRecord, DoFails
<1>5. CASE Feedback(p) \/ Rule(p)
  BY <1>1, <1>5 DEF Feedback, Rule
<1>6. CASE Finish(p)
  BY <1>1, <1>6 DEF Finish, Leave
<1>7. QED
  BY <1>2, <1>3, <1>4, <1>5, <1>6 DEF RouterSteps, DoSteps

\* Which steps work on the memory.
LEMMA MemoryFrame ==
  ASSUME FrameOK, IdsOK, RouteTypes, [Next]_vars
  PROVE  \/ \E p \in Procs : MemorySteps(p)
         \/ \E p \in Procs : Kill(p) /\ MemoryKill(p) /\ RequestOver(p)
         \/ MemoryAges
         \/ /\ UNCHANGED memoryVars
            /\ \A q \in Procs : pc[q] \in MemPoints \/ pc'[q] \in MemPoints =>
                 pc'[q] = pc[q] /\ text'[q] = text[q]
<1>1. ASSUME NEW p \in Procs, UNCHANGED memoryVars,
             \/ TraceSteps(p) /\ UNCHANGED routerVars
             \/ RouterSteps(p)
             \/ Finish(p) /\ RequestOver(p)
      PROVE  \A q \in Procs : pc[q] \in MemPoints \/ pc'[q] \in MemPoints =>
               pc'[q] = pc[q] /\ text'[q] = text[q]
  <2>1. pc[p] \notin MemPoints /\ pc'[p] \notin MemPoints
    BY <1>1, OtherPoints
  <2>2. Steps(p)
    BY <1>1 DEF Steps
  <2>3. ASSUME NEW q \in Procs \ {p}
        PROVE  pc'[q] = pc[q] /\ text'[q] = text[q]
    <3>1. pc'[q] = pc[q]
      BY <2>2, OwnStep
    <3>2. CASE UNCHANGED routerVars
      BY <3>1, <3>2 DEF routerVars, requestVars
    <3>3. CASE RouterSteps(p) \/ RequestOver(p)
      BY <3>1, <3>3, OwnRequest
    <3>4. QED
      BY <1>1, <3>2, <3>3
  <2>4. QED
    BY <2>1, <2>3
<1>2. CASE UNCHANGED vars
  BY <1>2 DEF vars, procVars, routerVars, requestVars
<1>3. CASE Age /\ UNCHANGED <<routerVars, memoryVars>>
  BY <1>3 DEF Age, procVars, routerVars, requestVars
<1>4. ASSUME NEW p \in Procs, RequestOver(p),
             (Finish(p) /\ UNCHANGED memoryVars) \/ (Kill(p) /\ MemoryKill(p))
      PROVE  \/ Kill(p) /\ MemoryKill(p) /\ RequestOver(p)
             \/ /\ UNCHANGED memoryVars
                /\ \A q \in Procs : pc[q] \in MemPoints \/ pc'[q] \in MemPoints =>
                     pc'[q] = pc[q] /\ text'[q] = text[q]
  BY <1>1, <1>4
<1>5. ASSUME NEW p \in Procs, TraceSteps(p), UNCHANGED <<routerVars, memoryVars>>
      PROVE  /\ UNCHANGED memoryVars
             /\ \A q \in Procs : pc[q] \in MemPoints \/ pc'[q] \in MemPoints =>
                  pc'[q] = pc[q] /\ text'[q] = text[q]
  BY <1>1, <1>5
<1>6. ASSUME NEW p \in Procs, RouterSteps(p), UNCHANGED memoryVars
      PROVE  \A q \in Procs : pc[q] \in MemPoints \/ pc'[q] \in MemPoints =>
               pc'[q] = pc[q] /\ text'[q] = text[q]
  BY <1>1, <1>6
<1>7. QED
  BY <1>2, <1>3, <1>4, <1>5, <1>6 DEF Next

\* Reflection and decisions leave the conversations alone.
LEMMA ThoughtTurns ==
  ASSUME FrameOK, NEW p \in Procs,
         \/ ReflectRead(p) \/ ReflectWrite(p) \/ ReflectScan(p) \/ ReflectClose(p)
         \/ ReflectSuggest(p) \/ Hygiene(p) \/ DecideRead(p) \/ DecideWrite(p)
  PROVE  /\ UNCHANGED <<convs, turns, session, answered, failures, text>>
         /\ raced \subseteq raced'
         /\ \A q \in Procs \ {p} : pc'[q] = pc[q]
         /\ pc[p] \notin ChatPoints /\ pc'[p] \notin ChatPoints
<1> USE DEF ChatPoints, ReflectPoints, Goto, End, At, routerVars, requestVars
<1>1. pc \in [Procs -> Points]
  BY DEF FrameOK, ProcTypes
<1>2. CASE ReflectRead(p) \/ ReflectScan(p) \/ Hygiene(p) \/ DecideWrite(p)
  BY <1>1, <1>2 DEF ReflectRead, ReflectScan, Hygiene, DecideWrite
<1>3. CASE ReflectWrite(p) \/ ReflectClose(p) \/ ReflectSuggest(p)
  <2>1. \A titles : raced \subseteq Clash(p, titles)
    BY DEF Clash
  <2>2. QED
    BY <1>1, <1>3, <2>1 DEF ReflectWrite, ReflectClose, ReflectSuggest
<1>4. CASE DecideRead(p)
  BY <1>1, <1>4 DEF DecideRead
<1>5. QED
  BY <1>2, <1>3, <1>4

\* Conversations are accounted for in every step.
LEMMA TurnStep ==
  ASSUME FrameOK, IdsOK, RouteTypes, TurnInv, [Next]_vars
  PROVE  TurnInv'
<1>1. ASSUME NEW p \in Procs, MemorySteps(p)
      PROVE  TurnInv'
  <2>1. CASE ChatOpen(p) \/ ChatExit(p)
    BY <2>1, OpenTurns
  <2>2. CASE ChatSay(p)
    BY <2>2, SayTurns
  <2>3. CASE LogRead(p)
    BY <2>3, ReadTurns
  <2>4. CASE LogNew(p)
    BY <2>4, NewTurns
  <2>5. CASE LogWrite(p)
    BY <2>5, WriteTurns
  <2>6. CASE Purge(p)
    BY <2>6, PurgeTurns
  <2>7. CASE \/ ReflectRead(p) \/ ReflectWrite(p) \/ ReflectScan(p) \/ ReflectClose(p)
             \/ ReflectSuggest(p) \/ Hygiene(p) \/ DecideRead(p) \/ DecideWrite(p)
    <3>1. /\ UNCHANGED <<convs, turns, session, answered, failures, text>>
          /\ raced \subseteq raced'
          /\ \A q \in Procs \ {p} : pc'[q] = pc[q]
          /\ pc[p] \notin ChatPoints /\ pc'[p] \notin ChatPoints
      BY <2>7, ThoughtTurns
    <3>2. \A q \in Procs : q \in Talking \/ q \in Talking' =>
            pc'[q] = pc[q] /\ text'[q] = text[q] /\ session'[q] = session[q]
      BY <3>1 DEF Talking, ChatPoints
    <3>3. session' \in [Procs -> [conv : Nat, count : Nat]]
      BY <3>1 DEF TurnInv, TurnTypes
    <3>4. QED
      BY <3>1, <3>2, <3>3, TurnsQuiet
  <2>8. QED
    BY <1>1, <2>1, <2>2, <2>3, <2>4, <2>5, <2>6, <2>7 DEF MemorySteps
<1>2. ASSUME NEW p \in Procs, Kill(p), MemoryKill(p), RequestOver(p)
      PROVE  TurnInv'
  BY <1>2, KillTurns
<1>3. CASE MemoryAges
  BY <1>3, AgeTurns
<1>4. CASE /\ UNCHANGED memoryVars
           /\ \A q \in Procs : pc[q] \in MemPoints \/ pc'[q] \in MemPoints =>
                pc'[q] = pc[q] /\ text'[q] = text[q]
  <2>1. UNCHANGED <<convs, turns, session, answered, failures, raced>>
    BY <1>4 DEF memoryVars
  <2>2. session' \in [Procs -> [conv : Nat, count : Nat]]
    BY <2>1 DEF TurnInv, TurnTypes
  <2>3. \A q \in Procs : q \in Talking \/ q \in Talking' =>
          pc'[q] = pc[q] /\ text'[q] = text[q] /\ session'[q] = session[q]
    BY <1>4, <2>1 DEF Talking, MemPoints, ChatPoints
  <2>4. QED
    BY <2>1, <2>2, <2>3, TurnsQuiet
<1>5. QED
  BY <1>1, <1>2, <1>3, <1>4, MemoryFrame

-----------------------------------------------------------------------------
(* Observations: each step keeps them.                                     *)

\* The image of a finite set under a function.
LEMMA FiniteImage ==
  ASSUME NEW S, IsFiniteSet(S), NEW f
  PROVE  IsFiniteSet({f[x] : x \in S})
<1> DEFINE T == {f[x] : x \in S}
           g == [x \in S |-> f[x]]
<1>1. g \in Surjection(S, T)
  BY DEF Surjection
<1> HIDE DEF T, g
<1>2. IsFiniteSet(T)
  BY <1>1, FS_Surjection
<1>3. QED
  BY <1>2 DEF T

\* Observations that are left refer to turns that are left.
LEMMA ObsLeft ==
  ASSUME ObsOK, obs' \subseteq obs,
         \A o \in obs' : o.turn # 0 => o.turn \in DOMAIN turns' /\ turns'[o.turn].alive
  PROVE  ObsOK'
<1>1. IsFiniteSet(obs')
  BY FS_Subset DEF ObsOK
<1>2. QED
  BY <1>1 DEF ObsOK

\* What is seen in a turn is new, and of that turn.
LEMMA ObsAdded ==
  ASSUME ObsOK, TurnsStay, NEW n \in Nat, NEW t \in Messages, obs' = Extracted(n, t),
         n \in DOMAIN turns', turns'[n].alive
  PROVE  ObsOK'
<1> DEFINE unseen == {y \in ObservedIn[t] : ~Observed(y[1], y[2], <<t>>)}
           f == [x \in unseen |-> [turn |-> n, kind |-> x[1], subject |-> x[2],
                                   detail |-> <<t>>]]
           new == {f[x] : x \in unseen}
<1>1. obs' = obs \cup new
  BY DEF Extracted
<1>2. IsFiniteSet(obs')
  <2>1. unseen \subseteq ObservedIn[t] /\ IsFiniteSet(ObservedIn[t]) /\ IsFiniteSet(obs)
    BY MemoryAssumption DEF ObsOK
  <2> HIDE DEF unseen, f
  <2>2. IsFiniteSet(unseen)
    BY <2>1, FS_Subset
  <2>3. IsFiniteSet(new)
    BY <2>2, FiniteImage
  <2> HIDE DEF new
  <2>4. QED
    BY <1>1, <2>1, <2>3, FS_Union
<1>3. ASSUME NEW o \in new
      PROVE  /\ o.turn = n /\ o.subject \in Subjects /\ o.detail = <<t>>
             /\ ~Observed(o.kind, o.subject, o.detail)
  <2>1. PICK x \in unseen : o = [turn |-> n, kind |-> x[1], subject |-> x[2],
                                 detail |-> <<t>>]
    BY <1>3
  <2>2. x \in ObservedIn[t] /\ ~Observed(x[1], x[2], <<t>>)
    BY <2>1
  <2>3. x[2] \in Subjects
    BY <2>2 DEF Subjects
  <2>4. QED
    BY <2>1, <2>2, <2>3
<1> HIDE DEF new
<1>4. ASSUME NEW o \in obs'
      PROVE  /\ o.turn \in {0} \cup DOMAIN turns' /\ o.subject \in Subjects
             /\ o.kind = "preference" => o.detail[1] \in Texts
             /\ o.turn # 0 => turns'[o.turn].alive
  <2>1. CASE o \in obs
    BY <2>1 DEF ObsOK, TurnsStay
  <2>2. CASE o \in new
    <3>1. o.turn = n /\ o.subject \in Subjects /\ o.detail = <<t>>
      BY <1>3, <2>2
    <3>2. o.detail[1] = t /\ t \in Texts
      BY <3>1, MemoryAssumption
    <3>3. QED
      BY <3>1, <3>2
  <2>3. QED
    BY <1>1, <1>4, <2>1, <2>2
<1>5. ASSUME NEW o \in obs', NEW x \in obs', o.kind = x.kind, o.subject = x.subject,
             o.detail = x.detail
      PROVE  o.turn = x.turn
  <2>1. CASE o \in obs /\ x \in obs
    BY <1>5, <2>1 DEF ObsOK
  <2>2. CASE o \in new /\ x \in new
    BY <1>3, <2>2
  <2>3. CASE o \in new /\ x \in obs
    BY <1>3, <1>5, <2>3 DEF Observed
  <2>4. CASE o \in obs /\ x \in new
    <3>1. ~Observed(x.kind, x.subject, x.detail)
      BY <1>3, <2>4
    <3>2. QED
      BY <1>5, <2>4, <3>1 DEF Observed
  <2>5. QED
    BY <1>1, <1>5, <2>1, <2>2, <2>3, <2>4
<1>6. QED
  BY <1>2, <1>4, <1>5 DEF ObsOK

\* What the user decided is observed once.
LEMMA ObsDecided ==
  ASSUME ObsOK, NEW p \in Procs, DecideWrite(p)
  PROVE  ObsOK'
<1> DEFINE d == <<plan[p].status, suggestions[plan[p].id].title>>
           new == [turn |-> 0, kind |-> "feedback", subject |-> NoSubject, detail |-> d]
<1>1. /\ obs' = IF Observed("feedback", NoSubject, d) THEN obs ELSE obs \cup {new}
      /\ UNCHANGED turns
  BY DEF DecideWrite
<1>2. CASE obs' = obs
  BY <1>1, <1>2 DEF ObsOK
<1>3. CASE obs' = obs \cup {new} /\ ~Observed("feedback", NoSubject, d)
  <2>1. IsFiniteSet(obs')
    <3>1. IsFiniteSet(obs)
      BY DEF ObsOK
    <3> HIDE DEF new
    <3>2. QED
      BY <1>3, <3>1, FS_AddElement
  <2>2. /\ new.turn = 0 /\ new.kind = "feedback" /\ new.subject = NoSubject
        /\ new.detail = d /\ NoSubject \in Subjects
    BY DEF Subjects
  <2> HIDE DEF d, new
  <2>3. \A o \in obs : ~(/\ o.kind = new.kind /\ o.subject = new.subject
                         /\ o.detail = new.detail)
    BY <1>3, <2>2 DEF Observed
  <2>4. \A o \in obs' : o \in obs \/ o = new
    BY <1>3
  <2>5. ASSUME NEW o \in obs'
        PROVE  /\ o.turn \in {0} \cup DOMAIN turns' /\ o.subject \in Subjects
               /\ o.kind = "preference" => o.detail[1] \in Texts
               /\ o.turn # 0 => turns'[o.turn].alive
    <3>1. CASE o \in obs
      BY <1>1, <3>1 DEF ObsOK
    <3>2. CASE o = new
      BY <2>2, <3>2
    <3>3. QED
      BY <2>4, <2>5, <3>1, <3>2
  <2>6. ASSUME NEW o \in obs', NEW x \in obs', o.kind = x.kind, o.subject = x.subject,
               o.detail = x.detail
        PROVE  o.turn = x.turn
    <3>1. CASE o \in obs /\ x \in obs
      BY <2>6, <3>1 DEF ObsOK
    <3>2. CASE o = new \/ x = new
      BY <2>3, <2>4, <2>6, <3>2
    <3>3. QED
      BY <2>4, <2>6, <3>1, <3>2
  <2>7. QED
    BY <2>1, <2>5, <2>6 DEF ObsOK
<1>4. QED
  BY <1>1, <1>2, <1>3

\* No observation is made twice in any step.
LEMMA ObsStep ==
  ASSUME FrameOK, IdsOK, RouteTypes, TurnInv, ObsOK, [Next]_vars
  PROVE  ObsOK'
<1>1. ASSUME obs' \subseteq obs, TurnsStay
      PROVE  ObsOK'
  <2>1. \A o \in obs' : o.turn # 0 => o.turn \in DOMAIN turns' /\ turns'[o.turn].alive
    BY <1>1 DEF ObsOK, TurnsStay
  <2>2. QED
    BY <1>1, <2>1, ObsLeft
<1>2. ASSUME UNCHANGED turns
      PROVE  TurnsStay
  BY <1>2 DEF TurnsStay
<1>3. ASSUME NEW p \in Procs, MemorySteps(p)
      PROVE  ObsOK'
  <2>1. CASE LogNew(p) \/ LogWrite(p)
    <3>1. TurnsStay /\ ObservedNow(p)
      BY <2>1, NewTurns, WriteTurns
    <3>2. QED
      BY <1>1, <3>1, ObsAdded DEF ObservedNow
  <2>2. CASE Purge(p)
    <3>1. /\ DOMAIN turns' = DOMAIN turns
          /\ \A o \in obs' : o \in obs
                             /\ (o.turn # 0 => o.turn \in DOMAIN turns /\ turns'[o.turn].alive)
      BY <2>2, PurgeTurns
    <3>2. QED
      BY <3>1, ObsLeft
  <2>3. CASE Hygiene(p)
    BY <1>1, <1>2, <2>3 DEF Hygiene, Merged
  <2>4. CASE DecideWrite(p)
    BY <2>4, ObsDecided
  <2>5. CASE ChatOpen(p) \/ ChatExit(p) \/ ChatSay(p) \/ LogRead(p)
    BY <1>1, <1>2, <2>5 DEF ChatOpen, ChatExit, ChatSay, LogRead
  <2>6. CASE ReflectRead(p) \/ ReflectWrite(p) \/ ReflectScan(p) \/ ReflectClose(p)
             \/ ReflectSuggest(p) \/ DecideRead(p)
    BY <1>1, <1>2, <2>6 DEF ReflectRead, ReflectWrite, ReflectScan, ReflectClose,
                            ReflectSuggest, DecideRead
  <2>7. QED
    BY <1>3, <2>1, <2>2, <2>3, <2>4, <2>5, <2>6 DEF MemorySteps
<1>4. ASSUME NEW p \in Procs, MemoryKill(p)
      PROVE  ObsOK'
  BY <1>1, <1>2, <1>4 DEF MemoryKill
<1>5. CASE MemoryAges
  BY <1>1, <1>5, AgeTurns DEF MemoryAges
<1>6. CASE UNCHANGED memoryVars
  BY <1>1, <1>2, <1>6 DEF memoryVars
<1>7. QED
  BY <1>3, <1>4, <1>5, <1>6, MemoryFrame

-----------------------------------------------------------------------------
(* Insights.                                                               *)

\* Insights may be closed, and stay apart.
LEMMA Closing ==
  ASSUME NEW s \in Seq(Insight), Distinct(s), NEW t \in [DOMAIN s -> Insight],
         \A i \in DOMAIN s : t[i].subject = s[i].subject /\ (t[i].by = 0 => s[i].by = 0)
  PROVE  t \in Seq(Insight) /\ Distinct(t) /\ DOMAIN t = DOMAIN s
<1>1. Len(s) \in Nat /\ DOMAIN s = 1 .. Len(s)
  OBVIOUS
<1>2. t \in Seq(Insight)
  BY <1>1
<1>3. Distinct(t)
  BY DEF Distinct
<1>4. QED
  BY <1>2, <1>3

\* Expired ones are closed.
LEMMA Expiring ==
  ASSUME NEW s \in Seq(Insight), Distinct(s)
  PROVE  Expired(s) \in Seq(Insight) /\ Distinct(Expired(s)) /\ DOMAIN Expired(s) = DOMAIN s
<1> DEFINE t == Expired(s)
<1>1. DOMAIN t = DOMAIN s
  BY DEF Expired
<1>2. ASSUME NEW i \in DOMAIN s
      PROVE  /\ t[i] \in Insight /\ t[i].subject = s[i].subject
             /\ t[i].by = 0 => s[i].by = 0
  <2>1. s[i] \in Insight /\ i \in Int /\ i # 0
    BY <1>2
  <2>2. t[i] = [s[i] EXCEPT !.by = i] \/ t[i] = s[i]
    BY <1>2 DEF Expired
  <2>3. QED
    BY <2>1, <2>2 DEF Insight
<1>3. t \in [DOMAIN s -> Insight]
  <2>1. t = [i \in DOMAIN s |-> t[i]]
    BY DEF Expired
  <2> HIDE DEF t
  <2>2. QED
    BY <1>2, <2>1
<1> HIDE DEF t
<1>4. t \in Seq(Insight) /\ Distinct(t) /\ DOMAIN t = DOMAIN s
  BY <1>2, <1>3, Closing
<1>5. QED
  BY <1>4 DEF t

\* A reflection closes what it replaces.
LEMMA Reflecting ==
  ASSUME insights \in Seq(Insight), Distinct(insights), NEW S \in SUBSET Subjects,
         IsFiniteSet(S)
  PROVE  /\ Reflected(S) \in Seq(Insight) /\ Distinct(Reflected(S))
         /\ DOMAIN insights \subseteq DOMAIN Reflected(S)
<1> DEFINE order == SetToSeq(S)
           next(s) == Len(insights) + (CHOOSE i \in DOMAIN order : order[i] = s)
           closed == [i \in DOMAIN insights |->
                       IF i \in Open /\ insights[i].subject \in S
                       THEN [insights[i] EXCEPT !.by = next(insights[i].subject)]
                       ELSE insights[i]]
           new == [i \in DOMAIN order |-> [subject |-> order[i], by |-> 0, old |-> FALSE]]
           R == Reflected(S)
           m == Len(insights)
           n == Len(order)
<1>1. /\ order \in Seq(S) /\ n \in Nat /\ DOMAIN order = 1 .. n
      /\ \A i, j \in 1 .. n : order[i] = order[j] => i = j
      /\ \A s \in S : \E i \in 1 .. n : order[i] = s
      /\ \A i \in 1 .. n : order[i] \in S
  <2>1. /\ order \in Seq(S) /\ Cardinality(S) \in Nat /\ n = Cardinality(S)
        /\ DOMAIN order = 1 .. Cardinality(S)
        /\ \A i, j \in 1 .. Cardinality(S) : order[i] = order[j] => i = j
        /\ \A s \in S : \E i \in 1 .. Cardinality(S) : order[i] = s
    BY InARow
  <2> HIDE DEF order
  <2>2. \A i \in DOMAIN order : order[i] \in S
    BY <2>1
  <2>3. QED
    BY <2>1, <2>2
<1>2. m \in Nat /\ DOMAIN insights = 1 .. m
  OBVIOUS
<1>3. R = closed \o new
  BY DEF Reflected
<1>4. \A s \in S : next(s) \in Int /\ next(s) # 0
  <2> SUFFICES ASSUME NEW s \in S PROVE next(s) \in Int /\ next(s) # 0
    OBVIOUS
  <2> HIDE DEF order
  <2>1. (CHOOSE i \in DOMAIN order : order[i] = s) \in 1 .. n
    BY <1>1
  <2>2. QED
    BY <1>2, <2>1
<1> HIDE DEF order, R
<1>5. ASSUME NEW i \in DOMAIN insights
      PROVE  /\ closed[i] \in Insight /\ closed[i].subject = insights[i].subject
             /\ closed[i].by = 0 => insights[i].by = 0 /\ insights[i].subject \notin S
  <2>1. insights[i] \in Insight
    BY <1>5
  <2>2. CASE i \in Open /\ insights[i].subject \in S
    <3>1. /\ closed[i] = [insights[i] EXCEPT !.by = next(insights[i].subject)]
          /\ next(insights[i].subject) \in Int /\ next(insights[i].subject) # 0
      BY <1>4, <1>5, <2>2
    <3> HIDE DEF closed, next
    <3>2. QED
      BY <2>1, <3>1 DEF Insight
  <2>3. CASE ~(i \in Open /\ insights[i].subject \in S)
    <3>1. closed[i] = insights[i]
      BY <1>5, <2>3
    <3>2. insights[i].by = 0 => insights[i].subject \notin S
      BY <1>5, <2>3 DEF Open
    <3> HIDE DEF closed
    <3>3. QED
      BY <2>1, <3>1, <3>2
  <2>4. QED
    BY <2>2, <2>3
<1>6. closed \in [1 .. m -> Insight]
  <2>1. closed = [i \in 1 .. m |-> closed[i]]
    BY <1>2
  <2>2. \A i \in 1 .. m : closed[i] \in Insight
    BY <1>2, <1>5
  <2> HIDE DEF closed, m
  <2>3. QED
    BY <2>1, <2>2
<1>7. /\ new \in [1 .. n -> Insight]
      /\ \A i \in 1 .. n : new[i].subject = order[i] /\ new[i].by = 0
  <2>1. \A i \in 1 .. n : order[i] \in Subjects
    BY <1>1
  <2>2. QED
    BY <1>1, <2>1 DEF Insight
<1> HIDE DEF closed, new, next, m, n
<1>8. closed \in Seq(Insight) /\ Len(closed) = m /\ new \in Seq(Insight) /\ Len(new) = n
  BY <1>1, <1>2, <1>6, <1>7
<1>9. /\ R \in Seq(Insight) /\ DOMAIN R = 1 .. m + n
      /\ \A i \in 1 .. m : R[i] = closed[i]
      /\ \A i \in 1 .. n : R[m + i] = new[i]
  BY <1>3, <1>8, OneAfterTheOther
<1>10. \A i \in DOMAIN R : i \in 1 .. m \/ \E k \in 1 .. n : i = m + k
  <2>1. \A i \in 1 .. m + n : i \in 1 .. m \/ (i - m \in 1 .. n /\ i = m + (i - m))
    BY <1>1, <1>2
  <2>2. QED
    BY <1>9, <2>1
<1>11. ASSUME NEW i \in DOMAIN R, NEW j \in DOMAIN R, R[i].by = 0, R[j].by = 0,
              R[i].subject = R[j].subject
       PROVE  i = j
  <2>1. \A k \in 1 .. m : R[k].by = 0 =>
          /\ insights[k].by = 0 /\ R[k].subject = insights[k].subject
          /\ R[k].subject \notin S
    BY <1>2, <1>5, <1>9
  <2>2. \A k \in 1 .. n : R[m + k].subject = order[k] /\ order[k] \in S
    BY <1>1, <1>7, <1>9
  <2>3. CASE i \in 1 .. m /\ j \in 1 .. m
    BY <1>2, <1>11, <2>1, <2>3 DEF Distinct
  <2>4. CASE i \in 1 .. m /\ \E k \in 1 .. n : j = m + k
    BY <1>11, <2>1, <2>2, <2>4
  <2>5. CASE j \in 1 .. m /\ \E k \in 1 .. n : i = m + k
    BY <1>11, <2>1, <2>2, <2>5
  <2>6. ASSUME NEW k \in 1 .. n, i = m + k, NEW l \in 1 .. n, j = m + l
        PROVE  i = j
    <3>1. order[k] = order[l]
      BY <1>11, <2>2, <2>6
    <3>2. k = l
      BY <1>1, <2>6, <3>1
    <3>3. QED
      BY <2>6, <3>2
  <2>7. QED
    BY <1>10, <1>11, <2>3, <2>4, <2>5, <2>6
<1>12. DOMAIN insights \subseteq DOMAIN R
  BY <1>1, <1>2, <1>9
<1>13. Distinct(R)
  BY <1>11 DEF Distinct
<1>14. QED
  BY <1>9, <1>12, <1>13 DEF R

\* What may be suggested.
LEMMA TitlesFinite ==
  ASSUME ObsOK
  PROVE  Titles \subseteq Named /\ IsFiniteSet(Titles)
<1> DEFINE risks == {x \in obs : x.kind = "risk" /\ x.subject # NoSubject}
           likes == {x \in obs : x.kind = "preference"}
           f == [o \in risks |-> <<"risk", o.subject>>]
           g == [o \in likes |-> <<"preference", o.detail[1]>>]
<1>1. Titles = {f[o] : o \in risks} \cup {g[o] : o \in likes}
  BY DEF Titles
<1>2. \A o \in risks : f[o] \in Named
  BY DEF ObsOK, Named
<1>3. \A o \in likes : g[o] \in Named
  BY DEF ObsOK, Named
<1>4. risks \subseteq obs /\ likes \subseteq obs /\ IsFiniteSet(obs)
  BY DEF ObsOK
<1> HIDE DEF risks, likes, f, g
<1>5. IsFiniteSet(risks) /\ IsFiniteSet(likes)
  BY <1>4, FS_Subset
<1>6. IsFiniteSet({f[o] : o \in risks}) /\ IsFiniteSet({g[o] : o \in likes})
  BY <1>5, FiniteImage
<1>7. IsFiniteSet(Titles)
  BY <1>1, <1>6, FS_Union
<1>8. QED
  BY <1>1, <1>2, <1>3, <1>7

\* The clusters that a reflection reads.
LEMMA ClustersFinite ==
  ASSUME ObsOK, NEW some, some \subseteq obs
  PROVE  {o.subject : o \in some} \in SUBSET Subjects /\ IsFiniteSet({o.subject : o \in some})
<1> DEFINE f == [o \in some |-> o.subject]
<1>1. IsFiniteSet(some)
  BY FS_Subset DEF ObsOK
<1>2. {o.subject : o \in some} = {f[o] : o \in some}
  OBVIOUS
<1> HIDE DEF f
<1>3. IsFiniteSet({o.subject : o \in some})
  BY <1>1, <1>2, FiniteImage
<1>4. QED
  BY <1>3 DEF ObsOK

\* A process plans for itself.
LEMMA PlanMoves ==
  ASSUME FrameOK, plan \in [Procs -> Plans], ObsOK, insights \in Seq(Insight),
         SuggestionTypes, NEW p \in Procs, MemorySteps(p) \/ MemoryKill(p)
  PROVE  /\ plan' \in [Procs -> Plans]
         /\ \A q \in Procs \ {p} : plan'[q] = plan[q]
<1>1. NoPlan \in Plans
  BY DEF NoPlan, Plans
<1>2. ASSUME NEW x \in Plans, plan' = [plan EXCEPT ![p] = x]
      PROVE  /\ plan' \in [Procs -> Plans]
             /\ \A q \in Procs \ {p} : plan'[q] = plan[q]
  <2> HIDE DEF Plans
  <2>1. QED
    BY <1>2
<1>3. CASE ReflectRead(p)
  <2> DEFINE some == {x \in obs : x.subject # NoSubject /\ Support(x.subject) >= 2}
  <2>1. plan' = [plan EXCEPT ![p] = [NoPlan EXCEPT !.subjects = {o.subject : o \in some}]]
    BY <1>3 DEF ReflectRead
  <2>2. {o.subject : o \in some} \in SUBSET Subjects
    BY ClustersFinite
  <2> HIDE DEF some
  <2>3. [NoPlan EXCEPT !.subjects = {o.subject : o \in some}] \in Plans
    BY <2>2 DEF NoPlan, Plans
  <2>4. QED
    BY <1>2, <2>1, <2>3
<1>4. CASE ReflectScan(p)
  <2> DEFINE stale == {i \in Open : Support(insights[i].subject) < 2}
  <2>1. \/ stale # {} /\ plan' = [plan EXCEPT ![p] = [NoPlan EXCEPT !.id = Min(stale)]]
        \/ \E t \in Fresh : plan' = [plan EXCEPT ![p] = [NoPlan EXCEPT !.title = t]]
        \/ plan' = plan
    BY <1>4 DEF ReflectScan
  <2>2. ASSUME stale # {}
        PROVE  Min(stale) \in Nat
    <3>1. Len(insights) \in Nat /\ DOMAIN insights = 1 .. Len(insights)
      OBVIOUS
    <3>2. stale \in SUBSET (1 .. Len(insights))
      BY <3>1 DEF Open
    <3> HIDE DEF stale
    <3>3. Min(stale) \in stale
      BY <2>2, <3>1, <3>2, Least
    <3>4. Min(stale) \in 1 .. Len(insights)
      BY <3>2, <3>3
    <3>5. QED
      BY <3>1, <3>4
  <2>3. Fresh \subseteq Named
    BY TitlesFinite DEF Fresh
  <2> HIDE DEF stale
  <2>4. \A n \in Nat : [NoPlan EXCEPT !.id = n] \in Plans
    BY DEF NoPlan, Plans
  <2>5. \A t \in Named : [NoPlan EXCEPT !.title = t] \in Plans
    BY DEF NoPlan, Plans
  <2>6. CASE stale # {} /\ plan' = [plan EXCEPT ![p] = [NoPlan EXCEPT !.id = Min(stale)]]
    BY <1>2, <2>2, <2>4, <2>6
  <2>7. CASE \E t \in Fresh : plan' = [plan EXCEPT ![p] = [NoPlan EXCEPT !.title = t]]
    BY <1>2, <2>3, <2>5, <2>7
  <2>8. QED
    BY <2>1, <2>6, <2>7
<1>5. CASE DecideRead(p)
  <2>1. \/ plan' = plan
        \/ \E i \in DOMAIN suggestions, s \in {"accepted", "dismissed", "applied"} :
             plan' = [plan EXCEPT ![p] = [NoPlan EXCEPT !.id = i, !.status = s]]
    BY <1>5 DEF DecideRead
  <2>2. \A i \in DOMAIN suggestions : i \in Nat
    BY DEF SuggestionTypes
  <2>3. \A n \in Nat, s \in {"accepted", "dismissed", "applied"} :
          [NoPlan EXCEPT !.id = n, !.status = s] \in Plans
    BY DEF NoPlan, Plans, Statuses
  <2>4. CASE \E i \in DOMAIN suggestions, s \in {"accepted", "dismissed", "applied"} :
               plan' = [plan EXCEPT ![p] = [NoPlan EXCEPT !.id = i, !.status = s]]
    BY <1>2, <2>2, <2>3, <2>4
  <2>5. QED
    BY <2>1, <2>4
<1>6. CASE Hygiene(p) \/ DecideWrite(p) \/ MemoryKill(p)
  BY <1>1, <1>2, <1>6 DEF Hygiene, DecideWrite, MemoryKill
<1>7. CASE ChatOpen(p) \/ ChatExit(p) \/ ChatSay(p) \/ LogRead(p) \/ LogNew(p)
           \/ LogWrite(p) \/ Purge(p) \/ ReflectWrite(p) \/ ReflectClose(p)
           \/ ReflectSuggest(p)
  BY <1>7 DEF ChatOpen, ChatExit, ChatSay, LogRead, LogNew, LogWrite, Purge, ReflectWrite,
              ReflectClose, ReflectSuggest
<1>8. QED
  BY <1>3, <1>4, <1>5, <1>6, <1>7 DEF MemorySteps

\* The list of insights after a step.
LEMMA InsightList ==
  ASSUME FrameOK, plan \in [Procs -> Plans], InsightsOK, NEW p \in Procs, MemorySteps(p)
  PROVE  /\ insights' \in Seq(Insight) /\ Distinct(insights)'
         /\ DOMAIN insights \subseteq DOMAIN insights'
<1>1. insights \in Seq(Insight) /\ Distinct(insights)
  BY DEF InsightsOK
<1>2. CASE ReflectWrite(p)
  <2> DEFINE R == Reflected(plan[p].subjects)
  <2>1. insights' = Expired(R) /\ pc[p] = "reflect"
    BY <1>2 DEF ReflectWrite
  <2>2. plan[p].subjects \in SUBSET Subjects /\ IsFiniteSet(plan[p].subjects)
    <3>1. plan[p] \in Plans
      OBVIOUS
    <3>2. plan[p].subjects \in SUBSET Subjects
      BY <3>1 DEF Plans
    <3>3. QED
      BY <2>1, <3>2 DEF InsightsOK
  <2>3. R \in Seq(Insight) /\ Distinct(R) /\ DOMAIN insights \subseteq DOMAIN R
    BY <1>1, <2>2, Reflecting
  <2> HIDE DEF R
  <2>4. Expired(R) \in Seq(Insight) /\ Distinct(Expired(R)) /\ DOMAIN Expired(R) = DOMAIN R
    BY <2>3, Expiring
  <2>5. QED
    BY <2>1, <2>3, <2>4 DEF Distinct
<1>3. CASE ReflectClose(p)
  <2> DEFINE i == plan[p].id
             t == IF insights[i].by = -1 THEN insights ELSE [insights EXCEPT ![i].by = i]
  <2>1. insights' = Expired(t) /\ i \in DOMAIN insights
    BY <1>3 DEF ReflectClose, InsightsOK
  <2>2. i \in Int /\ i # 0
    BY <1>1, <2>1
  <2>3. t \in Seq(Insight) /\ Distinct(t) /\ DOMAIN t = DOMAIN insights
    <3>1. CASE t = insights
      BY <1>1, <3>1
    <3>2. CASE t = [insights EXCEPT ![i].by = i]
      <4> HIDE DEF i
      <4>1. ASSUME NEW j \in DOMAIN insights
            PROVE  /\ t[j] \in Insight /\ t[j].subject = insights[j].subject
                   /\ t[j].by = 0 => insights[j].by = 0
        <5>1. insights[j] \in Insight
          BY <1>1, <4>1
        <5>2. t[j] = IF j = i THEN [insights[j] EXCEPT !.by = i] ELSE insights[j]
          BY <3>2, <4>1
        <5> HIDE DEF t
        <5>3. QED
          BY <2>2, <5>1, <5>2 DEF Insight
      <4>2. t \in [DOMAIN insights -> Insight]
        <5>1. t = [j \in DOMAIN insights |-> t[j]]
          BY <3>2
        <5> HIDE DEF t
        <5>2. QED
          BY <4>1, <5>1
      <4> HIDE DEF t
      <4>3. QED
        BY <1>1, <4>1, <4>2, Closing
    <3>3. QED
      BY <3>1, <3>2
  <2> HIDE DEF t
  <2>4. Expired(t) \in Seq(Insight) /\ Distinct(Expired(t)) /\ DOMAIN Expired(t) = DOMAIN t
    BY <2>3, Expiring
  <2>5. QED
    BY <2>1, <2>3, <2>4 DEF Distinct
<1>4. CASE Purge(p)
  <2>1. insights' = [i \in DOMAIN insights |->
                      [insights[i] EXCEPT !.by = IF insights[i].old THEN -1 ELSE @]]
    BY <1>4 DEF Purge
  <2>2. ASSUME NEW i \in DOMAIN insights
        PROVE  /\ insights'[i] \in Insight /\ insights'[i].subject = insights[i].subject
               /\ insights'[i].by = 0 => insights[i].by = 0
    <3>1. insights[i] \in Insight
      BY <1>1, <2>2
    <3>2. insights'[i] = [insights[i] EXCEPT !.by = -1] \/ insights'[i] = insights[i]
      BY <2>1, <2>2, <3>1 DEF Insight
    <3>3. QED
      BY <3>1, <3>2 DEF Insight
  <2>3. insights' \in [DOMAIN insights -> Insight]
    <3>1. insights' = [i \in DOMAIN insights |-> insights'[i]]
      BY <2>1
    <3>2. QED
      BY <2>2, <3>1
  <2>4. insights' \in Seq(Insight) /\ Distinct(insights') /\ DOMAIN insights' = DOMAIN insights
    BY <1>1, <2>2, <2>3, Closing
  <2>5. QED
    BY <2>4 DEF Distinct
<1>5. CASE ChatOpen(p) \/ ChatExit(p) \/ ChatSay(p) \/ LogRead(p) \/ LogNew(p)
           \/ LogWrite(p) \/ ReflectRead(p) \/ ReflectScan(p) \/ ReflectSuggest(p)
           \/ Hygiene(p) \/ DecideRead(p) \/ DecideWrite(p)
  <2>1. UNCHANGED insights
    BY <1>5 DEF ChatOpen, ChatExit, ChatSay, LogRead, LogNew, LogWrite, ReflectRead,
                ReflectScan, ReflectSuggest, Hygiene, DecideRead, DecideWrite
  <2>2. QED
    BY <1>1, <2>1 DEF Distinct
<1>6. QED
  BY <1>2, <1>3, <1>4, <1>5 DEF MemorySteps

\* Insights stay apart in every step.
LEMMA InsightStep ==
  ASSUME FrameOK, IdsOK, RouteTypes, plan \in [Procs -> Plans], ObsOK, InsightsOK,
         SuggestionTypes, [Next]_vars
  PROVE  plan' \in [Procs -> Plans] /\ InsightsOK'
<1>1. insights \in Seq(Insight) /\ Distinct(insights) /\ pc \in [Procs -> Points]
  BY DEF InsightsOK, FrameOK, ProcTypes
<1>2. ASSUME insights' \in Seq(Insight), Distinct(insights)',
             DOMAIN insights \subseteq DOMAIN insights',
             NEW p \in Procs, \A q \in Procs \ {p} : pc'[q] = pc[q] /\ plan'[q] = plan[q],
             pc'[p] = "reflect" => IsFiniteSet(plan'[p].subjects),
             pc'[p] = "close" => plan'[p].id \in DOMAIN insights'
      PROVE  InsightsOK'
  <2>1. ASSUME NEW q \in Procs
        PROVE  /\ pc'[q] = "reflect" => IsFiniteSet(plan'[q].subjects)
               /\ pc'[q] = "close" => plan'[q].id \in DOMAIN insights'
    BY <1>2 DEF InsightsOK
  <2>2. QED
    BY <1>2, <2>1 DEF InsightsOK
<1>3. ASSUME NEW p \in Procs, MemorySteps(p)
      PROVE  plan' \in [Procs -> Plans] /\ InsightsOK'
  <2>1. /\ plan' \in [Procs -> Plans]
        /\ \A q \in Procs \ {p} : plan'[q] = plan[q]
    BY <1>1, <1>3, PlanMoves
  <2>2. /\ insights' \in Seq(Insight) /\ Distinct(insights)'
        /\ DOMAIN insights \subseteq DOMAIN insights'
    BY <1>3, InsightList
  <2>3. \A q \in Procs \ {p} : pc'[q] = pc[q]
    BY <1>3, OwnStep DEF Steps
  <2>4. CASE ReflectRead(p)
    <3> DEFINE some == {x \in obs : x.subject # NoSubject /\ Support(x.subject) >= 2}
    <3>1. /\ plan' = [plan EXCEPT ![p] = [NoPlan EXCEPT !.subjects = {o.subject : o \in some}]]
          /\ pc'[p] # "close"
      BY <1>1, <2>4 DEF ReflectRead, Goto
    <3>2. IsFiniteSet({o.subject : o \in some})
      BY ClustersFinite
    <3> HIDE DEF some
    <3>3. plan'[p].subjects = {o.subject : o \in some}
      BY <3>1 DEF NoPlan
    <3>4. QED
      BY <1>2, <2>1, <2>2, <2>3, <3>1, <3>2, <3>3
  <2>5. CASE ReflectScan(p)
    <3> DEFINE stale == {i \in Open : Support(insights[i].subject) < 2}
    <3>1. /\ pc'[p] # "reflect"
          /\ pc'[p] = "close" =>
               stale # {} /\ plan' = [plan EXCEPT ![p] = [NoPlan EXCEPT !.id = Min(stale)]]
      BY <1>1, <2>5 DEF ReflectScan, Goto
    <3>2. ASSUME stale # {}
          PROVE  Min(stale) \in DOMAIN insights
      <4>1. Len(insights) \in Nat /\ DOMAIN insights = 1 .. Len(insights)
        BY <1>1
      <4>2. stale \in SUBSET (1 .. Len(insights))
        BY <4>1 DEF Open
      <4> HIDE DEF stale
      <4>3. Min(stale) \in stale
        BY <3>2, <4>1, <4>2, Least
      <4>4. QED
        BY <4>1, <4>2, <4>3
    <3> HIDE DEF stale
    <3>3. pc'[p] = "close" => plan'[p].id \in DOMAIN insights'
      BY <2>2, <3>1, <3>2 DEF NoPlan
    <3>4. QED
      BY <1>2, <2>1, <2>2, <2>3, <3>1, <3>3
  <2>6. CASE \/ ChatOpen(p) \/ ChatExit(p) \/ ChatSay(p) \/ LogRead(p) \/ LogNew(p)
             \/ LogWrite(p) \/ Purge(p) \/ ReflectWrite(p) \/ ReflectClose(p)
             \/ ReflectSuggest(p) \/ Hygiene(p) \/ DecideRead(p) \/ DecideWrite(p)
    <3>1. pc'[p] \in {"talk", "end", "answered", "logging", "hygiene", "decide"}
      BY <1>1, <2>6 DEF ChatOpen, ChatExit, ChatSay, LogRead, LogNew, LogWrite, Purge,
           ReflectWrite, ReflectClose, ReflectSuggest, Hygiene, DecideRead, DecideWrite,
           Goto, End
    <3>2. QED
      BY <1>2, <2>1, <2>2, <2>3, <3>1
  <2>7. QED
    BY <1>3, <2>1, <2>4, <2>5, <2>6 DEF MemorySteps
<1>4. ASSUME NEW p \in Procs, Kill(p), MemoryKill(p)
      PROVE  plan' \in [Procs -> Plans] /\ InsightsOK'
  <2>1. /\ plan' \in [Procs -> Plans]
        /\ \A q \in Procs \ {p} : plan'[q] = plan[q]
    BY <1>1, <1>4, PlanMoves
  <2>2. UNCHANGED insights
    BY <1>4 DEF MemoryKill
  <2>3. pc'[p] = "idle" /\ \A q \in Procs \ {p} : pc'[q] = pc[q]
    BY <1>1, <1>4 DEF Kill, Leave
  <2>4. Distinct(insights)'
    BY <1>1, <2>2 DEF Distinct
  <2>5. QED
    BY <1>1, <1>2, <2>1, <2>2, <2>3, <2>4
<1>5. CASE MemoryAges
  <2>1. /\ insights' = [i \in DOMAIN insights |-> [insights[i] EXCEPT !.old = TRUE]]
        /\ UNCHANGED <<plan, pc>>
    BY <1>5 DEF MemoryAges, procVars
  <2>2. ASSUME NEW i \in DOMAIN insights
        PROVE  /\ insights'[i] \in Insight /\ insights'[i].subject = insights[i].subject
               /\ insights'[i].by = 0 => insights[i].by = 0
    <3>1. insights[i] \in Insight /\ insights'[i] = [insights[i] EXCEPT !.old = TRUE]
      BY <1>1, <2>1, <2>2
    <3>2. QED
      BY <3>1 DEF Insight
  <2>3. insights' \in [DOMAIN insights -> Insight]
    <3>1. insights' = [i \in DOMAIN insights |-> insights'[i]]
      BY <2>1
    <3>2. QED
      BY <2>2, <3>1
  <2>4. insights' \in Seq(Insight) /\ Distinct(insights') /\ DOMAIN insights' = DOMAIN insights
    BY <1>1, <2>2, <2>3, Closing
  <2>5. QED
    BY <2>1, <2>4 DEF InsightsOK, Distinct
<1>6. CASE /\ UNCHANGED memoryVars
           /\ \A q \in Procs : pc[q] \in MemPoints \/ pc'[q] \in MemPoints =>
                pc'[q] = pc[q] /\ text'[q] = text[q]
  <2>1. UNCHANGED <<insights, plan>>
    BY <1>6 DEF memoryVars
  <2>2. \A q \in Procs : pc'[q] \in {"reflect", "close"} => pc'[q] = pc[q]
    BY <1>6 DEF MemPoints, ReflectPoints
  <2>3. Distinct(insights)'
    BY <1>1, <2>1 DEF Distinct
  <2>4. QED
    BY <1>1, <2>1, <2>2, <2>3 DEF InsightsOK
<1>7. QED
  BY <1>3, <1>4, <1>5, <1>6, MemoryFrame

-----------------------------------------------------------------------------
(* Suggestions.                                                            *)

\* What is proposed comes after what was there.
Extended(R) ==
  /\ R \in Seq(Suggestion) /\ DOMAIN suggestions \subseteq DOMAIN R
  /\ \A i \in DOMAIN suggestions : R[i] = suggestions[i]

\* New proposals, each title once.
LEMMA Proposing ==
  ASSUME SuggestionTypes, NEW T \in SUBSET Named, IsFiniteSet(T)
  PROVE  /\ Extended(Proposed(T))
         /\ \A i \in DOMAIN Proposed(T) \ DOMAIN suggestions :
              /\ Proposed(T)[i].title \in T /\ Followed(Proposed(T)[i])
              /\ \A j \in DOMAIN suggestions : j < i
         /\ \A i, j \in DOMAIN Proposed(T) \ DOMAIN suggestions :
              Proposed(T)[i].title = Proposed(T)[j].title => i = j
<1> DEFINE f == [t \in T |-> [title |-> t, status |-> "proposed", past |-> {}]]
           S == {f[t] : t \in T}
           order == SetToSeq(S)
           m == Len(suggestions)
           n == Len(order)
           R == Proposed(T)
<1>1. R = suggestions \o order
  <2>1. S = {[title |-> t, status |-> "proposed", past |-> {}] : t \in T}
    OBVIOUS
  <2>2. QED
    BY <2>1 DEF Proposed
<1>2. \A x \in S : x \in Suggestion /\ x.title \in T /\ Followed(x)
  BY DEF Suggestion, Followed
<1>3. \A x, y \in S : x.title = y.title => x = y
  OBVIOUS
<1>4. IsFiniteSet(S)
  <2> HIDE DEF f
  <2>1. QED
    BY FiniteImage
<1> HIDE DEF f, S, R
<1>5. /\ order \in Seq(S) /\ n \in Nat /\ DOMAIN order = 1 .. n
      /\ \A i, j \in 1 .. n : order[i] = order[j] => i = j
  <2>1. /\ order \in Seq(S) /\ Cardinality(S) \in Nat /\ n = Cardinality(S)
        /\ DOMAIN order = 1 .. Cardinality(S)
        /\ \A i, j \in 1 .. Cardinality(S) : order[i] = order[j] => i = j
    BY <1>4, InARow
  <2> HIDE DEF order
  <2>2. QED
    BY <2>1
<1> HIDE DEF order
<1>6. \A i \in 1 .. n : order[i] \in S
  BY <1>5
<1>7. order \in Seq(Suggestion)
  <2>1. order = [i \in 1 .. n |-> order[i]]
    BY <1>5
  <2>2. \A i \in 1 .. n : order[i] \in Suggestion
    BY <1>2, <1>6
  <2> HIDE DEF n
  <2>3. n \in Nat
    BY <1>5
  <2>4. order \in [1 .. n -> Suggestion]
    BY <2>1, <2>2
  <2>5. QED
    BY <2>3, <2>4
<1>8. suggestions \in Seq(Suggestion) /\ m \in Nat /\ DOMAIN suggestions = 1 .. m
  BY DEF SuggestionTypes
<1> HIDE DEF m, n
<1>9. /\ R \in Seq(Suggestion) /\ DOMAIN R = 1 .. m + n
      /\ \A i \in 1 .. m : R[i] = suggestions[i]
      /\ \A i \in 1 .. n : R[m + i] = order[i]
  BY <1>1, <1>7, <1>8, OneAfterTheOther DEF m, n
<1>10. Extended(R)
  BY <1>5, <1>8, <1>9 DEF Extended
<1>11. \A i \in DOMAIN R \ DOMAIN suggestions : i - m \in 1 .. n /\ i = m + (i - m) /\ i > m
  BY <1>5, <1>8, <1>9
<1>12. ASSUME NEW i \in DOMAIN R \ DOMAIN suggestions
       PROVE  /\ R[i] \in S /\ R[i] = order[i - m]
              /\ \A j \in DOMAIN suggestions : j < i
  <2>1. R[i] = order[i - m]
    BY <1>9, <1>11, <1>12
  <2>2. R[i] \in S
    BY <1>6, <1>11, <1>12, <2>1
  <2>3. \A j \in DOMAIN suggestions : j < i
    BY <1>8, <1>9, <1>11, <1>12
  <2>4. QED
    BY <2>1, <2>2, <2>3
<1>13. ASSUME NEW i \in DOMAIN R \ DOMAIN suggestions,
              NEW j \in DOMAIN R \ DOMAIN suggestions, R[i].title = R[j].title
       PROVE  i = j
  <2>1. order[i - m] = order[j - m]
    BY <1>3, <1>12, <1>13
  <2>2. i - m = j - m
    BY <1>5, <1>11, <1>13, <2>1
  <2>3. i \in Nat /\ j \in Nat
    BY <1>9, <1>13
  <2>4. QED
    BY <1>8, <2>2, <2>3
<1>14. QED
  BY <1>2, <1>10, <1>12, <1>13 DEF R

\* A process that has read is right or marked, whatever is proposed meanwhile.
LEMMA PlansKept ==
  ASSUME \A q \in Procs : PlanOK(q), Extended(suggestions'), raced \subseteq raced',
         NEW p \in Procs, \A q \in Procs \ {p} : pc'[q] = pc[q] /\ plan'[q] = plan[q],
         pc'[p] \notin {"suggest", "decide"},
         \A q \in Procs \ {p} :
           pc[q] = "suggest" /\ plan[q].title \in Already' \ Already =>
             <<"title", plan[q].title>> \in raced'
  PROVE  \A q \in Procs : PlanOK(q)'
<1>1. ASSUME NEW q \in Procs
      PROVE  PlanOK(q)'
  <2>1. CASE q = p
    BY <2>1 DEF PlanOK
  <2>2. CASE q # p /\ pc[q] = "suggest"
    <3>1. pc'[q] = "suggest" /\ plan'[q] = plan[q]
      BY <2>2
    <3>2. plan[q].title \in Named
          /\ (plan[q].title \in Already => <<"title", plan[q].title>> \in raced)
      BY <2>2 DEF PlanOK
    <3>3. QED
      BY <2>2, <3>1, <3>2 DEF PlanOK
  <2>3. CASE q # p /\ pc[q] = "decide"
    <3> DEFINE i == plan[q].id
    <3>1. /\ i \in DOMAIN suggestions /\ plan[q].status \in Statuses
          /\ \/ <<"suggestion", i>> \in raced
             \/ MayBecome(suggestions[i].status, plan[q].status)
          /\ \A r \in Procs \ {q} : pc[r] = "decide" /\ plan[r].id = i =>
               <<"suggestion", i>> \in raced
      BY <2>3 DEF PlanOK
    <3>2. pc'[q] = "decide" /\ plan'[q] = plan[q]
      BY <2>3
    <3>3. i \in DOMAIN suggestions' /\ suggestions'[i] = suggestions[i]
      BY <3>1 DEF Extended
    <3>4. \A r \in Procs \ {q} : pc'[r] = "decide" /\ plan'[r].id = i =>
            <<"suggestion", i>> \in raced'
      BY <3>1
    <3>5. <<"suggestion", i>> \in raced' \/ MayBecome(suggestions'[i].status, plan[q].status)
      BY <3>1, <3>3
    <3>6. QED
      BY <3>1, <3>2, <3>3, <3>4, <3>5 DEF PlanOK
  <2>4. CASE q # p /\ pc[q] \notin {"suggest", "decide"}
    BY <2>4 DEF PlanOK
  <2>5. QED
    BY <2>1, <2>2, <2>3, <2>4
<1>2. QED
  BY <1>1

\* What may be proposed now.
LEMMA FreshFinite ==
  ASSUME ObsOK
  PROVE  Fresh \in SUBSET Named /\ IsFiniteSet(Fresh) /\ Fresh \cap Already = {}
<1>1. Titles \subseteq Named /\ IsFiniteSet(Titles)
  BY TitlesFinite
<1>2. Fresh = Titles \ Already
  BY DEF Fresh, Already
<1>3. IsFiniteSet(Fresh)
  BY <1>1, <1>2, FS_Subset
<1>4. QED
  BY <1>1, <1>2, <1>3

\* New proposals that repeat no title, or one that is marked.
LEMMA SuggestionsGrow ==
  ASSUME SuggestionsOK, Extended(suggestions'), raced \subseteq raced',
         \A i \in DOMAIN suggestions' \ DOMAIN suggestions :
           Followed(suggestions'[i]) /\ \A j \in DOMAIN suggestions : j < i,
         \A j \in DOMAIN suggestions' \ DOMAIN suggestions :
           \A i \in DOMAIN suggestions' :
             i < j /\ suggestions'[i].title = suggestions'[j].title
               => <<"title", suggestions'[i].title>> \in raced'
  PROVE  SuggestionsOK'
<1>1. SuggestionTypes'
  BY DEF Extended, SuggestionTypes
<1>2. ASSUME NEW i \in DOMAIN suggestions', NEW j \in DOMAIN suggestions', i < j,
             suggestions'[i].title = suggestions'[j].title
      PROVE  <<"title", suggestions'[i].title>> \in raced'
  <2>1. CASE j \notin DOMAIN suggestions
    BY <1>2, <2>1
  <2>2. CASE j \in DOMAIN suggestions /\ i \in DOMAIN suggestions
    <3>1. suggestions'[i] = suggestions[i] /\ suggestions'[j] = suggestions[j]
      BY <2>2 DEF Extended
    <3>2. <<"title", suggestions[i].title>> \in raced
      BY <1>2, <2>2, <3>1 DEF SuggestionsOK
    <3>3. QED
      BY <3>1, <3>2
  <2>3. CASE j \in DOMAIN suggestions /\ i \notin DOMAIN suggestions
    <3>1. j < i
      BY <1>2, <2>3
    <3>2. i \in Nat /\ j \in Nat
      BY <1>1, <1>2 DEF SuggestionTypes
    <3>3. QED
      BY <1>2, <3>1, <3>2
  <2>4. QED
    BY <2>1, <2>2, <2>3
<1>3. ASSUME NEW i \in DOMAIN suggestions'
      PROVE  <<"suggestion", i>> \in raced' \/ Followed(suggestions'[i])
  <2>1. CASE i \in DOMAIN suggestions
    <3>1. suggestions'[i] = suggestions[i]
      BY <2>1 DEF Extended
    <3>2. <<"suggestion", i>> \in raced \/ Followed(suggestions[i])
      BY <2>1 DEF SuggestionsOK
    <3>3. QED
      BY <3>1, <3>2
  <2>2. CASE i \notin DOMAIN suggestions
    BY <1>3, <2>2
  <2>3. QED
    BY <2>1, <2>2
<1>4. QED
  BY <1>1, <1>2, <1>3 DEF SuggestionsOK, Followed

\* A title that another process is about to suggest is marked.
LEMMA ClashMarks ==
  ASSUME NEW p \in Procs, NEW T, raced' = Clash(p, T), Already' \subseteq Already \cup T
  PROVE  /\ raced \subseteq raced'
         /\ \A q \in Procs \ {p} :
              pc[q] = "suggest" /\ plan[q].title \in Already' \ Already =>
                <<"title", plan[q].title>> \in raced'
<1>1. raced \subseteq raced'
  BY DEF Clash
<1>2. ASSUME NEW q \in Procs \ {p}, pc[q] = "suggest", plan[q].title \in Already' \ Already
      PROVE  <<"title", plan[q].title>> \in raced'
  <2>1. plan[q].title \in {u \in T : \E r \in Procs \ {p} : pc[r] = "suggest" /\ plan[r].title = u}
    BY <1>2
  <2>2. QED
    BY <2>1 DEF Clash
<1>3. QED
  BY <1>1, <1>2

\* A reflection that proposes within its transaction.
LEMMA ProposeStep ==
  ASSUME FrameOK, ObsOK, SuggestionsOK, \A q \in Procs : PlanOK(q), NEW p \in Procs,
         ReflectWrite(p) \/ ReflectClose(p)
  PROVE  SuggestionsOK' /\ \A q \in Procs : PlanOK(q)'
<1> DEFINE R == Proposed(Fresh)
<1>1. /\ suggestions' = R /\ raced' = Clash(p, Fresh) /\ UNCHANGED plan
      /\ Goto(p, "hygiene")
  BY DEF ReflectWrite, ReflectClose
<1>2. Fresh \in SUBSET Named /\ IsFiniteSet(Fresh) /\ Fresh \cap Already = {}
  BY FreshFinite
<1>3. SuggestionTypes
  BY DEF SuggestionsOK
<1>4. /\ Extended(R)
      /\ \A i \in DOMAIN R \ DOMAIN suggestions :
           /\ R[i].title \in Fresh /\ Followed(R[i])
           /\ \A j \in DOMAIN suggestions : j < i
      /\ \A i, j \in DOMAIN R \ DOMAIN suggestions : R[i].title = R[j].title => i = j
  BY <1>2, <1>3, Proposing
<1> HIDE DEF R
<1>5. ASSUME NEW i \in DOMAIN suggestions
      PROVE  R[i].title \in Already
  BY <1>4 DEF Extended, Already
<1>6. Already' \subseteq Already \cup Fresh
  BY <1>1, <1>4, <1>5 DEF Already
<1>7. /\ raced \subseteq raced'
      /\ \A q \in Procs \ {p} :
           pc[q] = "suggest" /\ plan[q].title \in Already' \ Already =>
             <<"title", plan[q].title>> \in raced'
  BY <1>1, <1>6, ClashMarks
<1>8. ASSUME NEW j \in DOMAIN R \ DOMAIN suggestions, NEW i \in DOMAIN R,
             i < j, R[i].title = R[j].title
      PROVE  FALSE
  <2>1. CASE i \in DOMAIN suggestions
    BY <1>2, <1>4, <1>5, <1>8, <2>1
  <2>2. CASE i \notin DOMAIN suggestions
    <3>1. i = j
      BY <1>4, <1>8, <2>2
    <3>2. i \in Nat
      BY <1>4, <1>8 DEF Extended
    <3>3. QED
      BY <1>8, <3>1, <3>2
  <2>3. QED
    BY <2>1, <2>2
<1>9. SuggestionsOK'
  <2>1. Extended(suggestions')
    BY <1>1, <1>4
  <2>2. \A i \in DOMAIN suggestions' \ DOMAIN suggestions :
          Followed(suggestions'[i]) /\ \A j \in DOMAIN suggestions : j < i
    BY <1>1, <1>4
  <2>3. \A j \in DOMAIN suggestions' \ DOMAIN suggestions :
          \A i \in DOMAIN suggestions' :
            i < j /\ suggestions'[i].title = suggestions'[j].title
              => <<"title", suggestions'[i].title>> \in raced'
    BY <1>1, <1>8
  <2>4. QED
    BY <1>7, <2>1, <2>2, <2>3, SuggestionsGrow
<1>10. /\ \A q \in Procs \ {p} : pc'[q] = pc[q] /\ plan'[q] = plan[q]
       /\ pc'[p] \notin {"suggest", "decide"}
  BY <1>1 DEF Goto, FrameOK, ProcTypes
<1>11. Extended(suggestions')
  BY <1>1, <1>4
<1>12. \A q \in Procs : PlanOK(q)'
  BY <1>7, <1>10, <1>11, PlansKept
<1>13. QED
  BY <1>9, <1>12

\* A reflection that has looked for its first title before its transaction.
LEMMA UnseenStep ==
  ASSUME FrameOK, ObsOK, SuggestionsOK, \A q \in Procs : PlanOK(q), NEW p \in Procs,
         ReflectSuggest(p)
  PROVE  SuggestionsOK' /\ \A q \in Procs : PlanOK(q)'
<1> DEFINE title == plan[p].title
           S == Fresh \ {title}
           R == Proposed(S)
           last == [title |-> title, status |-> "proposed", past |-> {}]
           W == Append(R, last)
<1>1. /\ suggestions' = W /\ raced' = Clash(p, Fresh \cup {title}) /\ UNCHANGED plan
      /\ Goto(p, "hygiene") /\ pc[p] = "suggest"
  BY DEF ReflectSuggest
<1>2. Fresh \in SUBSET Named /\ IsFiniteSet(Fresh) /\ Fresh \cap Already = {}
  BY FreshFinite
<1>3. S \in SUBSET Named /\ S \subseteq Fresh /\ title \notin S
  BY <1>2
<1>4. IsFiniteSet(S)
  BY <1>2, FS_Subset
<1>5. title \in Named /\ (title \in Already => <<"title", title>> \in raced)
  BY <1>1 DEF PlanOK
<1>6. SuggestionTypes
  BY DEF SuggestionsOK
<1> HIDE DEF S, title
<1>7. /\ Extended(R)
      /\ \A i \in DOMAIN R \ DOMAIN suggestions :
           /\ R[i].title \in S /\ Followed(R[i])
           /\ \A j \in DOMAIN suggestions : j < i
      /\ \A i, j \in DOMAIN R \ DOMAIN suggestions : R[i].title = R[j].title => i = j
  BY <1>3, <1>4, <1>6, Proposing
<1> HIDE DEF R
<1>8. last \in Suggestion /\ last.title = title /\ Followed(last)
  BY <1>5 DEF Suggestion, Followed
<1>9. R \in Seq(Suggestion) /\ Len(R) \in Nat /\ DOMAIN R = 1 .. Len(R)
  BY <1>7 DEF Extended
<1> HIDE DEF last
<1>10. /\ W \in Seq(Suggestion) /\ DOMAIN W = 1 .. Len(R) + 1
       /\ \A i \in 1 .. Len(R) : W[i] = R[i]
       /\ W[Len(R) + 1] = last
  BY <1>8, <1>9
<1> DEFINE n == Len(R) + 1
<1>11. /\ n \in Nat /\ n \notin DOMAIN R /\ DOMAIN W = DOMAIN R \cup {n}
       /\ \A i \in DOMAIN R : W[i] = R[i] /\ i < n
       /\ W[n] = last
  BY <1>9, <1>10
<1> HIDE DEF W, n
<1>12. Extended(W)
  BY <1>7, <1>10, <1>11 DEF Extended
<1>13. ASSUME NEW i \in DOMAIN suggestions
       PROVE  /\ W[i].title \in Already /\ i \in DOMAIN R /\ i < n
  BY <1>7, <1>11, <1>12 DEF Extended, Already
<1>14. ASSUME NEW i \in DOMAIN W
       PROVE  W[i].title \in Already \cup S \cup {title}
  <2>1. CASE i \in DOMAIN suggestions
    BY <1>13, <2>1
  <2>2. CASE i \in DOMAIN R \ DOMAIN suggestions
    BY <1>7, <1>11, <2>2
  <2>3. CASE i = n
    BY <1>8, <1>11, <2>3
  <2>4. QED
    BY <1>11, <1>14, <2>1, <2>2, <2>3
<1>15. Already' \subseteq Already \cup (Fresh \cup {title})
  <2>1. Already' = {W[i].title : i \in DOMAIN W}
    BY <1>1 DEF Already
  <2>2. QED
    BY <1>3, <1>14, <2>1
<1>16. /\ raced \subseteq raced'
       /\ \A q \in Procs \ {p} :
            pc[q] = "suggest" /\ plan[q].title \in Already' \ Already =>
              <<"title", plan[q].title>> \in raced'
  BY <1>1, <1>15, ClashMarks
<1>17. ASSUME NEW j \in DOMAIN W \ DOMAIN suggestions, NEW i \in DOMAIN W,
              i < j, W[i].title = W[j].title
       PROVE  <<"title", W[i].title>> \in raced'
  <2>1. CASE j = n
    <3>1. W[j].title = title /\ i # n
      BY <1>8, <1>11, <1>17, <2>1
    <3>2. i \in DOMAIN suggestions
      <4>1. i \in DOMAIN R
        BY <1>11, <1>17, <3>1
      <4>2. ASSUME i \notin DOMAIN suggestions
            PROVE  FALSE
        <5>1. W[i].title \in S
          BY <1>7, <1>11, <4>1, <4>2
        <5>2. QED
          BY <1>3, <1>17, <3>1, <5>1
      <4>3. QED
        BY <4>2
    <3>3. title \in Already
      BY <1>13, <1>17, <3>1, <3>2
    <3>4. QED
      BY <1>5, <1>16, <1>17, <3>1, <3>3
  <2>2. CASE j \in DOMAIN R
    <3>1. W[j].title \in S
      BY <1>7, <1>11, <1>17, <2>2
    <3>2. i # n
      <4>1. j \in Nat /\ j < n
        BY <1>9, <1>11, <2>2
      <4>2. QED
        BY <1>11, <1>17, <4>1
    <3>3. CASE i \in DOMAIN suggestions
      <4>1. W[i].title \in Already
        BY <1>13, <3>3
      <4>2. QED
        BY <1>2, <1>3, <1>17, <3>1, <4>1
    <3>4. CASE i \notin DOMAIN suggestions
      <4>1. i \in DOMAIN R \ DOMAIN suggestions /\ j \in DOMAIN R \ DOMAIN suggestions
        BY <1>11, <1>17, <2>2, <3>2, <3>4
      <4>2. R[i].title = R[j].title
        BY <1>11, <1>17, <4>1
      <4>3. i = j /\ i \in Nat
        BY <1>7, <1>9, <4>1, <4>2
      <4>4. QED
        BY <1>17, <4>3
    <3>5. QED
      BY <3>3, <3>4
  <2>3. QED
    BY <1>11, <1>17, <2>1, <2>2
<1>18. ASSUME NEW i \in DOMAIN W \ DOMAIN suggestions
       PROVE  Followed(W[i]) /\ \A j \in DOMAIN suggestions : j < i
  <2>1. CASE i = n
    BY <1>8, <1>11, <1>13, <2>1
  <2>2. CASE i \in DOMAIN R
    BY <1>7, <1>11, <1>18, <2>2
  <2>3. QED
    BY <1>11, <1>18, <2>1, <2>2
<1>19. SuggestionsOK'
  <2>1. Extended(suggestions')
    BY <1>1, <1>12
  <2>2. \A i \in DOMAIN suggestions' \ DOMAIN suggestions :
          Followed(suggestions'[i]) /\ \A j \in DOMAIN suggestions : j < i
    BY <1>1, <1>18
  <2>3. \A j \in DOMAIN suggestions' \ DOMAIN suggestions :
          \A i \in DOMAIN suggestions' :
            i < j /\ suggestions'[i].title = suggestions'[j].title
              => <<"title", suggestions'[i].title>> \in raced'
    BY <1>1, <1>17
  <2>4. QED
    BY <1>16, <2>1, <2>2, <2>3, SuggestionsGrow
<1>20. /\ \A q \in Procs \ {p} : pc'[q] = pc[q] /\ plan'[q] = plan[q]
       /\ pc'[p] \notin {"suggest", "decide"}
  BY <1>1 DEF Goto, FrameOK, ProcTypes
<1>21. Extended(suggestions')
  BY <1>1, <1>12
<1>22. \A q \in Procs : PlanOK(q)'
  BY <1>16, <1>20, <1>21, PlansKept
<1>23. QED
  BY <1>19, <1>22

\* Processes that keep their place, while nothing is decided and nobody else
\* begins to decide.
LEMMA PlansQuiet ==
  ASSUME SuggestionsOK, \A q \in Procs : PlanOK(q), UNCHANGED suggestions,
         raced \subseteq raced', NEW Q \in SUBSET Procs,
         \A q \in Q : pc'[q] \in {"suggest", "decide"} => pc'[q] = pc[q] /\ plan'[q] = plan[q],
         \A q \in Procs : pc'[q] = "decide" => pc[q] = "decide" /\ plan'[q] = plan[q]
  PROVE  SuggestionsOK' /\ \A q \in Q : PlanOK(q)'
<1>1. SuggestionsOK'
  <2>1. \A i \in DOMAIN suggestions :
          <<"suggestion", i>> \in raced' \/ Followed(suggestions[i])
    BY DEF SuggestionsOK
  <2>2. \A i, j \in DOMAIN suggestions :
          i < j /\ suggestions[i].title = suggestions[j].title
            => <<"title", suggestions[i].title>> \in raced'
    BY DEF SuggestionsOK
  <2>3. SuggestionTypes'
    BY DEF SuggestionsOK, SuggestionTypes
  <2>4. QED
    BY <2>1, <2>2, <2>3 DEF SuggestionsOK, Followed
<1>2. Already' = Already
  BY DEF Already
<1>3. ASSUME NEW q \in Q
      PROVE  PlanOK(q)'
  <2>1. CASE pc'[q] = "suggest"
    <3>1. pc[q] = "suggest" /\ plan'[q] = plan[q]
      BY <2>1
    <3>2. /\ plan[q].title \in Named
          /\ plan[q].title \in Already => <<"title", plan[q].title>> \in raced
      BY <3>1 DEF PlanOK
    <3>3. QED
      BY <1>2, <2>1, <3>1, <3>2 DEF PlanOK
  <2>2. CASE pc'[q] = "decide"
    <3> DEFINE i == plan[q].id
    <3>1. pc[q] = "decide" /\ plan'[q] = plan[q]
      BY <2>2
    <3>2. /\ i \in DOMAIN suggestions /\ plan[q].status \in Statuses
          /\ \/ <<"suggestion", i>> \in raced
             \/ MayBecome(suggestions[i].status, plan[q].status)
          /\ \A r \in Procs \ {q} : pc[r] = "decide" /\ plan[r].id = i =>
               <<"suggestion", i>> \in raced
      BY <3>1 DEF PlanOK
    <3>3. \A r \in Procs \ {q} : pc'[r] = "decide" /\ plan'[r].id = i =>
            <<"suggestion", i>> \in raced'
      BY <3>2
    <3>4. QED
      BY <2>2, <3>1, <3>2, <3>3 DEF PlanOK
  <2>3. CASE pc'[q] \notin {"suggest", "decide"}
    BY <2>3 DEF PlanOK
  <2>4. QED
    BY <2>1, <2>2, <2>3
<1>4. QED
  BY <1>1, <1>3

\* A reflection looks for a title to suggest.
LEMMA LookStep ==
  ASSUME FrameOK, plan \in [Procs -> Plans], ObsOK, SuggestionsOK,
         \A q \in Procs : PlanOK(q), NEW p \in Procs, ReflectScan(p)
  PROVE  SuggestionsOK' /\ \A q \in Procs : PlanOK(q)'
<1>1. /\ UNCHANGED <<suggestions, raced>>
      /\ \A q \in Procs \ {p} : pc'[q] = pc[q] /\ plan'[q] = plan[q]
      /\ pc'[p] # "decide"
      /\ pc'[p] = "suggest" => \E t \in Fresh : plan'[p].title = t
  <2> USE DEF Goto, FrameOK, ProcTypes
  <2>1. UNCHANGED <<suggestions, raced>>
    BY DEF ReflectScan
  <2>2. ASSUME NEW x, plan' = [plan EXCEPT ![p] = x]
        PROVE  plan'[p] = x /\ \A q \in Procs \ {p} : plan'[q] = plan[q]
    BY <2>2
  <2>3. /\ \A q \in Procs \ {p} : pc'[q] = pc[q]
        /\ pc'[p] # "decide"
    BY DEF ReflectScan
  <2>4. pc'[p] = "suggest" =>
          \E t \in Fresh : plan' = [plan EXCEPT ![p] = [NoPlan EXCEPT !.title = t]]
    BY DEF ReflectScan
  <2>5. \A t : [NoPlan EXCEPT !.title = t].title = t
    BY DEF NoPlan
  <2>6. ASSUME pc'[p] = "suggest"
        PROVE  \E t \in Fresh : plan'[p].title = t
    <3>1. PICK t \in Fresh : plan' = [plan EXCEPT ![p] = [NoPlan EXCEPT !.title = t]]
      BY <2>4, <2>6
    <3>2. plan'[p] = [NoPlan EXCEPT !.title = t]
      BY <2>2, <3>1
    <3>3. QED
      BY <2>5, <3>2
  <2>7. UNCHANGED plan \/ \E x : plan' = [plan EXCEPT ![p] = x]
    BY DEF ReflectScan
  <2>8. QED
    BY <2>1, <2>2, <2>3, <2>6, <2>7
<1>2. SuggestionsOK' /\ \A q \in Procs \ {p} : PlanOK(q)'
  <2>1. \A q \in Procs : pc'[q] = "decide" => pc[q] = "decide" /\ plan'[q] = plan[q]
    BY <1>1
  <2>2. \A q \in Procs \ {p} :
          pc'[q] \in {"suggest", "decide"} => pc'[q] = pc[q] /\ plan'[q] = plan[q]
    BY <1>1
  <2>3. Procs \ {p} \in SUBSET Procs
    OBVIOUS
  <2>4. QED
    BY <1>1, <2>1, <2>2, <2>3, PlansQuiet
<1>3. PlanOK(p)'
  <2>1. Fresh \in SUBSET Named /\ Fresh \cap Already = {}
    BY FreshFinite
  <2>2. Already' = Already
    BY <1>1 DEF Already
  <2>3. QED
    BY <1>1, <2>1, <2>2 DEF PlanOK
<1>4. QED
  BY <1>2, <1>3

\* A decision is prepared.
LEMMA DecideReadStep ==
  ASSUME FrameOK, plan \in [Procs -> Plans], SuggestionsOK, \A q \in Procs : PlanOK(q),
         NEW p \in Procs, DecideRead(p)
  PROVE  SuggestionsOK' /\ \A q \in Procs : PlanOK(q)'
<1> USE DEF Goto, End, FrameOK, ProcTypes
<1>1. UNCHANGED suggestions
  BY DEF DecideRead
<1>2. \/ End(p, FALSE) /\ UNCHANGED <<plan, raced>>
      \/ \E i \in DOMAIN suggestions, s \in Statuses :
           /\ MayBecome(suggestions[i].status, s)
           /\ plan' = [plan EXCEPT ![p] = [NoPlan EXCEPT !.id = i, !.status = s]]
           /\ raced' = IF \E q \in Procs \ {p} : pc[q] = "decide" /\ plan[q].id = i
                       THEN raced \cup {<<"suggestion", i>>} ELSE raced
           /\ Goto(p, "decide")
  BY DEF DecideRead, Statuses
<1>3. CASE End(p, FALSE) /\ UNCHANGED <<plan, raced>>
  <2>1. \A q \in Procs : pc'[q] \in {"suggest", "decide"} => pc'[q] = pc[q] /\ plan'[q] = plan[q]
    BY <1>3
  <2>2. \A q \in Procs : pc'[q] = "decide" => pc[q] = "decide" /\ plan'[q] = plan[q]
    BY <2>1
  <2>3. Procs \in SUBSET Procs /\ raced \subseteq raced'
    BY <1>3
  <2>4. QED
    BY <1>1, <2>1, <2>2, <2>3, PlansQuiet
<1>4. ASSUME NEW i \in DOMAIN suggestions, NEW s \in Statuses,
             MayBecome(suggestions[i].status, s),
             plan' = [plan EXCEPT ![p] = [NoPlan EXCEPT !.id = i, !.status = s]],
             raced' = IF \E q \in Procs \ {p} : pc[q] = "decide" /\ plan[q].id = i
                      THEN raced \cup {<<"suggestion", i>>} ELSE raced,
             Goto(p, "decide")
      PROVE  SuggestionsOK' /\ \A q \in Procs : PlanOK(q)'
  <2>1. raced \subseteq raced'
    BY <1>4
  <2>2. \A q \in Procs \ {p} : pc'[q] = pc[q] /\ plan'[q] = plan[q]
    BY <1>4
  <2>3. pc'[p] = "decide" /\ plan'[p].id = i /\ plan'[p].status = s
    BY <1>4 DEF NoPlan
  <2>4. \A q \in Procs \ {p} : pc[q] = "decide" /\ plan[q].id = i =>
          <<"suggestion", i>> \in raced'
    BY <1>4
  <2>5. SuggestionsOK'
    <3>1. SuggestionTypes'
      BY <1>1 DEF SuggestionsOK, SuggestionTypes
    <3>2. QED
      BY <1>1, <2>1, <3>1 DEF SuggestionsOK, Followed
  <2>6. PlanOK(p)'
    BY <1>1, <1>4, <2>2, <2>3, <2>4 DEF PlanOK
  <2>7. ASSUME NEW q \in Procs \ {p}
        PROVE  PlanOK(q)'
    <3>1. pc'[q] = pc[q] /\ plan'[q] = plan[q] /\ Already' = Already
      BY <1>1, <2>2 DEF Already
    <3>2. CASE pc[q] = "suggest"
      BY <2>1, <3>1, <3>2 DEF PlanOK
    <3>3. CASE pc[q] = "decide"
      <4> DEFINE j == plan[q].id
      <4>1. /\ j \in DOMAIN suggestions /\ plan[q].status \in Statuses
            /\ \/ <<"suggestion", j>> \in raced
               \/ MayBecome(suggestions[j].status, plan[q].status)
            /\ \A r \in Procs \ {q} : pc[r] = "decide" /\ plan[r].id = j =>
                 <<"suggestion", j>> \in raced
        BY <3>3 DEF PlanOK
      <4>2. \A r \in Procs \ {q} : pc'[r] = "decide" /\ plan'[r].id = j =>
              <<"suggestion", j>> \in raced'
        BY <2>1, <2>2, <2>3, <2>4, <3>3, <4>1
      <4>3. QED
        BY <1>1, <2>1, <3>1, <3>3, <4>1, <4>2 DEF PlanOK
    <3>4. CASE pc[q] \notin {"suggest", "decide"}
      BY <3>1, <3>4 DEF PlanOK
    <3>5. QED
      BY <3>2, <3>3, <3>4
  <2>8. QED
    BY <2>5, <2>6, <2>7
<1>5. QED
  BY <1>2, <1>3, <1>4

\* A decision is written.
LEMMA DecideWriteStep ==
  ASSUME FrameOK, plan \in [Procs -> Plans], SuggestionsOK, \A q \in Procs : PlanOK(q),
         NEW p \in Procs, DecideWrite(p)
  PROVE  SuggestionsOK' /\ \A q \in Procs : PlanOK(q)'
<1> DEFINE i == plan[p].id
           s == plan[p].status
           new == [suggestions[i] EXCEPT !.status = s, !.past = @ \cup {s}]
<1>1. /\ suggestions' = [suggestions EXCEPT ![i].status = s, ![i].past = @ \cup {s}]
      /\ plan' = [plan EXCEPT ![p] = NoPlan] /\ End(p, TRUE) /\ UNCHANGED raced
      /\ pc[p] = "decide"
  BY DEF DecideWrite
<1>2. /\ i \in DOMAIN suggestions /\ s \in Statuses
      /\ <<"suggestion", i>> \in raced \/ MayBecome(suggestions[i].status, s)
      /\ \A q \in Procs \ {p} : pc[q] = "decide" /\ plan[q].id = i =>
           <<"suggestion", i>> \in raced
  BY <1>1 DEF PlanOK
<1>3. suggestions \in Seq(Suggestion)
  BY DEF SuggestionsOK, SuggestionTypes
<1>4. suggestions[i] \in Suggestion
  BY <1>2, <1>3
<1> HIDE DEF i, s
<1>5. /\ new \in Suggestion /\ new.title = suggestions[i].title
      /\ new.status = s /\ new.past = suggestions[i].past \cup {s}
  BY <1>2, <1>4 DEF Suggestion
<1>6. suggestions' = [suggestions EXCEPT ![i] = new]
  <2>1. [suggestions EXCEPT ![i].status = s, ![i].past = @ \cup {s}]
          = [suggestions EXCEPT ![i] = new]
    BY <1>2, <1>4 DEF Suggestion
  <2>2. QED
    BY <1>1, <2>1
<1> HIDE DEF new
<1>7. /\ suggestions' \in Seq(Suggestion) /\ DOMAIN suggestions' = DOMAIN suggestions
      /\ suggestions'[i] = new
      /\ \A j \in DOMAIN suggestions : j # i => suggestions'[j] = suggestions[j]
  BY <1>2, <1>3, <1>5, <1>6
<1>8. \A j \in DOMAIN suggestions : suggestions'[j].title = suggestions[j].title
  BY <1>5, <1>7
<1>9. Already' = Already
  BY <1>7, <1>8 DEF Already
<1>10. <<"suggestion", i>> \in raced \/ Followed(new)
  <2>1. CASE MayBecome(suggestions[i].status, s) /\ Followed(suggestions[i])
    BY <1>2, <1>5, <2>1 DEF MayBecome, Followed, Statuses
  <2>2. CASE <<"suggestion", i>> \in raced
    BY <2>2
  <2>3. <<"suggestion", i>> \in raced \/ Followed(suggestions[i])
    BY <1>2 DEF SuggestionsOK
  <2>4. QED
    BY <1>2, <2>1, <2>2, <2>3
<1>11. SuggestionsOK'
  <2>1. SuggestionTypes'
    BY <1>7 DEF SuggestionTypes
  <2>2. \A j, k \in DOMAIN suggestions' :
          j < k /\ suggestions'[j].title = suggestions'[k].title
            => <<"title", suggestions'[j].title>> \in raced'
    BY <1>1, <1>7, <1>8 DEF SuggestionsOK
  <2>3. \A j \in DOMAIN suggestions' :
          <<"suggestion", j>> \in raced' \/ Followed(suggestions'[j])
    BY <1>1, <1>7, <1>10 DEF SuggestionsOK
  <2>4. QED
    BY <2>1, <2>2, <2>3 DEF SuggestionsOK, Followed
<1>12. /\ \A q \in Procs \ {p} : pc'[q] = pc[q] /\ plan'[q] = plan[q]
       /\ pc'[p] = "end"
  BY <1>1 DEF End, FrameOK, ProcTypes
<1>13. ASSUME NEW q \in Procs
       PROVE  PlanOK(q)'
  <2>1. CASE q = p
    BY <1>12, <2>1 DEF PlanOK
  <2>2. CASE q # p /\ pc[q] = "suggest"
    <3>1. /\ plan[q].title \in Named
          /\ plan[q].title \in Already => <<"title", plan[q].title>> \in raced
      BY <2>2 DEF PlanOK
    <3>2. QED
      BY <1>1, <1>9, <1>12, <2>2, <3>1 DEF PlanOK
  <2>3. CASE q # p /\ pc[q] = "decide"
    <3> DEFINE j == plan[q].id
    <3>1. /\ j \in DOMAIN suggestions /\ plan[q].status \in Statuses
          /\ \/ <<"suggestion", j>> \in raced
             \/ MayBecome(suggestions[j].status, plan[q].status)
          /\ \A r \in Procs \ {q} : pc[r] = "decide" /\ plan[r].id = j =>
               <<"suggestion", j>> \in raced
      BY <2>3 DEF PlanOK
    <3>2. \A r \in Procs \ {q} : pc'[r] = "decide" /\ plan'[r].id = j =>
            <<"suggestion", j>> \in raced'
      BY <1>1, <1>12, <3>1
    <3>3. j = i => <<"suggestion", j>> \in raced
      BY <1>2, <2>3
    <3>4. <<"suggestion", j>> \in raced' \/ MayBecome(suggestions'[j].status, plan[q].status)
      BY <1>1, <1>7, <3>1, <3>3
    <3>5. QED
      BY <1>7, <1>12, <2>3, <3>1, <3>2, <3>4 DEF PlanOK
  <2>4. CASE q # p /\ pc[q] \notin {"suggest", "decide"}
    BY <1>12, <2>4 DEF PlanOK
  <2>5. QED
    BY <2>1, <2>2, <2>3, <2>4
<1>14. QED
  BY <1>11, <1>13

\* Suggestions stand, or are marked, in every step.
LEMMA SuggestStep ==
  ASSUME FrameOK, IdsOK, RouteTypes, plan \in [Procs -> Plans], ObsOK, InsightsOK,
         SuggestionsOK, \A q \in Procs : PlanOK(q), [Next]_vars
  PROVE  SuggestionsOK' /\ \A q \in Procs : PlanOK(q)'
<1>1. pc \in [Procs -> Points] /\ insights \in Seq(Insight) /\ SuggestionTypes
  BY DEF FrameOK, ProcTypes, InsightsOK, SuggestionsOK
<1>2. ASSUME UNCHANGED suggestions, raced \subseteq raced',
             \A q \in Procs : pc'[q] \in {"suggest", "decide"} =>
               pc'[q] = pc[q] /\ plan'[q] = plan[q]
      PROVE  SuggestionsOK' /\ \A q \in Procs : PlanOK(q)'
  <2>1. \A q \in Procs : pc'[q] = "decide" => pc[q] = "decide" /\ plan'[q] = plan[q]
    BY <1>2
  <2>2. Procs \in SUBSET Procs
    OBVIOUS
  <2>3. QED
    BY <1>2, <2>1, <2>2, PlansQuiet
<1>3. ASSUME NEW p \in Procs, MemorySteps(p)
      PROVE  SuggestionsOK' /\ \A q \in Procs : PlanOK(q)'
  <2>1. CASE ReflectWrite(p) \/ ReflectClose(p)
    BY <2>1, ProposeStep
  <2>2. CASE ReflectSuggest(p)
    BY <2>2, UnseenStep
  <2>3. CASE ReflectScan(p)
    BY <2>3, LookStep
  <2>4. CASE DecideRead(p)
    BY <2>4, DecideReadStep
  <2>5. CASE DecideWrite(p)
    BY <2>5, DecideWriteStep
  <2>6. CASE \/ ChatOpen(p) \/ ChatSay(p) \/ ChatExit(p) \/ LogRead(p) \/ LogNew(p)
             \/ LogWrite(p) \/ Purge(p) \/ ReflectRead(p) \/ Hygiene(p)
    <3>1. UNCHANGED suggestions /\ raced \subseteq raced'
      BY <2>6 DEF ChatOpen, ChatSay, ChatExit, LogRead, LogNew, LogWrite, Purge,
                  ReflectRead, Hygiene
    <3>2. pc'[p] \notin {"suggest", "decide"}
      BY <1>1, <2>6 DEF ChatOpen, ChatSay, ChatExit, LogRead, LogNew, LogWrite, Purge,
                        ReflectRead, Hygiene, Goto, End
    <3>3. \A q \in Procs \ {p} : pc'[q] = pc[q]
      BY <1>3, OwnStep DEF Steps
    <3>4. \A q \in Procs \ {p} : plan'[q] = plan[q]
      BY <1>1, <1>3, PlanMoves
    <3>5. QED
      BY <1>2, <3>1, <3>2, <3>3, <3>4
  <2>7. QED
    BY <1>3, <2>1, <2>2, <2>3, <2>4, <2>5, <2>6 DEF MemorySteps
<1>4. ASSUME NEW p \in Procs, Kill(p), MemoryKill(p)
      PROVE  SuggestionsOK' /\ \A q \in Procs : PlanOK(q)'
  <2>1. \A q \in Procs \ {p} : plan'[q] = plan[q]
    BY <1>1, <1>4, PlanMoves
  <2>2. UNCHANGED <<suggestions, raced>>
    BY <1>4 DEF MemoryKill
  <2>3. pc'[p] = "idle" /\ \A q \in Procs \ {p} : pc'[q] = pc[q]
    BY <1>1, <1>4 DEF Kill, Leave
  <2>4. QED
    BY <1>2, <2>1, <2>2, <2>3
<1>5. CASE MemoryAges
  <2>1. UNCHANGED <<suggestions, raced, plan, pc>>
    BY <1>5 DEF MemoryAges, procVars
  <2>2. QED
    BY <1>2, <2>1
<1>6. CASE /\ UNCHANGED memoryVars
           /\ \A q \in Procs : pc[q] \in MemPoints \/ pc'[q] \in MemPoints =>
                pc'[q] = pc[q] /\ text'[q] = text[q]
  <2>1. UNCHANGED <<suggestions, raced, plan>>
    BY <1>6 DEF memoryVars
  <2>2. \A q \in Procs : pc'[q] \in {"suggest", "decide"} => pc'[q] = pc[q]
    BY <1>6 DEF MemPoints, ReflectPoints
  <2>3. QED
    BY <1>2, <2>1, <2>2
<1>7. QED
  BY <1>3, <1>4, <1>5, <1>6, MemoryFrame

\* What is drawn from the conversations is consistent in every step.
LEMMA AdviceStep ==
  ASSUME FrameOK, IdsOK, RouteTypes, TurnInv, AdviceInv, [Next]_vars
  PROVE  AdviceInv'
<1>1. /\ plan \in [Procs -> Plans]
      /\ ObsOK /\ InsightsOK /\ SuggestionsOK /\ \A p \in Procs : PlanOK(p)
  BY DEF AdviceInv
<1>2. ObsOK'
  BY <1>1, ObsStep
<1>3. plan' \in [Procs -> Plans] /\ InsightsOK'
  BY <1>1, InsightStep DEF SuggestionsOK
<1>4. SuggestionsOK' /\ \A q \in Procs : PlanOK(q)'
  BY <1>1, SuggestStep
<1>5. QED
  BY <1>2, <1>3, <1>4 DEF AdviceInv

-----------------------------------------------------------------------------
(* Standing rules.                                                         *)

RulesOK == rules \in Seq(Range(rules))

\* A sequence is one of what is in it.
LEMMA SeqOfItems ==
  ASSUME NEW S, NEW s \in Seq(S)
  PROVE  s \in Seq(Range(s))
<1> DEFINE n == Len(s)
           T == Range(s)
<1>1. s \in [1 .. n -> S] /\ n \in Nat /\ DOMAIN s = 1 .. n
  OBVIOUS
<1>2. s = [i \in 1 .. n |-> s[i]] /\ \A i \in 1 .. n : s[i] \in T
  BY <1>1 DEF Range
<1> HIDE DEF n, T
<1>3. s \in [1 .. n -> T]
  BY <1>2
<1>4. s \in Seq(T)
  BY <1>1, <1>3
<1>5. QED
  BY <1>4 DEF T

\* The standing rules are changed by commands on them only: one is added, or
\* one is removed.
LEMMA RulesMove ==
  ASSUME [Next]_vars
  PROVE  \/ UNCHANGED rules
         \/ \E r : rules' = Append(rules, r)
         \/ \E id : RemoveRule(id)
<1>1. ASSUME NEW p \in Procs, RouterSteps(p)
      PROVE  \/ UNCHANGED rules
             \/ \E r : AddRule(r)
             \/ \E id : RemoveRule(id)
  <2>1. CASE DoConfigure(p)
    BY <2>1 DEF DoConfigure, ExecuteIntent, configVars
  <2>2. CASE Rule(p)
    BY <2>2 DEF Rule
  <2>3. CASE \/ DoAsk(p) \/ DoDecline(p) \/ DoConfigureFails(p) \/ DoRoute(p) \/ DoLook(p)
             \/ DoAct(p) \/ DoStart(p) \/ DoStartCut(p) \/ DoRecord(p) \/ DoFails(p)
             \/ Feedback(p)
    BY <2>3 DEF DoAsk, DoDecline, DoConfigureFails, DoRoute, DoLook, DoAct, DoStart,
                DoStartCut, StartRun, DoRecord, DoFails, Feedback, configVars
  <2>4. QED
    BY <1>1, <2>1, <2>2, <2>3 DEF RouterSteps, DoSteps
<1>2. ASSUME NEW r, AddRule(r)
      PROVE  rules' = Append(rules, r)
  BY <1>2 DEF AddRule
<1>3. ASSUME NEW p \in Procs, MemorySteps(p)
      PROVE  UNCHANGED rules
  BY <1>3 DEF MemorySteps, ChatOpen, ChatSay, ChatExit, LogRead, LogNew, LogWrite, Purge,
              ReflectRead, ReflectWrite, ReflectScan, ReflectClose, ReflectSuggest,
              Hygiene, DecideRead, DecideWrite, routerVars, configVars
<1>4. CASE MemoryAges \/ UNCHANGED routerVars \/ UNCHANGED vars
  BY <1>4 DEF MemoryAges, vars, routerVars, configVars
<1>5. ASSUME NEW p \in Procs, RequestOver(p)
      PROVE  UNCHANGED rules
  BY <1>5 DEF RequestOver, configVars
<1>6. QED
  BY <1>1, <1>2, <1>3, <1>4, <1>5 DEF Next

\* They stay a sequence.
LEMMA RulesStep ==
  ASSUME RulesOK, [Next]_vars
  PROVE  RulesOK'
<1> DEFINE n == Len(rules)
<1>1. n \in Nat /\ DOMAIN rules = 1 .. n /\ rules = [i \in 1 .. n |-> rules[i]]
  BY DEF RulesOK
<1>2. ASSUME NEW r, rules' = Append(rules, r)
      PROVE  RulesOK'
  <2> DEFINE S == Range(rules) \cup {r}
  <2>1. \A i \in 1 .. n : rules[i] \in S
    BY <1>1 DEF Range
  <2>2. r \in S
    OBVIOUS
  <2> HIDE DEF S, n
  <2>3. rules \in [1 .. n -> S]
    BY <1>1, <2>1
  <2>4. rules \in Seq(S)
    BY <1>1, <2>3
  <2>5. rules' \in Seq(S)
    BY <1>2, <2>2, <2>4
  <2>6. QED
    BY <2>5, SeqOfItems DEF RulesOK
<1>3. ASSUME NEW id, RemoveRule(id)
      PROVE  RulesOK'
  <2> DEFINE S == Range(rules) \cup {NoConfig}
  <2>1. \A i \in 1 .. n : rules[i] \in S
    BY <1>1 DEF Range
  <2>2. NoConfig \in S
    OBVIOUS
  <2> HIDE DEF S
  <2>3. rules' \in [1 .. n -> S]
    BY <1>1, <1>3, <2>1, <2>2 DEF RemoveRule
  <2>4. rules' \in Seq(S)
    BY <1>1, <2>3
  <2>5. QED
    BY <2>4, SeqOfItems DEF RulesOK
<1>4. CASE UNCHANGED rules
  BY <1>4 DEF RulesOK
<1>5. QED
  BY <1>2, <1>3, <1>4, RulesMove

\* A rule c of R goes before all others of a set F.
Foremost(R, F, c) == c \in F /\ \A j \in F \ {c} : Precedes(R, c, j)

\* The newest of those that say when they apply, or else the newest.
LEMMA HasForemost ==
  ASSUME NEW R, NEW F \in SUBSET Nat, IsFiniteSet(F), F # {}
  PROVE  \E c \in F : Foremost(R, F, c)
<1> DEFINE S == {j \in F : Specific(R[j])}
<1>1. PICK T \in SUBSET F : /\ T = IF S # {} THEN S ELSE F
  OBVIOUS
<1>2. T # {} /\ IsFiniteSet(T) /\ T \in SUBSET Nat
  BY <1>1, FS_Subset
<1>3. PICK m \in T : \A k \in T : k <= m
  BY <1>2, Greatest
<1>4. ASSUME NEW j \in F \ {m}
      PROVE  Precedes(R, m, j)
  <2>1. m \in Nat /\ j \in Nat
    BY <1>2
  <2>2. CASE j \in T
    <3>1. m > j
      BY <1>3, <1>4, <2>1, <2>2
    <3>2. Specific(R[m]) = Specific(R[j])
      BY <1>1, <1>3, <2>2 DEF Specific
    <3>3. QED
      BY <3>1, <3>2 DEF Precedes
  <2>3. CASE j \notin T
    <3>1. Specific(R[m]) /\ ~Specific(R[j])
      BY <1>1, <1>3, <1>4, <2>3
    <3>2. QED
      BY <3>1 DEF Precedes
  <2>4. QED
    BY <2>2, <2>3
<1>5. QED
  BY <1>3, <1>4 DEF Foremost

\* Two foremost rules, of two sets that share them, are one.
LEMMA OneForemost ==
  ASSUME NEW R, NEW S, NEW F \in SUBSET Nat, NEW G \in SUBSET Nat,
         NEW c \in F \cap G, NEW d \in F \cap G,
         Foremost(R, F, c), Foremost(S, G, d), R[c] = S[c], R[d] = S[d]
  PROVE  c = d
<1> SUFFICES ASSUME c # d
             PROVE  FALSE
  OBVIOUS
<1>1. Precedes(R, c, d) /\ Precedes(S, d, c)
  BY DEF Foremost
<1>2. c \in Nat /\ d \in Nat
  OBVIOUS
<1>3. ~(c > d /\ d > c)
  BY <1>2
<1>4. QED
  BY <1>1, <1>3 DEF Precedes, Specific

\* The answer of the rules is that of the foremost that applies.
LEMMA ForemostAnswers ==
  ASSUME NEW R, NEW type, NEW payload, NEW c,
         Candidates(R, type, payload) \in SUBSET Nat,
         Foremost(R, Candidates(R, type, payload), c)
  PROVE  CheckRule(R, type, payload) = R[c].tier
<1> DEFINE F == Candidates(R, type, payload)
           first(k) == \A j \in F \ {k} : Precedes(R, k, j)
           d == CHOOSE k \in F : first(k)
<1>1. c \in F /\ first(c)
  BY DEF Foremost
<1>2. d \in F /\ first(d)
  BY <1>1
<1>3. CheckRule(R, type, payload) = R[d].tier
  <2>1. F # {}
    BY <1>1
  <2>2. QED
    BY <2>1 DEF CheckRule
<1>4. Foremost(R, F, d)
  BY <1>2 DEF Foremost
<1>5. c = d
  <2>1. F \in SUBSET Nat /\ c \in F \cap F /\ d \in F \cap F /\ Foremost(R, F, c)
    BY <1>1, <1>2
  <2> HIDE DEF F, d
  <2>2. QED
    BY <1>4, <2>1, OneForemost
<1>6. QED
  BY <1>3, <1>5

\* The rules that stand, and those of them that apply.
LEMMA Standing ==
  ASSUME RulesOK, NEW type, NEW payload
  PROVE  LET F == Candidates(StandingRules, type, payload)
         IN  /\ F \in SUBSET (1 .. Len(rules)) /\ F \in SUBSET Nat /\ IsFiniteSet(F)
             /\ \A i : i \in F <=> /\ i \in 1 .. Len(rules) /\ rules[i] # NoConfig
                                   /\ rules[i].type \in {type, "*"}
                                   /\ Fires(rules[i], payload)
             /\ \A i \in F : StandingRules[i] = rules[i]
<1> DEFINE F == Candidates(StandingRules, type, payload)
<1>1. Len(rules) \in Nat /\ DOMAIN rules = 1 .. Len(rules)
  BY DEF RulesOK
<1>2. /\ \A i : i \in F <=> /\ i \in 1 .. Len(rules) /\ rules[i] # NoConfig
                            /\ rules[i].type \in {type, "*"} /\ Fires(rules[i], payload)
      /\ \A i \in F : StandingRules[i] = rules[i]
  BY <1>1 DEF Candidates, StandingRules
<1>3. F \in SUBSET (1 .. Len(rules))
  BY <1>2
<1>4. IsFiniteSet(1 .. Len(rules))
  <2>1. 1 \in Int /\ Len(rules) \in Int
    BY <1>1
  <2>2. QED
    BY <2>1, FS_Interval
<1> HIDE DEF F
<1>5. F \in SUBSET Nat
  BY <1>1, <1>3
<1>6. IsFiniteSet(F)
  BY <1>3, <1>4, FS_Subset
<1>7. QED
  BY <1>2, <1>3, <1>5, <1>6 DEF F

\* The same after a step.
LEMMA StandingNext ==
  ASSUME RulesOK', NEW type, NEW payload
  PROVE  LET G == Candidates(StandingRules', type, payload)
         IN  /\ G \in SUBSET (1 .. Len(rules')) /\ G \in SUBSET Nat /\ IsFiniteSet(G)
             /\ \A i : i \in G <=> /\ i \in 1 .. Len(rules') /\ rules'[i] # NoConfig
                                   /\ rules'[i].type \in {type, "*"}
                                   /\ Fires(rules'[i], payload)
             /\ \A i \in G : StandingRules'[i] = rules'[i]
<1> DEFINE G == Candidates(StandingRules', type, payload)
<1>1. Len(rules') \in Nat /\ DOMAIN rules' = 1 .. Len(rules')
  BY DEF RulesOK
<1>2. /\ \A i : i \in G <=> /\ i \in 1 .. Len(rules') /\ rules'[i] # NoConfig
                            /\ rules'[i].type \in {type, "*"} /\ Fires(rules'[i], payload)
      /\ \A i \in G : StandingRules'[i] = rules'[i]
  BY <1>1 DEF Candidates, StandingRules
<1>3. G \in SUBSET (1 .. Len(rules'))
  BY <1>2
<1>4. IsFiniteSet(1 .. Len(rules'))
  <2>1. 1 \in Int /\ Len(rules') \in Int
    BY <1>1
  <2>2. QED
    BY <2>1, FS_Interval
<1> HIDE DEF G
<1>5. G \in SUBSET Nat
  BY <1>1, <1>3
<1>6. IsFiniteSet(G)
  BY <1>3, <1>4, FS_Subset
<1>7. QED
  BY <1>2, <1>3, <1>5, <1>6 DEF G

\* A rule whose answer counts, where those of F apply.
Outranks(F, r) == (\E j \in F : Specific(rules[j])) => Specific(r)

\* A rule that is added changes an answer only to its own.
LEMMA AddedPrevails ==
  ASSUME RulesOK, RulesOK', NEW r, rules' = Append(rules, r), NEW type, NEW payload,
         CheckRule(StandingRules, type, payload) # CheckRule(StandingRules', type, payload)
  PROVE  \E i \in DOMAIN rules' \ DOMAIN rules :
           /\ i \in Candidates(StandingRules', type, payload)
           /\ rules'[i].tier = CheckRule(StandingRules', type, payload)
           /\ Outranks(Candidates(StandingRules, type, payload), rules'[i])
<1> DEFINE R == StandingRules
           S == StandingRules'
           F == Candidates(StandingRules, type, payload)
           G == Candidates(StandingRules', type, payload)
           n == Len(rules)
<1>1. /\ n \in Nat /\ DOMAIN rules = 1 .. n /\ Len(rules') = n + 1
      /\ DOMAIN rules' = 1 .. n + 1 /\ \A i \in 1 .. n : rules'[i] = rules[i]
  BY DEF RulesOK
<1>2. /\ F \in SUBSET (1 .. n) /\ F \in SUBSET Nat /\ IsFiniteSet(F)
      /\ \A i : i \in F <=> /\ i \in 1 .. n /\ rules[i] # NoConfig
                            /\ rules[i].type \in {type, "*"} /\ Fires(rules[i], payload)
      /\ \A i \in F : R[i] = rules[i]
  BY Standing
<1>3. /\ G \in SUBSET (1 .. n + 1) /\ G \in SUBSET Nat /\ IsFiniteSet(G)
      /\ \A i : i \in G <=> /\ i \in 1 .. n + 1 /\ rules'[i] # NoConfig
                            /\ rules'[i].type \in {type, "*"} /\ Fires(rules'[i], payload)
      /\ \A i \in G : S[i] = rules'[i]
  BY <1>1, StandingNext
<1>4. CheckRule(R, type, payload) # CheckRule(S, type, payload)
  OBVIOUS
<1>5. /\ F = {} => CheckRule(R, type, payload) = "ask"
      /\ G = {} => CheckRule(S, type, payload) = "ask"
      /\ \A c : Foremost(R, F, c) => CheckRule(R, type, payload) = R[c].tier
      /\ \A c : Foremost(S, G, c) => CheckRule(S, type, payload) = S[c].tier
  <2>1. /\ F = {} => CheckRule(R, type, payload) = "ask"
        /\ G = {} => CheckRule(S, type, payload) = "ask"
    BY DEF CheckRule
  <2>2. \A c : Foremost(R, F, c) => CheckRule(R, type, payload) = R[c].tier
    BY <1>2, ForemostAnswers
  <2>3. \A c : Foremost(S, G, c) => CheckRule(S, type, payload) = S[c].tier
    BY <1>3, ForemostAnswers
  <2>4. QED
    BY <2>1, <2>2, <2>3
<1>6. \A i \in F : i \in G /\ R[i] = S[i] /\ i \in 1 .. n
  <2>1. \A i \in 1 .. n : i \in 1 .. n + 1
    BY <1>1
  <2>2. ASSUME NEW i \in F
        PROVE  i \in G /\ R[i] = S[i] /\ i \in 1 .. n
    <3>1. i \in 1 .. n /\ rules'[i] = rules[i] /\ i \in 1 .. n + 1
      BY <1>1, <1>2, <2>1
    <3>2. i \in G
      BY <1>2, <1>3, <3>1
    <3>3. QED
      BY <1>2, <1>3, <3>1, <3>2
  <2>3. QED
    BY <2>2
<1>7. \A i \in G \ {n + 1} : i \in F
  <2>1. \A i \in 1 .. n + 1 : i # n + 1 => i \in 1 .. n
    BY <1>1
  <2>2. QED
    BY <1>1, <1>2, <1>3, <2>1
<1> HIDE DEF R, S, F, G, n
<1>8. G # {}
  BY <1>4, <1>5, <1>6
<1>9. PICK d \in G : Foremost(S, G, d)
  BY <1>3, <1>8, HasForemost
<1>10. d = n + 1
  <2> SUFFICES ASSUME d # n + 1
               PROVE  FALSE
    OBVIOUS
  <2>1. d \in F \cap G
    BY <1>7, <1>9
  <2>2. PICK c \in F : Foremost(R, F, c)
    BY <1>2, <2>1, HasForemost
  <2>3. c \in F \cap G /\ R[c] = S[c] /\ R[d] = S[d]
    BY <1>6, <2>1, <2>2
  <2>4. c = d
    BY <1>2, <1>3, <1>9, <2>1, <2>2, <2>3, OneForemost
  <2>5. QED
    BY <1>4, <1>5, <1>9, <2>2, <2>3, <2>4
<1>11. S[d] = rules'[d] /\ CheckRule(S, type, payload) = rules'[d].tier
  BY <1>3, <1>5, <1>9
<1>12. Outranks(F, rules'[d])
  <2> SUFFICES ASSUME NEW j \in F, Specific(rules[j])
               PROVE  Specific(rules'[d])
    BY DEF Outranks
  <2>1. j \in G /\ j \in 1 .. n /\ R[j] = S[j] /\ R[j] = rules[j]
    BY <1>2, <1>6
  <2>2. j # d
    BY <1>1, <1>10, <2>1
  <2>3. Precedes(S, d, j) /\ Specific(S[j])
    BY <1>9, <2>1, <2>2 DEF Foremost
  <2>4. QED
    BY <1>11, <2>3 DEF Precedes
<1>13. d \in DOMAIN rules' \ DOMAIN rules
  BY <1>1, <1>10
<1>14. QED
  BY <1>9, <1>11, <1>12, <1>13 DEF F, G, S

\* A rule that is removed changes only the answers that were its own.
LEMMA RemovedPrevailed ==
  ASSUME RulesOK, RulesOK', NEW id, RemoveRule(id), NEW type, NEW payload,
         CheckRule(StandingRules, type, payload) # CheckRule(StandingRules', type, payload)
  PROVE  \E i \in Candidates(StandingRules, type, payload) :
           /\ rules'[i] = NoConfig
           /\ rules[i].tier = CheckRule(StandingRules, type, payload)
           /\ Outranks(Candidates(StandingRules, type, payload), rules[i])
<1> DEFINE R == StandingRules
           S == StandingRules'
           F == Candidates(StandingRules, type, payload)
           G == Candidates(StandingRules', type, payload)
           n == Len(rules)
<1>1. /\ n \in Nat /\ DOMAIN rules = 1 .. n /\ Len(rules') = n
      /\ \A i \in 1 .. n : rules'[i] = IF i = id THEN NoConfig ELSE rules[i]
  <2>1. n \in Nat /\ DOMAIN rules = 1 .. n
    BY DEF RulesOK
  <2>2. /\ DOMAIN rules' = 1 .. n
        /\ \A i \in 1 .. n : rules'[i] = IF i = id THEN NoConfig ELSE rules[i]
    BY <2>1 DEF RemoveRule
  <2>3. Len(rules') \in Nat /\ DOMAIN rules' = 1 .. Len(rules')
    BY DEF RulesOK
  <2>4. Len(rules') = n
    BY <2>1, <2>2, <2>3
  <2>5. QED
    BY <2>1, <2>2, <2>4
<1>2. /\ F \in SUBSET (1 .. n) /\ F \in SUBSET Nat /\ IsFiniteSet(F)
      /\ \A i : i \in F <=> /\ i \in 1 .. n /\ rules[i] # NoConfig
                            /\ rules[i].type \in {type, "*"} /\ Fires(rules[i], payload)
      /\ \A i \in F : R[i] = rules[i]
  BY Standing
<1>3. /\ G \in SUBSET (1 .. n) /\ G \in SUBSET Nat /\ IsFiniteSet(G)
      /\ \A i : i \in G <=> /\ i \in 1 .. n /\ rules'[i] # NoConfig
                            /\ rules'[i].type \in {type, "*"} /\ Fires(rules'[i], payload)
      /\ \A i \in G : S[i] = rules'[i]
  BY <1>1, StandingNext
<1>4. CheckRule(R, type, payload) # CheckRule(S, type, payload)
  OBVIOUS
<1>5. /\ F = {} => CheckRule(R, type, payload) = "ask"
      /\ G = {} => CheckRule(S, type, payload) = "ask"
      /\ \A c : Foremost(R, F, c) => CheckRule(R, type, payload) = R[c].tier
      /\ \A c : Foremost(S, G, c) => CheckRule(S, type, payload) = S[c].tier
  <2>1. /\ F = {} => CheckRule(R, type, payload) = "ask"
        /\ G = {} => CheckRule(S, type, payload) = "ask"
    BY DEF CheckRule
  <2>2. \A c : Foremost(R, F, c) => CheckRule(R, type, payload) = R[c].tier
    BY <1>2, ForemostAnswers
  <2>3. \A c : Foremost(S, G, c) => CheckRule(S, type, payload) = S[c].tier
    BY <1>3, ForemostAnswers
  <2>4. QED
    BY <2>1, <2>2, <2>3
<1>6. \A i \in G : i \in F /\ R[i] = S[i]
  BY <1>1, <1>2, <1>3
<1>7. \A i \in F \ {id} : i \in G
  BY <1>1, <1>2, <1>3
<1> HIDE DEF R, S, F, G, n
<1>8. F # {}
  BY <1>4, <1>5, <1>6
<1>9. PICK c \in F : Foremost(R, F, c)
  BY <1>2, <1>8, HasForemost
<1>10. c = id
  <2> SUFFICES ASSUME c # id
               PROVE  FALSE
    OBVIOUS
  <2>1. c \in F \cap G
    BY <1>7, <1>9
  <2>2. PICK d \in G : Foremost(S, G, d)
    BY <1>3, <2>1, HasForemost
  <2>3. d \in F \cap G /\ R[c] = S[c] /\ R[d] = S[d]
    BY <1>6, <2>1, <2>2
  <2>4. c = d
    BY <1>2, <1>3, <1>9, <2>1, <2>2, <2>3, OneForemost
  <2>5. QED
    BY <1>4, <1>5, <1>9, <2>2, <2>3, <2>4
<1>11. R[c] = rules[c] /\ CheckRule(R, type, payload) = rules[c].tier
  BY <1>2, <1>5, <1>9
<1>12. Outranks(F, rules[c])
  <2> SUFFICES ASSUME NEW j \in F, Specific(rules[j])
               PROVE  Specific(rules[c])
    BY DEF Outranks
  <2>1. R[j] = rules[j]
    BY <1>2
  <2>2. CASE j = c
    BY <2>2
  <2>3. CASE j # c
    <3>1. Precedes(R, c, j) /\ Specific(R[j])
      BY <1>9, <2>1, <2>3 DEF Foremost
    <3>2. QED
      BY <1>11, <3>1 DEF Precedes
  <2>4. QED
    BY <2>2, <2>3
<1>13. rules'[c] = NoConfig
  BY <1>1, <1>2, <1>9, <1>10
<1>14. QED
  BY <1>9, <1>11, <1>12, <1>13 DEF F, R

-----------------------------------------------------------------------------
(* What holds in every state.                                              *)

AssistantInv ==
  /\ FrameOK /\ TraceOK /\ CountOK
  /\ RequestInv /\ RulesOK
  /\ TurnInv /\ AdviceInv

\* At first there is at most one trace, and no command runs.
LEMMA StartTraces ==
  ASSUME Init
  PROVE  FrameOK /\ TraceOK /\ CountOK
<1>1. /\ meeting \in Meetings
      /\ pc = [p \in Procs |-> "idle"] /\ cmd = [p \in Procs |-> ""]
      /\ own = [p \in Procs |-> 0] /\ good = [p \in Procs |-> FALSE]
      /\ judged = {} /\ shared = {}
      /\ rollup = [o \in Outcomes |-> 0] /\ chosen = [p \in Procs |-> {}]
  BY DEF Init
<1>2. FrameOK
  BY <1>1 DEF FrameOK, ProcTypes, Points, Fits, DoPoints, ChatPoints, ReflectPoints
<1>3. 1 \in Traces /\ MaxTraces \in Nat
  BY TraceAssumption DEF Traces
<1>4. ASSUME NEW n \in Nat, n = 0 \/ n = 1, Live = 1 .. n, Begun = 1 .. n,
             trace \in [Traces -> Outcomes \cup {"none", "deleted"}],
             of \in [Traces -> CommandNames \cup {""}],
             linked \subseteq Begun, old \subseteq Begun
      PROVE  TraceOK /\ CountOK
  <2>1. Cardinality(1 .. n) = n
    <3>1. CASE n = 0
      <4>1. 1 .. 0 = {}
        OBVIOUS
      <4>2. QED
        BY <3>1, <4>1, FS_EmptySet
    <3>2. CASE n = 1
      <4>1. 1 .. 1 = {1}
        OBVIOUS
      <4>2. QED
        BY <3>2, <4>1, FS_Singleton
    <3>3. n = 0 \/ n = 1
      BY <1>4
    <3>4. QED
      BY <3>1, <3>2, <3>3
  <2>2. \A p \in Procs : chosen[p] = {}
    BY <1>1
  <2>3. Doubtful = {}
    BY <2>2 DEF Doubtful, Selected
  <2>4. rollup \in [Outcomes -> Nat] /\ RolledUp = 0
    <3>1. \A o \in Outcomes : rollup[o] = 0
      BY <1>1
    <3>2. rollup["running"] = 0 /\ rollup["completed"] = 0 /\ rollup["failed"] = 0
      BY <3>1 DEF Outcomes
    <3>3. rollup \in [Outcomes -> Nat]
      BY <1>1
    <3>4. QED
      BY <3>2, <3>3 DEF RolledUp
  <2>5. Cardinality(Doubtful) = 0 /\ Cardinality(shared) = 0
    BY <1>1, <2>3, FS_EmptySet
  <2>6. TraceTypes
    BY <1>1, <1>4, <2>4 DEF TraceTypes
  <2>7. IdsOK
    BY <1>4, <2>1, <2>2 DEF IdsOK, Selected
  <2>8. CountOK
    <3>1. Cardinality(Live) = n /\ Cardinality(Begun) = n
      <4>1. Live = 1 .. n /\ Begun = 1 .. n
        BY <1>4
      <4>2. Cardinality(Live) = Cardinality(1 .. n) /\ Cardinality(Begun) = Cardinality(1 .. n)
        BY ONLY <4>1
      <4>3. QED
        BY <2>1, <4>2
    <3>2. QED
      BY <2>4, <2>5, <3>1 DEF CountOK
  <2>9. QED
    BY <2>6, <2>7, <2>8 DEF TraceOK
<1>5. PICK c \in Before[meeting], o \in Outcomes, known \in BOOLEAN :
        IF c = ""
        THEN /\ trace = [t \in Traces |-> "none"]
             /\ of = [t \in Traces |-> ""]
             /\ linked = {} /\ old = {}
        ELSE /\ trace = [t \in Traces |-> IF t = 1 THEN o ELSE "none"]
             /\ of = [t \in Traces |-> IF t = 1 THEN c ELSE ""]
             /\ o # "running" => known
             /\ linked = IF known THEN {1} ELSE {}
             /\ old = {1}
  BY DEF Init
<1>6. CASE c = ""
  <2>1. Live = 1 .. 0 /\ Begun = 1 .. 0
    <3>1. \A t \in Traces : trace[t] = "none"
      BY <1>5, <1>6
    <3>2. Live = {} /\ Begun = {}
      BY <3>1 DEF Live, Begun, Outcomes
    <3>3. 1 .. 0 = {}
      OBVIOUS
    <3>4. QED
      BY <3>2, <3>3
  <2>2. /\ trace \in [Traces -> Outcomes \cup {"none", "deleted"}]
        /\ of \in [Traces -> CommandNames \cup {""}]
    BY <1>5, <1>6
  <2>3. linked = {} /\ old = {}
    BY <1>5, <1>6
  <2>4. QED
    BY <1>2, <1>4, <2>1, <2>2, <2>3
<1>7. CASE c # ""
  <2>1. c \in CommandNames
    BY <1>1, <1>5, <1>7, AssistantAssumption
  <2>2. /\ trace = [t \in Traces |-> IF t = 1 THEN o ELSE "none"]
        /\ of = [t \in Traces |-> IF t = 1 THEN c ELSE ""]
        /\ linked \subseteq {1} /\ old = {1}
    BY <1>5, <1>7
  <2>3. \A t \in Traces : /\ trace[t] = IF t = 1 THEN o ELSE "none"
                          /\ of[t] = IF t = 1 THEN c ELSE ""
    BY <2>2
  <2>4. Live = {1} /\ Begun = {1}
    BY <1>3, <2>3 DEF Live, Begun, Outcomes
  <2>5. 1 .. 1 = {1}
    OBVIOUS
  <2>6. /\ trace \in [Traces -> Outcomes \cup {"none", "deleted"}]
        /\ of \in [Traces -> CommandNames \cup {""}]
    BY <2>1, <2>2
  <2>7. QED
    BY <1>2, <1>4, <2>2, <2>4, <2>5, <2>6
<1>8. QED
  BY <1>6, <1>7

\* At first nothing has been asked for.
LEMMA StartRequests ==
  ASSUME Init
  PROVE  RequestInv /\ RulesOK
<1>1. /\ pc = [p \in Procs |-> "idle"]
      /\ text = [p \in Procs |-> NoText]
      /\ route = [p \in Procs |-> NoRoute] /\ latest = [p \in Procs |-> 0]
      /\ base = [p \in Procs |-> 0] /\ did = [p \in Procs |-> {}]
      /\ override = [t \in Texts |-> "none"] /\ corrections = [t \in Texts |-> <<>>]
      /\ events = <<>> /\ intents = 0 /\ plans = {} /\ runs = <<>> /\ rules = <<>>
  BY DEF Init
<1>2. NoRoute \in Routes
  BY DEF NoRoute, Routes, Packs
<1>3. RouteTypes
  <2>1. route \in [Procs -> Routes]
    BY <1>1, <1>2
  <2>2. events \in Seq(Events) /\ runs \in Seq(Nat \X Packs)
    BY <1>1
  <2>3. corrections \in [Texts -> Seq(INTENTS)]
    BY <1>1
  <2>4. QED
    BY <1>1, <2>1, <2>2, <2>3 DEF RouteTypes
<1>4. CorrectionsOK
  BY <1>1 DEF CorrectionsOK
<1>5. ASSUME NEW p \in Procs
      PROVE  RequestOK(p)
  BY <1>1 DEF RequestOK, DoPoints
<1>6. EventsOK
  BY <1>1 DEF EventsOK
<1>7. RulesOK
  BY <1>1 DEF RulesOK
<1>8. QED
  BY <1>3, <1>4, <1>5, <1>6, <1>7 DEF RequestInv

\* At first there is at most one turn, with what was observed in it.
LEMMA StartMemory ==
  ASSUME Init
  PROVE  TurnInv /\ AdviceInv
<1>1. /\ pc = [p \in Procs |-> "idle"]
      /\ insights = <<>> /\ suggestions = <<>> /\ raced = {}
      /\ session = [p \in Procs |-> NoSession] /\ plan = [p \in Procs |-> NoPlan]
      /\ failures = 0
  BY DEF Init
<1>2. Talking = {} /\ Cardinality({}) = 0
  BY <1>1, FS_EmptySet DEF Talking
<1>3. \A p \in Procs : LogOK(p)
  BY <1>1 DEF LogOK
<1>4. session \in [Procs -> [conv : Nat, count : Nat]]
  <2>1. NoSession \in [conv : Nat, count : Nat]
    BY DEF NoSession
  <2>2. QED
    BY <1>1, <2>1
<1>5. plan \in [Procs -> Plans]
  <2>1. NoPlan \in Plans
    BY DEF NoPlan, Plans
  <2>2. QED
    BY <1>1, <2>1
<1>6. InsightsOK /\ SuggestionsOK /\ \A p \in Procs : PlanOK(p)
  BY <1>1 DEF InsightsOK, Distinct, SuggestionsOK, SuggestionTypes, PlanOK
<1>7. ASSUME ObsOK, TurnsOK, answered = Len(turns) + failures + Cardinality(Talking),
             convs \in Seq([alive : BOOLEAN, count : Nat, old : BOOLEAN]),
             turns \in Seq([conv : Nat, index : Nat, alive : BOOLEAN, old : BOOLEAN]),
             answered \in Nat
      PROVE  TurnInv /\ AdviceInv
  BY <1>1, <1>3, <1>4, <1>5, <1>6, <1>7 DEF TurnInv, TurnTypes, AdviceInv
<1>8. CASE convs = <<>> /\ turns = <<>> /\ obs = {} /\ answered = 0
  <2>1. ObsOK
    BY <1>8, FS_EmptySet DEF ObsOK
  <2>2. TurnsOK
    BY <1>8 DEF TurnsOK
  <2>3. answered = Len(turns) + failures + Cardinality(Talking) /\ answered \in Nat
    BY <1>1, <1>2, <1>8
  <2>4. QED
    BY <1>7, <1>8, <2>1, <2>2, <2>3
<1>9. ASSUME NEW t \in Messages,
             turns = <<[conv |-> 1, index |-> 0, alive |-> TRUE, old |-> FALSE]>>,
             obs = {[turn |-> 1, kind |-> x[1], subject |-> x[2], detail |-> <<t>>] :
                      x \in ObservedIn[t]},
             convs = <<[alive |-> TRUE, count |-> 1, old |-> FALSE]>>,
             answered = 1
      PROVE  TurnInv /\ AdviceInv
  <2> DEFINE f == [x \in ObservedIn[t] |->
                     [turn |-> 1, kind |-> x[1], subject |-> x[2], detail |-> <<t>>]]
  <2>1. /\ DOMAIN turns = {1} /\ Len(turns) = 1 /\ turns[1].alive = TRUE
        /\ turns[1].conv = 1 /\ turns[1].index = 0
    BY <1>9
  <2>2. DOMAIN convs = {1} /\ convs[1].alive = TRUE /\ convs[1].count = 1
    BY <1>9
  <2>3. /\ convs \in Seq([alive : BOOLEAN, count : Nat, old : BOOLEAN])
        /\ turns \in Seq([conv : Nat, index : Nat, alive : BOOLEAN, old : BOOLEAN])
    BY <1>9
  <2>4. ObsOK
    <3>1. obs = {f[x] : x \in ObservedIn[t]} /\ IsFiniteSet(ObservedIn[t])
      BY <1>9, MemoryAssumption
    <3>2. ASSUME NEW x \in ObservedIn[t]
          PROVE  /\ f[x].turn = 1 /\ f[x].subject \in Subjects
                 /\ f[x].detail[1] \in Texts
      BY <1>9, MemoryAssumption DEF Subjects
    <3> HIDE DEF f
    <3>3. IsFiniteSet(obs)
      BY <3>1, FiniteImage
    <3>4. \A o \in obs : o.turn = 1 /\ o.subject \in Subjects /\ o.detail[1] \in Texts
      BY <3>1, <3>2
    <3>5. QED
      BY <2>1, <3>3, <3>4 DEF ObsOK
  <2>5. TurnsOK
    <3>1. TurnsIn(1) = {1}
      BY <2>1 DEF TurnsIn
    <3>2. Cardinality(TurnsIn(1)) = 1
      BY <3>1, FS_Singleton
    <3>3. QED
      BY <2>1, <2>2, <3>2 DEF TurnsOK
  <2>6. answered = Len(turns) + failures + Cardinality(Talking) /\ answered \in Nat
    BY <1>1, <1>2, <1>9, <2>1
  <2>7. QED
    BY <1>7, <2>3, <2>4, <2>5, <2>6
<1>10. \/ convs = <<>> /\ turns = <<>> /\ obs = {} /\ answered = 0
       \/ \E t \in Messages :
            /\ turns = <<[conv |-> 1, index |-> 0, alive |-> TRUE, old |-> FALSE]>>
            /\ obs = {[turn |-> 1, kind |-> x[1], subject |-> x[2], detail |-> <<t>>] :
                        x \in ObservedIn[t]}
            /\ convs = <<[alive |-> TRUE, count |-> 1, old |-> FALSE]>>
            /\ answered = 1
  BY DEF Init
<1>11. QED
  BY <1>8, <1>9, <1>10

\* The invariant holds at first and is kept.
LEMMA AssistantInvariant == Spec => []AssistantInv
<1>1. Init => AssistantInv
  BY StartTraces, StartRequests, StartMemory DEF AssistantInv
<1>2. AssistantInv /\ [Next]_vars => AssistantInv'
  <2>1. SUFFICES ASSUME AssistantInv, [Next]_vars
                 PROVE  AssistantInv'
    OBVIOUS
  <2>2. /\ FrameOK /\ TraceOK /\ CountOK /\ RequestInv /\ RulesOK
        /\ TurnInv /\ AdviceInv /\ IdsOK /\ RouteTypes
    BY <2>1 DEF AssistantInv, TraceOK, RequestInv
  <2>3. FrameOK'
    BY <2>1, <2>2, FrameStep
  <2>4. TraceOK' /\ CountOK'
    BY <2>1, <2>2, TraceStep
  <2>5. RequestInv'
    BY <2>1, <2>2, RequestStep
  <2>6. RulesOK'
    BY <2>1, <2>2, RulesStep
  <2>7. TurnInv'
    BY <2>1, <2>2, TurnStep
  <2>8. AdviceInv'
    BY <2>1, <2>2, AdviceStep
  <2>9. QED
    BY <2>3, <2>4, <2>5, <2>6, <2>7, <2>8 DEF AssistantInv
<1>3. QED
  BY <1>1, <1>2, PTL DEF Spec

-----------------------------------------------------------------------------
(* Theorems.                                                               *)

\* Traces, requests and counters have their types.
LEMMA TypesFollow ==
  ASSUME AssistantInv
  PROVE  TypeOK
<1>1. /\ FrameOK /\ TraceTypes /\ RouteTypes /\ TurnTypes
  BY DEF AssistantInv, TraceOK, RequestInv, TurnInv
<1>2. \A p \in Procs : did[p] \subseteq {"configured", "untold", "acted", "recorded"}
  BY <1>1 DEF RouteTypes
<1>3. QED
  BY <1>1, <1>2 DEF FrameOK, ProcTypes, TraceTypes, RouteTypes, TurnTypes, TypeOK

\* Every variable of the trace log and of the requests has its type.
THEOREM TypeCorrect == Spec => []TypeOK
<1>1. AssistantInv => TypeOK
  BY TypesFollow
<1>2. QED
  BY <1>1, AssistantInvariant, PTL

\* Each trace is a row or is in the rollups, whatever cleanups, kills and
\* judgements have met; it is counted again only by a process that had it
\* selected when a cleanup of another took it.
THEOREM TracesAreCounted == Spec => []TracesCounted
<1>1. ASSUME AssistantInv
      PROVE  TracesCounted
  <2>1. TypeOK /\ CountOK /\ TraceTypes
    BY <1>1, TypesFollow DEF AssistantInv, TraceOK
  <2>2. /\ Cardinality(Live) \in Nat /\ Cardinality(Begun) \in Nat
        /\ Cardinality(Doubtful) \in Nat /\ Cardinality(shared) \in Nat
    <3>1. /\ Live \subseteq Traces /\ Begun \subseteq Traces
          /\ Doubtful \subseteq Traces \X Procs
      BY DEF Live, Begun, Doubtful
    <3>2. shared \subseteq Traces \X Procs
      BY <2>1 DEF TraceTypes, Begun
    <3>3. QED
      BY <3>1, <3>2, TracesFinite
  <2>3. /\ rollup["running"] \in Nat /\ rollup["completed"] \in Nat
        /\ rollup["failed"] \in Nat
    BY <2>1 DEF TraceTypes, Outcomes
  <2>4. /\ Cardinality(Begun) <= Cardinality(Live) + RolledUp
        /\ Cardinality(Live) + RolledUp <= Cardinality(Begun) + Cardinality(shared)
    BY <2>1, <2>2, <2>3 DEF CountOK, RolledUp
  <2>5. QED
    BY <2>1, <2>2, <2>3, <2>4 DEF TracesCounted, RolledUp
<1>2. QED
  BY <1>1, AssistantInvariant, PTL

\* A request that is over was acted on and recorded, or not at all, unless the
\* start of a factory run failed after a provider's commit, and then the
\* command says that it failed; a change of configuration is routed besides
\* only if it could not be told.  And a request goes where a correction of its
\* text, made before it or since, sends it.
THEOREM RequestsSettle == Spec => []RequestsAreSettled
<1>1. ASSUME AssistantInv
      PROVE  RequestsAreSettled
  <2>1. (\A p \in Procs : RequestOK(p)) /\ EventsOK
    BY <1>1 DEF AssistantInv, RequestInv
  <2>2. \A p \in Procs : pc[p] = "end" /\ cmd[p] = "do" =>
          Settled(p)
    BY <2>1 DEF RequestOK
  <2>3. ASSUME NEW e \in Range(events)
        PROVE  /\ e.base > 0 => \E i \in e.base .. Len(corrections[e.text]) :
                                  corrections[e.text][i] = e.intent
               /\ e.intent = "capture" /\ meeting \cap {"chat"} = {} =>
                    e.text \in captured
    <3>1. PICK i \in DOMAIN events : e = events[i]
      BY DEF Range
    <3>2. /\ Obeys(e.text, e.base, e.intent)
          /\ e.intent = "capture" /\ "chat" \notin meeting => e.text \in captured
      BY <2>1, <3>1 DEF EventsOK
    <3>3. QED
      BY <3>2 DEF Obeys
  <2>4. \A r \in Range(runs) : r[1] \in 1 .. intents
    BY <2>1 DEF EventsOK, Range
  <2>5. QED
    BY <2>2, <2>3, <2>4 DEF RequestsAreSettled
<1>2. QED
  BY <1>1, AssistantInvariant, PTL

\* Turns, observations, insights and suggestions are consistent however
\* sessions overlap, die or are purged, but for what two processes had read
\* before either wrote.
THEOREM MemoryStands == Spec => []MemoryHolds
<1>1. ASSUME AssistantInv
      PROVE  MemoryHolds
  <2>1. /\ TurnTypes /\ TurnsOK /\ ObsOK /\ InsightsOK /\ SuggestionsOK
        /\ answered = Len(turns) + failures + Cardinality(Talking)
    BY <1>1 DEF AssistantInv, TurnInv, AdviceInv
  <2>2. TurnsAccounted
    BY <2>1 DEF TurnsOK, TurnsIn, Talking, ObsOK, TurnsAccounted
  <2>3. \A i, j \in Open : insights[i].subject = insights[j].subject => i = j
    BY <2>1 DEF InsightsOK, Distinct, Open
  <2>4. Merged = obs
    <3>1. ASSUME NEW o \in obs, NEW x \in obs, x.turn < o.turn,
                 <<x.kind, x.subject, x.detail>> = <<o.kind, o.subject, o.detail>>
          PROVE  FALSE
      <4>1. o.turn = x.turn
        BY <2>1, <3>1 DEF ObsOK
      <4>2. o.turn \in Nat
        BY <2>1, <3>1 DEF ObsOK, TurnTypes
      <4>3. QED
        BY <3>1, <4>1, <4>2
    <3>2. QED
      BY <3>1 DEF Merged
  <2>5. ASSUME NEW i \in DOMAIN suggestions
        PROVE  \/ <<"suggestion", i>> \in raced
               \/ suggestions[i].past \in {{}, {"accepted"}, {"dismissed"}, {"applied"},
                                           {"accepted", "applied"}}
    BY <2>1 DEF SuggestionsOK, Followed, Statuses
  <2>6. AdviceRemembered
    BY <2>1, <2>3, <2>4, <2>5 DEF SuggestionsOK, AdviceRemembered
  <2>7. QED
    BY <2>2, <2>6 DEF MemoryHolds
<1>2. QED
  BY <1>1, AssistantInvariant, PTL

\* Whatever rules are added and removed, an answer changes only to that of an
\* added rule that applies, or because the rule that gave it is removed; and
\* neither of them is a rule that always applies while one that says when does.
THEOREM RulesStand == Spec => RulesPrevail
<1> DEFINE Fair == rules' # rules =>
             \A type \in DOMAIN ActionTier, payload \in Payloads :
               LET firing == Candidates(StandingRules, type, payload)
                   before == CheckRule(StandingRules, type, payload)
                   after  == CheckRule(StandingRules', type, payload)
                   Outranked(r) == (\E j \in firing : Specific(rules[j])) /\ ~Specific(r)
               IN  before # after =>
                     \/ \E i \in DOMAIN rules' \ DOMAIN rules :
                          /\ i \in Candidates(StandingRules', type, payload)
                          /\ rules'[i].tier = after /\ ~Outranked(rules'[i])
                     \/ \E i \in firing :
                          /\ rules'[i] = NoConfig
                          /\ rules[i].tier = before /\ ~Outranked(rules[i])
<1>1. AssistantInv /\ [Next]_vars => [Fair]_vars
  <2> SUFFICES ASSUME AssistantInv, [Next]_vars, rules' # rules, NEW type, NEW payload,
                      CheckRule(StandingRules, type, payload)
                        # CheckRule(StandingRules', type, payload)
               PROVE  \/ \E i \in DOMAIN rules' \ DOMAIN rules :
                           /\ i \in Candidates(StandingRules', type, payload)
                           /\ rules'[i].tier = CheckRule(StandingRules', type, payload)
                           /\ Outranks(Candidates(StandingRules, type, payload), rules'[i])
                      \/ \E i \in Candidates(StandingRules, type, payload) :
                           /\ rules'[i] = NoConfig
                           /\ rules[i].tier = CheckRule(StandingRules, type, payload)
                           /\ Outranks(Candidates(StandingRules, type, payload), rules[i])
    BY DEF Outranks
  <2>1. RulesOK
    BY DEF AssistantInv
  <2>2. RulesOK'
    BY <2>1, RulesStep
  <2>3. CASE \E r : rules' = Append(rules, r)
    BY <2>1, <2>2, <2>3, AddedPrevails
  <2>4. CASE \E id : RemoveRule(id)
    BY <2>1, <2>2, <2>4, RemovedPrevailed
  <2>5. QED
    BY <2>3, <2>4, RulesMove
<1> HIDE DEF Fair
<1>2. Spec => [][Fair]_vars
  BY <1>1, AssistantInvariant, PTL DEF Spec
<1>3. QED
  BY <1>2, PTL DEF Fair, RulesPrevail
=============================================================================
