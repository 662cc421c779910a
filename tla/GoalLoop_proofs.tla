---------------------------- MODULE GoalLoop_proofs ----------------------------
(***************************************************************************)
(* Proofs about GoalLoop, for every number of processes, goals and tasks:  *)
(* its types; a loop with pending approvals says so; the approval queue of *)
(* a loop is bounded by the cycles that can be in progress; and a goal     *)
(* gets a loop only from processes that looked while it had none.          *)
(***************************************************************************)
EXTENDS GoalLoop, FiniteSetTheorems, TLAPS

\* A task that is not there has nothing.
BlankOK ==
  \A t \in Tasks :
    status[t] = "absent" => goalOf[t] = None /\ pending[t] = 0 /\ ~sent[t]

\* A process that is past the choice of a goal has it, and one that is past the
\* look for a loop has a task that is there.
HandOK(p) ==
  /\ pc[p] \in {"find", "skip", "start"} => p \in Runners /\ goal[p] \in Goals
  /\ pc[p] \in {"skip", "resume", "pause", "begin", "reason", "finish", "mark"} =>
       task[p] \in Tasks /\ status[task[p]] # "absent"

\* The tasks that are there, each once.
OrderOK ==
  /\ \A t \in Tasks : status[t] # "absent" <=> \E i \in DOMAIN order : order[i] = t
  /\ \A i, j \in DOMAIN order : order[i] = order[j] => i = j

\* Who is in a cycle on a loop, or about to begin one, and who will start one.
InCycle(t) == {p \in Procs : pc[p] \in {"begin", "reason", "finish"} /\ task[p] = t}
Starters(g) == {p \in Runners : pc[p] = "start" /\ goal[p] = g}

\* A cycle is begun on an empty queue, and adds one proposal.
QueueOK ==
  \A t \in Tasks : pending[t] + Cardinality(InCycle(t)) <= Cardinality(Procs) + edits

\* A start is begun on a goal without loops, and makes one, while no task has
\* fallen out of the window of the look.
LoopsOK ==
  Len(order) <= Window =>
    \A g \in Goals :
      Cardinality(LoopsFor(g)) + Cardinality(Starters(g)) <= Cardinality(Runners)

IInv == TypeOK /\ BlankOK /\ (\A p \in Procs : HandOK(p)) /\ OrderOK

-----------------------------------------------------------------------------
(* The order of the tasks.                                                 *)

\* What RemoveAt leaves of a sequence.
LEMMA RemoveAtProperties ==
  ASSUME NEW S, NEW s \in Seq(S), NEW i \in DOMAIN s
  PROVE  /\ RemoveAt(s, i) \in Seq(S)
         /\ Len(RemoveAt(s, i)) = Len(s) - 1
         /\ \A j \in 1 .. Len(s) - 1 :
              RemoveAt(s, i)[j] = s[IF j < i THEN j ELSE j + 1]
<1> DEFINE a == SubSeq(s, 1, i - 1)
           b == SubSeq(s, i + 1, Len(s))
<1>1. Len(s) \in Nat /\ i \in 1 .. Len(s)
  OBVIOUS
<1>2. a \in Seq(S) /\ Len(a) = i - 1 /\ \A j \in 1 .. i - 1 : a[j] = s[j]
  BY <1>1
<1>3. b \in Seq(S) /\ Len(b) = Len(s) - i
      /\ \A j \in 1 .. Len(s) - i : b[j] = s[i + j]
  BY <1>1
<1>4. RemoveAt(s, i) = a \o b
  BY DEF RemoveAt
<1> HIDE DEF a, b
<1>5. a \o b \in Seq(S) /\ Len(a \o b) = Len(s) - 1
  BY <1>1, <1>2, <1>3
<1>6. ASSUME NEW j \in 1 .. Len(s) - 1
      PROVE  (a \o b)[j] = s[IF j < i THEN j ELSE j + 1]
  <2>1. CASE j < i
    BY <1>1, <1>2, <1>3, <2>1
  <2>2. CASE ~(j < i)
    <3>1. j - (i - 1) \in 1 .. Len(s) - i
      BY <1>1, <2>2
    <3>2. (a \o b)[j] = b[j - (i - 1)]
      BY <1>1, <1>2, <1>3, <2>2
    <3>3. QED
      BY <1>1, <1>3, <2>2, <3>1, <3>2
  <2>3. QED
    BY <1>1, <1>6, <2>1, <2>2
<1>7. QED
  BY <1>4, <1>5, <1>6

\* A task that is touched is in the order, and every other one as before.
LEMMA TouchOrder ==
  ASSUME order \in Seq(Tasks), \A i, j \in DOMAIN order : order[i] = order[j] => i = j,
         NEW t \in Tasks, Touch(t)
  PROVE  /\ order' \in Seq(Tasks)
         /\ \A i, j \in DOMAIN order' : order'[i] = order'[j] => i = j
         /\ \A u \in Tasks : (\E i \in DOMAIN order' : order'[i] = u)
                             <=> u = t \/ \E i \in DOMAIN order : order[i] = u
<1> DEFINE Distinct(s) == \A i, j \in DOMAIN s : s[i] = s[j] => i = j
           In(u, s) == \E i \in DOMAIN s : s[i] = u
<1>1. ASSUME NEW s \in Seq(Tasks), Distinct(s), ~In(t, s), order' = Append(s, t),
             \A u \in Tasks \ {t} : In(u, s) <=> In(u, order)
      PROVE  /\ order' \in Seq(Tasks) /\ Distinct(order')
             /\ \A u \in Tasks : In(u, order') <=> u = t \/ In(u, order)
  <2>1. order' \in Seq(Tasks) /\ Len(order') = Len(s) + 1
    BY <1>1
  <2>2. /\ DOMAIN order' = 1 .. Len(s) + 1 /\ DOMAIN s = 1 .. Len(s)
        /\ Len(s) \in Nat
    BY <1>1
  <2>3. /\ order'[Len(s) + 1] = t
        /\ \A i \in 1 .. Len(s) : order'[i] = s[i]
    BY <1>1
  <2>4. Distinct(order')
    BY <1>1, <2>2, <2>3
  <2>5. \A u \in Tasks : In(u, order') <=> u = t \/ In(u, s)
    BY <2>2, <2>3
  <2>6. QED
    BY <1>1, <2>1, <2>4, <2>5
<1>2. CASE (\A i \in DOMAIN order : order[i] # t) /\ order' = Append(order, t)
  <2>1. Distinct(order) /\ ~In(t, order)
    BY <1>2
  <2>2. QED
    BY <1>1, <1>2, <2>1
<1>3. ASSUME NEW i \in DOMAIN order, order[i] = t,
             order' = Append(RemoveAt(order, i), t)
      PROVE  /\ order' \in Seq(Tasks) /\ Distinct(order')
             /\ \A u \in Tasks : In(u, order') <=> u = t \/ In(u, order)
  <2> DEFINE s == RemoveAt(order, i)
             at(j) == IF j < i THEN j ELSE j + 1
  <2>1. /\ s \in Seq(Tasks) /\ Len(s) = Len(order) - 1
        /\ \A j \in 1 .. Len(order) - 1 : s[j] = order[at(j)]
    BY RemoveAtProperties
  <2>2. /\ Len(order) \in Nat /\ i \in 1 .. Len(order)
        /\ DOMAIN order = 1 .. Len(order) /\ DOMAIN s = 1 .. Len(order) - 1
    BY <2>1
  <2> HIDE DEF s
  <2>3. \A j \in DOMAIN s : at(j) \in DOMAIN order \ {i}
    BY <2>2
  <2>4. Distinct(s)
    <3> SUFFICES ASSUME NEW j \in DOMAIN s, NEW k \in DOMAIN s, s[j] = s[k]
                 PROVE  j = k
      OBVIOUS
    <3>1. order[at(j)] = order[at(k)]
      BY <2>1, <2>2
    <3>2. at(j) = at(k)
      BY <2>3, <3>1
    <3>3. QED
      BY <2>2, <3>2
  <2>5. ~In(t, s)
    <3> SUFFICES ASSUME NEW j \in DOMAIN s, s[j] = t
                 PROVE  FALSE
      OBVIOUS
    <3>1. order[at(j)] = order[i]
      BY <1>3, <2>1, <2>2
    <3>2. QED
      BY <2>3, <3>1
  <2>6. ASSUME NEW u \in Tasks \ {t}
        PROVE  In(u, s) <=> In(u, order)
    <3>1. ASSUME NEW j \in DOMAIN s, s[j] = u
          PROVE  In(u, order)
      BY <2>1, <2>2, <2>3, <3>1
    <3>2. ASSUME NEW k \in DOMAIN order, order[k] = u
          PROVE  In(u, s)
      <4>1. k # i
        BY <1>3, <3>2
      <4>2. CASE k < i
        <5>1. k \in DOMAIN s /\ at(k) = k
          BY <2>2, <4>2
        <5>2. QED
          BY <2>1, <2>2, <3>2, <5>1
      <4>3. CASE ~(k < i)
        <5>1. k - 1 \in DOMAIN s /\ at(k - 1) = k
          BY <2>2, <4>1, <4>3
        <5>2. QED
          BY <2>1, <2>2, <3>2, <5>1
      <4>4. QED
        BY <4>2, <4>3
    <3>3. QED
      BY <3>1, <3>2
  <2>7. order' = Append(s, t)
    BY <1>3 DEF s
  <2>8. QED
    BY <1>1, <2>1, <2>4, <2>5, <2>6, <2>7
<1>4. QED
  BY <1>2, <1>3 DEF Touch

-----------------------------------------------------------------------------
(* Types, and what processes have at hand.                                 *)

LEMMA InvInit == Init => IInv
<1> SUFFICES ASSUME Init PROVE IInv
  OBVIOUS
<1> USE GoalAssumption
<1>1. TypeOK
  <2>1. order \in Seq(Tasks) /\ age \in [Goals -> 0 .. MaxAge]
    BY DEF Init
  <2>2. /\ pending \in [Tasks -> 0 .. MaxPending] /\ edits \in 0 .. MaxEdits
        /\ others \in 0 .. MaxEdits /\ pauses \in 0 .. MaxEdits
        /\ crashes \in 0 .. MaxCrashes
    BY DEF Init
  <2>3. QED
    BY <2>1, <2>2 DEF Init, TypeOK
<1>2. BlankOK /\ OrderOK
  BY DEF Init, BlankOK, OrderOK, None
<1>3. \A p \in Procs : HandOK(p)
  BY DEF Init, HandOK
<1>4. QED
  BY <1>1, <1>2, <1>3 DEF IInv

\* A process that is told to go somewhere has gone there, and nobody else.
LEMMA GotoTypes ==
  ASSUME TypeOK, NEW p \in Procs, NEW where, Goto(p, where)
  PROVE  /\ pc'[p] = where
         /\ \A q \in Procs \ {p} : pc'[q] = pc[q]
         /\ where \in {"idle", "find", "skip", "start", "resume", "pause", "begin",
                       "reason", "finish", "mark"} =>
              pc' \in [Procs -> {"idle", "find", "skip", "start", "resume", "pause",
                                 "begin", "reason", "finish", "mark"}]
BY DEF TypeOK, Goto

\* What the user may still do is within each of the bounds.
LEMMA Bounded ==
  ASSUME TypeOK, MayMeddle
  PROVE  /\ others + 1 \in 0 .. MaxEdits /\ edits + 1 \in 0 .. MaxEdits
         /\ pauses + 1 \in 0 .. MaxEdits
BY GoalAssumption DEF TypeOK, MayMeddle

LEMMA TypeStep ==
  ASSUME IInv, [Next]_vars
  PROVE  TypeOK'
<1> USE GoalAssumption
<1>1. TypeOK /\ \A p \in Procs : HandOK(p)
  BY DEF IInv
<1>2. ASSUME NEW t \in Tasks, Touch(t)
      PROVE  order' \in Seq(Tasks)
  BY <1>1, <1>2, TouchOrder DEF IInv, OrderOK, TypeOK
<1>3. 0 \in 0 .. MaxAge /\ MaxAge \in 0 .. MaxAge
  BY DEF None
<1> USE DEF goals, tasks, bounds
<1>4. ASSUME NEW p \in Procs, Find(p)
      PROVE  TypeOK'
  <2>1. ASSUME NEW i \in LoopsOf(goal[p])
        PROVE  order[i] \in Tasks
    BY <1>1, <2>1 DEF LoopsOf, TypeOK
  <2>2. task' \in [Procs -> Tasks \cup {None}]
    BY <1>1, <1>4, <2>1 DEF Find, TypeOK
  <2>3. \E where \in {"start", "skip", "resume"} : Goto(p, where)
    BY <1>4 DEF Find
  <2>4. pc' \in [Procs -> {"idle", "find", "skip", "start", "resume", "pause",
                           "begin", "reason", "finish", "mark"}]
    BY <1>1, <2>3, GotoTypes
  <2>5. QED
    BY <1>1, <1>4, <2>2, <2>4 DEF Find, TypeOK
<1>5. ASSUME NEW p \in Procs, Skip(p)
      PROVE  TypeOK'
  <2>1. age' \in [Goals -> 0 .. MaxAge]
    BY <1>1, <1>3, <1>5 DEF Skip, MarkEvaluated, TypeOK
  <2>2. QED
    BY <1>1, <1>5, <2>1, GotoTypes DEF Skip, TypeOK
<1>6. ASSUME NEW p \in Procs, Start(p)
      PROVE  TypeOK'
  <2>1. PICK t \in Tasks : /\ status' = [status EXCEPT ![t] = "running"]
                           /\ goalOf' = [goalOf EXCEPT ![t] = goal[p]]
                           /\ Touch(t)
                           /\ task' = [task EXCEPT ![p] = t]
    BY <1>6 DEF Start
  <2>2. goal[p] \in Goals
    BY <1>1, <1>6 DEF Start, At, HandOK
  <2>3. order' \in Seq(Tasks)
    BY <1>2, <2>1
  <2>4. QED
    BY <1>1, <1>6, <2>1, <2>2, <2>3, GotoTypes DEF Start, TypeOK
<1>7. ASSUME NEW p \in Procs, Recount(p)
      PROVE  TypeOK'
  <2>1. \E where \in {"begin", "pause"} : Goto(p, where)
    BY <1>7 DEF Recount
  <2>2. QED
    BY <1>1, <1>7, <2>1, GotoTypes DEF Recount, TypeOK
<1>8. ASSUME NEW p \in Procs, Pause(p)
      PROVE  TypeOK'
  BY <1>1, <1>8, GotoTypes DEF Pause, TypeOK
<1>9. ASSUME NEW p \in Procs, Begin(p)
      PROVE  TypeOK'
  <2>1. task[p] \in Tasks
    BY <1>1, <1>9 DEF Begin, At, HandOK
  <2>2. order' \in Seq(Tasks)
    BY <1>2, <1>9, <2>1 DEF Begin
  <2>3. QED
    BY <1>1, <1>9, <2>1, <2>2, GotoTypes DEF Begin, TypeOK
<1>10. ASSUME NEW p \in Procs, Reason(p)
       PROVE  TypeOK'
  BY <1>1, <1>10, GotoTypes DEF Reason, TypeOK
<1>11. ASSUME NEW p \in Procs, Finish(p)
       PROVE  TypeOK'
  <2>1. task[p] \in Tasks
    BY <1>1, <1>11 DEF Finish, At, HandOK
  <2>2. order' \in Seq(Tasks)
    BY <1>2, <1>11, <2>1 DEF Finish
  <2>3. PICK new \in 0 .. 1, safe \in {"none", "executed", "blocked"} :
          LET t == task[p]
              all == pending[t] + new
              bad == broken[t] \/ safe = "blocked"
              any == used[t] \/ new > 0 \/ safe # "none"
          IN /\ all <= MaxPending
             /\ pending' = [pending EXCEPT ![t] = all]
             /\ broken' = [broken EXCEPT ![t] = bad]
             /\ used' = [used EXCEPT ![t] = any]
             /\ status' = [status EXCEPT ![t] = StatusAfter(all, new, bad, any)]
    BY <1>11 DEF Finish
  <2>4. pending[task[p]] + new \in 0 .. MaxPending
    <3>1. pending[task[p]] + new <= MaxPending
      BY <2>3
    <3>2. pending \in [Tasks -> 0 .. MaxPending]
      BY <1>1 DEF TypeOK
    <3>3. pending[task[p]] \in 0 .. MaxPending
      BY <2>1, <3>2
    <3>4. QED
      BY <3>1, <3>3
  <2>5. pending' \in [Tasks -> 0 .. MaxPending]
    BY <1>1, <2>1, <2>3, <2>4 DEF TypeOK
  <2>6. broken' \in [Tasks -> BOOLEAN] /\ used' \in [Tasks -> BOOLEAN]
    BY <1>1, <2>1, <2>3 DEF TypeOK
  <2>7. \A all, n, bad, any : StatusAfter(all, n, bad, any)
          \in {"waiting_approval", "blocked", "completed", "waiting"}
    BY DEF StatusAfter
  <2>8. status' \in [Tasks -> {"absent", "open", "running", "waiting",
                               "waiting_approval", "blocked", "completed", "done",
                               "learning"}]
    BY <1>1, <2>1, <2>3, <2>7 DEF TypeOK
  <2>9. QED
    BY <1>1, <1>11, <2>1, <2>2, <2>5, <2>6, <2>8, GotoTypes DEF Finish, TypeOK
<1>12. ASSUME NEW p \in Procs, Mark(p)
       PROVE  TypeOK'
  <2>1. age' \in [Goals -> 0 .. MaxAge]
    BY <1>1, <1>3, <1>12 DEF Mark, MarkEvaluated, TypeOK
  <2>2. QED
    BY <1>1, <1>12, <2>1, GotoTypes DEF Mark, TypeOK
<1>13. ASSUME NEW p \in Procs, Crash(p)
       PROVE  TypeOK'
  <2>1. crashes' \in 0 .. MaxCrashes
    BY <1>1, <1>13 DEF Crash, TypeOK
  <2>2. QED
    BY <1>1, <1>13, <2>1, GotoTypes DEF Crash, TypeOK
<1>14. ASSUME NEW p \in Runners, PickDue(p) \/ PickNone(p) \/ PickNamed(p)
       PROVE  TypeOK'
  <2>1. p \in Procs
    BY DEF Procs
  <2>2. CASE PickNone(p)
    BY <1>1, <2>2 DEF PickNone, TypeOK
  <2>3. CASE PickDue(p) \/ PickNamed(p)
    <3>1. \E g \in Goals : goal' = [goal EXCEPT ![p] = g]
      BY <1>1, <2>3 DEF PickDue, PickNamed, Due, TypeOK
    <3>2. goal' \in [Procs -> Goals \cup {None}] /\ invoked' \in BOOLEAN
      BY <1>1, <2>1, <2>3, <3>1 DEF PickDue, PickNamed, TypeOK
    <3>3. Goto(p, "find")
      BY <2>3 DEF PickDue, PickNamed
    <3>4. /\ UNCHANGED <<active, age, status, goalOf, pending, broken, used, sent>>
          /\ UNCHANGED <<order, edited, task, held, others, edits, pauses, crashes>>
      BY <2>3 DEF PickDue, PickNamed
    <3>5. QED
      BY <1>1, <2>1, <3>2, <3>3, <3>4, GotoTypes DEF TypeOK
  <2>4. QED
    BY <1>14, <2>2, <2>3
<1>15. ASSUME NEW p \in Users, ResumeLoop(p)
       PROVE  TypeOK'
  <2>1. p \in Procs
    BY DEF Procs
  <2>2. QED
    BY <1>1, <1>15, <2>1, GotoTypes DEF ResumeLoop, Loops, TypeOK
<1>16. ASSUME NEW t \in Tasks, Settle(t)
       PROVE  TypeOK'
  <2>1. pending' \in [Tasks -> 0 .. MaxPending]
    BY <1>1, <1>16 DEF Settle, TypeOK
  <2>2. broken' \in [Tasks -> BOOLEAN] /\ sent' \in [Tasks -> BOOLEAN]
    BY <1>1, <1>16 DEF Settle, TypeOK
  <2>3. QED
    BY <1>1, <1>16, <2>1, <2>2 DEF Settle, TypeOK
<1>17. ASSUME NEW t \in Tasks, Rollback(t)
       PROVE  TypeOK'
  <2>1. pending' \in [Tasks -> 0 .. MaxPending]
    BY <1>1, <1>17 DEF Rollback, TypeOK
  <2>2. edits' \in 0 .. MaxEdits
    BY <1>1, <1>17, Bounded DEF Rollback
  <2>3. QED
    BY <1>1, <1>17, <2>1, <2>2 DEF Rollback, TypeOK
<1>18. ASSUME NEW t \in Tasks, Learn(t)
       PROVE  TypeOK'
  <2>1. order' \in Seq(Tasks)
    BY <1>2, <1>18 DEF Learn
  <2>2. QED
    BY <1>1, <1>18, <2>1, Bounded DEF Learn, TypeOK
<1>19. ASSUME NEW g \in Goals, PauseGoal(g)
       PROVE  TypeOK'
  BY <1>1, <1>19, Bounded DEF PauseGoal, TypeOK
<1>20. ASSUME OtherTask
       PROVE  TypeOK'
  <2>1. PICK t \in Tasks : status' = [status EXCEPT ![t] = "open"] /\ Touch(t)
    BY <1>20 DEF OtherTask
  <2>2. order' \in Seq(Tasks)
    BY <1>2, <2>1
  <2>3. QED
    BY <1>1, <1>20, <2>1, <2>2, Bounded DEF OtherTask, TypeOK
<1>21. ASSUME Tick
       PROVE  TypeOK'
  <2>1. age' \in [Goals -> 0 .. MaxAge]
    BY <1>1, <1>3, <1>21 DEF Tick, TypeOK
  <2>2. QED
    BY <1>1, <1>21, <2>1 DEF Tick, TypeOK
<1>22. CASE UNCHANGED vars
  BY <1>1, <1>22 DEF vars, TypeOK
<1>23. QED
  BY <1>4, <1>5, <1>6, <1>7, <1>8, <1>9, <1>10, <1>11, <1>12, <1>13, <1>14, <1>15,
     <1>16, <1>17, <1>18, <1>19, <1>20, <1>21, <1>22 DEF Next, GoesOn

\* What the status of a task that is there may be.
Present == {"open", "running", "waiting", "waiting_approval", "blocked", "completed",
            "done", "learning"}

\* A task is updated and becomes the latest at once, and it never disappears.
LEMMA StatusStep ==
  ASSUME IInv, [Next]_vars
  PROVE  \/ UNCHANGED <<status, order>>
         \/ \E t \in Tasks, s \in Present :
              status' = [status EXCEPT ![t] = s] /\ Touch(t)
<1>1. \A p \in Procs : HandOK(p)
  BY DEF IInv
<1>2. ASSUME NEW p \in Procs, Begin(p)
      PROVE  \E t \in Tasks, s \in Present :
               status' = [status EXCEPT ![t] = s] /\ Touch(t)
  <2>1. task[p] \in Tasks
    BY <1>1, <1>2 DEF Begin, At, HandOK
  <2>2. QED
    BY <1>2, <2>1 DEF Begin, Present
<1>3. ASSUME NEW p \in Procs, Finish(p)
      PROVE  \E t \in Tasks, s \in Present :
               status' = [status EXCEPT ![t] = s] /\ Touch(t)
  <2>1. task[p] \in Tasks
    BY <1>1, <1>3 DEF Finish, At, HandOK
  <2>2. \A all, n, bad, any : StatusAfter(all, n, bad, any) \in Present
    BY DEF StatusAfter, Present
  <2>3. \E s \in Present : status' = [status EXCEPT ![task[p]] = s]
    BY <1>3, <2>2 DEF Finish
  <2>4. QED
    BY <1>3, <2>1, <2>3 DEF Finish
<1>4. ASSUME NEW p \in Procs, Start(p)
      PROVE  \E t \in Tasks, s \in Present :
               status' = [status EXCEPT ![t] = s] /\ Touch(t)
  BY <1>4 DEF Start, Present
<1>5. ASSUME NEW t \in Tasks, Learn(t)
      PROVE  \E s \in Present :
               status' = [status EXCEPT ![t] = s] /\ Touch(t)
  BY <1>5 DEF Learn, Present
<1>6. ASSUME OtherTask
      PROVE  \E t \in Tasks, s \in Present :
               status' = [status EXCEPT ![t] = s] /\ Touch(t)
  BY <1>6 DEF OtherTask, Present
<1>7. ASSUME NEW p \in Procs,
             Find(p) \/ Skip(p) \/ Recount(p) \/ Pause(p) \/ Reason(p) \/ Mark(p)
               \/ Crash(p) \/ PickDue(p) \/ PickNone(p) \/ PickNamed(p)
               \/ ResumeLoop(p)
      PROVE  UNCHANGED <<status, order>>
  BY <1>7 DEF Find, Skip, Recount, Pause, Reason, Mark, Crash, PickDue, PickNone,
              PickNamed, ResumeLoop, tasks
<1>8. ASSUME NEW t \in Tasks, Settle(t) \/ Rollback(t)
      PROVE  UNCHANGED <<status, order>>
  BY <1>8 DEF Settle, Rollback
<1>9. ASSUME NEW g \in Goals, PauseGoal(g) \/ Tick
      PROVE  UNCHANGED <<status, order>>
  BY <1>9 DEF PauseGoal, Tick, tasks
<1>10. CASE Tick
  BY <1>10 DEF Tick, tasks
<1>11. CASE UNCHANGED vars
  BY <1>11 DEF vars, tasks
<1>12. Runners \subseteq Procs /\ Users \subseteq Procs
  BY DEF Procs
<1>13. QED
  BY <1>2, <1>3, <1>4, <1>5, <1>6, <1>7, <1>8, <1>9, <1>10, <1>11, <1>12
     DEF Next, GoesOn

LEMMA TasksStay ==
  ASSUME IInv, [Next]_vars, NEW t \in Tasks, status[t] # "absent"
  PROVE  status'[t] # "absent"
<1>1. status \in [Tasks -> {"absent", "open", "running", "waiting",
                            "waiting_approval", "blocked", "completed", "done",
                            "learning"}]
  BY DEF IInv, TypeOK
<1>2. QED
  BY <1>1, StatusStep DEF Present

LEMMA OrderStep ==
  ASSUME IInv, [Next]_vars
  PROVE  OrderOK'
<1>1. TypeOK /\ OrderOK
  BY DEF IInv
<1>2. CASE UNCHANGED <<status, order>>
  BY <1>1, <1>2 DEF OrderOK
<1>3. ASSUME NEW t \in Tasks, NEW s \in Present,
             status' = [status EXCEPT ![t] = s], Touch(t)
      PROVE  OrderOK'
  <2>1. /\ \A i, j \in DOMAIN order' : order'[i] = order'[j] => i = j
        /\ \A u \in Tasks : (\E i \in DOMAIN order' : order'[i] = u)
                            <=> u = t \/ \E i \in DOMAIN order : order[i] = u
    BY <1>1, <1>3, TouchOrder DEF OrderOK, TypeOK
  <2>2. \A u \in Tasks : status'[u] # "absent" <=> u = t \/ status[u] # "absent"
    BY <1>1, <1>3 DEF TypeOK, Present
  <2>3. QED
    BY <1>1, <2>1, <2>2 DEF OrderOK
<1>4. QED
  BY <1>2, <1>3, StatusStep

\* Tasks come and never go.
LEMMA OrderGrows ==
  ASSUME IInv, [Next]_vars
  PROVE  /\ Len(order) \in Nat /\ Len(order') \in Nat
         /\ Len(order) <= Len(order')
<1>1. order \in Seq(Tasks)
  BY DEF IInv, TypeOK
<1>2. ASSUME NEW t \in Tasks, order' = Append(order, t)
      PROVE  Len(order') = Len(order) + 1
  BY <1>1, <1>2
<1>3. ASSUME NEW t \in Tasks, NEW i \in DOMAIN order,
             order' = Append(RemoveAt(order, i), t)
      PROVE  Len(order') = Len(order)
  <2>1. RemoveAt(order, i) \in Seq(Tasks) /\ Len(RemoveAt(order, i)) = Len(order) - 1
    BY <1>1, RemoveAtProperties
  <2>2. Len(Append(RemoveAt(order, i), t)) = Len(RemoveAt(order, i)) + 1
    BY <2>1
  <2>3. QED
    BY <1>1, <1>3, <2>1, <2>2
<1>4. Len(order') \in {Len(order), Len(order) + 1}
  BY <1>2, <1>3, StatusStep DEF Touch
<1>5. QED
  BY <1>1, <1>4

\* Nobody writes about a task that is not there.
LEMMA BlankStep ==
  ASSUME IInv, [Next]_vars
  PROVE  BlankOK'
<1>1. TypeOK /\ BlankOK /\ \A p \in Procs : HandOK(p)
  BY DEF IInv
<1> SUFFICES ASSUME NEW u \in Tasks, status'[u] = "absent"
             PROVE  goalOf'[u] = None /\ pending'[u] = 0 /\ ~sent'[u]
  BY DEF BlankOK
<1>2. status[u] = "absent"
  BY TasksStay
<1>3. goalOf[u] = None /\ pending[u] = 0 /\ ~sent[u]
  BY <1>1, <1>2 DEF BlankOK
<1>4. ASSUME goalOf'[u] = goalOf[u], pending'[u] = pending[u], sent'[u] = sent[u]
      PROVE  goalOf'[u] = None /\ pending'[u] = 0 /\ ~sent'[u]
  BY <1>3, <1>4
<1>5. CASE UNCHANGED <<goalOf, pending, sent>>
  BY <1>4, <1>5
<1>6. ASSUME NEW p \in Procs, Start(p)
      PROVE  goalOf'[u] = goalOf[u] /\ UNCHANGED <<pending, sent>>
  <2>1. PICK t \in Tasks : /\ status' = [status EXCEPT ![t] = "running"]
                           /\ goalOf' = [goalOf EXCEPT ![t] = goal[p]]
    BY <1>6 DEF Start
  <2>2. t # u
    BY <1>1, <2>1 DEF TypeOK
  <2>3. QED
    BY <1>1, <1>6, <2>1, <2>2 DEF Start, TypeOK
<1>7. ASSUME NEW p \in Procs, Finish(p)
      PROVE  pending'[u] = pending[u] /\ UNCHANGED <<goalOf, sent>>
  <2>1. task[p] \in Tasks /\ task[p] # u
    BY <1>1, <1>2, <1>7 DEF Finish, At, HandOK
  <2>2. QED
    BY <1>1, <1>7, <2>1 DEF Finish, TypeOK
<1>8. ASSUME NEW t \in Tasks, Settle(t)
      PROVE  pending'[u] = pending[u] /\ sent'[u] = sent[u] /\ UNCHANGED goalOf
  <2>1. t # u
    BY <1>3, <1>8 DEF Settle
  <2>2. QED
    BY <1>1, <1>8, <2>1 DEF Settle, TypeOK
<1>9. ASSUME NEW t \in Tasks, Rollback(t)
      PROVE  pending'[u] = pending[u] /\ UNCHANGED <<goalOf, sent>>
  <2>1. t # u
    BY <1>3, <1>9 DEF Rollback
  <2>2. QED
    BY <1>1, <1>9, <2>1 DEF Rollback, TypeOK
<1>10. ASSUME NEW p \in Procs,
              Find(p) \/ Skip(p) \/ Recount(p) \/ Pause(p) \/ Begin(p) \/ Reason(p)
                \/ Mark(p) \/ Crash(p) \/ PickDue(p) \/ PickNone(p) \/ PickNamed(p)
                \/ ResumeLoop(p)
       PROVE  UNCHANGED <<goalOf, pending, sent>>
  BY <1>10 DEF Find, Skip, Recount, Pause, Begin, Reason, Mark, Crash, PickDue,
               PickNone, PickNamed, ResumeLoop, tasks
<1>11. ASSUME (\E t \in Tasks : Learn(t)) \/ (\E g \in Goals : PauseGoal(g))
                \/ OtherTask \/ Tick \/ UNCHANGED vars
       PROVE  UNCHANGED <<goalOf, pending, sent>>
  BY <1>11 DEF Learn, PauseGoal, OtherTask, Tick, vars, tasks
<1>12. Runners \subseteq Procs /\ Users \subseteq Procs
  BY DEF Procs
<1>13. QED
  BY <1>4, <1>5, <1>6, <1>7, <1>8, <1>9, <1>10, <1>11, <1>12 DEF Next, GoesOn

\* A process keeps what it has in hand while the others step.
LEMMA HandKept ==
  ASSUME IInv, [Next]_vars, NEW q \in Procs,
         pc'[q] = pc[q], goal'[q] = goal[q], task'[q] = task[q]
  PROVE  HandOK(q)'
BY TasksStay DEF IInv, HandOK

LEMMA HandStep ==
  ASSUME IInv, [Next]_vars, NEW q \in Procs
  PROVE  HandOK(q)'
<1>1. TypeOK /\ OrderOK /\ \A p \in Procs : HandOK(p)
  BY DEF IInv
<1>2. CASE UNCHANGED <<pc, goal, task>>
  BY <1>2, HandKept
<1>3. ASSUME NEW p \in Procs, p # q,
             Goto(p, pc'[p]), \E x : goal' = [goal EXCEPT ![p] = x] \/ goal' = goal,
             \E x : task' = [task EXCEPT ![p] = x] \/ task' = task
      PROVE  HandOK(q)'
  <2>1. pc'[q] = pc[q] /\ goal'[q] = goal[q] /\ task'[q] = task[q]
    BY <1>1, <1>3 DEF Goto, TypeOK
  <2>2. QED
    BY <2>1, HandKept
<1>4. ASSUME NEW p \in Procs, GoesOn(p) \/ Crash(p) \/ PickDue(p) \/ PickNamed(p)
                                \/ ResumeLoop(p)
      PROVE  /\ Goto(p, pc'[p])
             /\ \E x : goal' = [goal EXCEPT ![p] = x] \/ goal' = goal
             /\ \E x : task' = [task EXCEPT ![p] = x] \/ task' = task
  <2>1. \E where : Goto(p, where)
    BY <1>4 DEF GoesOn, Find, Skip, Start, Recount, Pause, Begin, Reason, Finish,
                Mark, Crash, PickDue, PickNamed, ResumeLoop
  <2>2. Goto(p, pc'[p])
    BY <1>1, <2>1 DEF Goto, TypeOK
  <2>3. \E x : goal' = [goal EXCEPT ![p] = x] \/ goal' = goal
    BY <1>4 DEF GoesOn, Find, Skip, Start, Recount, Pause, Begin, Reason, Finish,
                Mark, Crash, PickDue, PickNamed, ResumeLoop
  <2>4. \E x : task' = [task EXCEPT ![p] = x] \/ task' = task
    BY <1>4 DEF GoesOn, Find, Skip, Start, Recount, Pause, Begin, Reason, Finish,
                Mark, Crash, PickDue, PickNamed, ResumeLoop
  <2>5. QED
    BY <2>2, <2>3, <2>4
<1>5. ASSUME Find(q)
      PROVE  HandOK(q)'
  <2>1. q \in Runners /\ goal[q] \in Goals /\ goal' = goal /\ status' = status
    BY <1>1, <1>5 DEF Find, At, HandOK, tasks
  <2>2. CASE task' = task /\ Goto(q, "start")
    BY <1>1, <2>1, <2>2, GotoTypes DEF HandOK
  <2>3. ASSUME NEW i \in LoopsOf(goal[q]), task' = [task EXCEPT ![q] = order[i]],
               Goto(q, IF pending[order[i]] > 0 THEN "skip" ELSE "resume")
        PROVE  HandOK(q)'
    <3>1. i \in DOMAIN order /\ order[i] \in Tasks
      BY <1>1, <2>3 DEF LoopsOf, TypeOK
    <3>2. status[order[i]] # "absent"
      BY <1>1, <3>1 DEF OrderOK
    <3>3. task'[q] = order[i] /\ pc'[q] \in {"skip", "resume"}
      BY <1>1, <2>3 DEF Goto, TypeOK
    <3>4. QED
      BY <2>1, <3>1, <3>2, <3>3 DEF HandOK
  <2>4. QED
    BY <1>5, <2>2, <2>3 DEF Find
<1>6. ASSUME Skip(q) \/ Mark(q) \/ Crash(q)
      PROVE  HandOK(q)'
  <2>1. pc'[q] = "idle"
    BY <1>1, <1>6, GotoTypes DEF Skip, Mark, Crash
  <2>2. QED
    BY <2>1 DEF HandOK
<1>7. ASSUME Start(q)
      PROVE  HandOK(q)'
  <2>1. PICK t \in Tasks : /\ status' = [status EXCEPT ![t] = "running"]
                           /\ task' = [task EXCEPT ![q] = t]
    BY <1>7 DEF Start
  <2>2. pc'[q] = "reason" /\ task'[q] = t /\ status'[t] = "running"
    BY <1>1, <1>7, <2>1, GotoTypes DEF Start, TypeOK
  <2>3. QED
    BY <2>2 DEF HandOK
<1>8. ASSUME Recount(q) \/ Pause(q) \/ Begin(q) \/ Reason(q) \/ Finish(q)
      PROVE  HandOK(q)'
  <2>1. task[q] \in Tasks /\ status[task[q]] # "absent" /\ task'[q] = task[q]
    BY <1>1, <1>8 DEF Recount, Pause, Begin, Reason, Finish, At, HandOK
  <2>2. status'[task[q]] # "absent"
    BY <2>1, TasksStay
  <2>3. pc'[q] \in {"begin", "pause", "mark", "reason", "finish"}
    BY <1>1, <1>8, GotoTypes DEF Recount, Pause, Begin, Reason, Finish
  <2>4. QED
    BY <2>1, <2>2, <2>3 DEF HandOK
<1>9. ASSUME q \in Runners, PickDue(q) \/ PickNamed(q)
      PROVE  HandOK(q)'
  <2>1. goal'[q] \in Goals
    BY <1>1, <1>9 DEF PickDue, PickNamed, Due, TypeOK
  <2>2. pc'[q] = "find"
    BY <1>1, <1>9, GotoTypes DEF PickDue, PickNamed
  <2>3. QED
    BY <1>9, <2>1, <2>2 DEF HandOK
<1>10. ASSUME ResumeLoop(q)
       PROVE  HandOK(q)'
  <2>1. task'[q] \in Loops /\ status' = status
    BY <1>1, <1>10 DEF ResumeLoop, TypeOK, tasks
  <2>2. pc'[q] = "resume"
    BY <1>1, <1>10, GotoTypes DEF ResumeLoop
  <2>3. QED
    BY <2>1, <2>2 DEF HandOK, Loops
<1>11. ASSUME (\E p \in Runners : PickNone(p)) \/ OtherTask \/ Tick \/ UNCHANGED vars
                \/ (\E t \in Tasks : Settle(t) \/ Rollback(t) \/ Learn(t))
                \/ (\E g \in Goals : PauseGoal(g))
       PROVE  UNCHANGED <<pc, goal, task>>
  BY <1>11 DEF PickNone, OtherTask, Tick, Settle, Rollback, Learn, PauseGoal, vars
<1>12. ASSUME NEW p \in Procs, p # q,
              GoesOn(p) \/ Crash(p) \/ PickDue(p) \/ PickNamed(p) \/ ResumeLoop(p)
       PROVE  HandOK(q)'
  BY <1>3, <1>4, <1>12
<1>13. CASE GoesOn(q) \/ Crash(q) \/ ResumeLoop(q)
  BY <1>5, <1>6, <1>7, <1>8, <1>10, <1>13 DEF GoesOn
<1>14. Runners \subseteq Procs /\ Users \subseteq Procs
  BY DEF Procs
<1>15. QED
  BY <1>2, <1>9, <1>11, <1>12, <1>13, <1>14 DEF Next

LEMMA InvStep ==
  ASSUME IInv, [Next]_vars
  PROVE  IInv'
BY TypeStep, BlankStep, HandStep, OrderStep DEF IInv

\* The invariant.
THEOREM Inductive == Spec => []IInv
BY InvInit, InvStep, PTL DEF Spec

\* The variables have their types: statuses are the words of the program, a
\* process has goals and tasks that exist, and the order lists tasks.
THEOREM TypeCorrect == Spec => []TypeOK
<1>1. IInv => TypeOK
  BY DEF IInv
<1>2. QED
  BY <1>1, Inductive, PTL

-----------------------------------------------------------------------------
(* Pending approvals are shown.                                            *)

LEMMA ShownStep ==
  ASSUME IInv, PendingIsShown, [Next]_vars
  PROVE  PendingIsShown'
<1>1. TypeOK /\ BlankOK /\ \A p \in Procs : HandOK(p)
  BY DEF IInv
<1> SUFFICES ASSUME NEW u \in Tasks, u \in (Loops \ edited)', pending'[u] > 0
             PROVE  status'[u] \in {"waiting_approval", "running"}
  BY DEF PendingIsShown, Loops
<1>2. ASSUME status'[u] = status[u], goalOf'[u] = goalOf[u], u \notin edited,
             pending[u] > 0
      PROVE  status'[u] \in {"waiting_approval", "running"}
  <2>1. u \in Loops \ edited
    BY <1>2 DEF Loops
  <2>2. QED
    BY <1>2, <2>1 DEF PendingIsShown
<1>3. CASE UNCHANGED <<status, goalOf, pending, edited>>
  BY <1>2, <1>3
<1>4. ASSUME NEW p \in Procs, Start(p)
      PROVE  status'[u] \in {"waiting_approval", "running"}
  <2>1. PICK t \in Tasks : /\ status' = [status EXCEPT ![t] = "running"]
                           /\ goalOf' = [goalOf EXCEPT ![t] = goal[p]]
    BY <1>4 DEF Start
  <2>2. CASE u = t
    BY <1>1, <2>1, <2>2 DEF TypeOK
  <2>3. CASE u # t
    <3>1. status'[u] = status[u] /\ goalOf'[u] = goalOf[u]
      BY <1>1, <2>1, <2>3 DEF TypeOK
    <3>2. pending' = pending /\ edited' = edited
      BY <1>4 DEF Start
    <3>3. QED
      BY <1>2, <3>1, <3>2
  <2>4. QED
    BY <2>2, <2>3
<1>5. ASSUME NEW p \in Procs, Begin(p)
      PROVE  status'[u] \in {"waiting_approval", "running"}
  <2>1. task[p] \in Tasks /\ status' = [status EXCEPT ![task[p]] = "running"]
    BY <1>1, <1>5 DEF Begin, At, HandOK
  <2>2. UNCHANGED <<goalOf, pending, edited>>
    BY <1>5 DEF Begin
  <2>3. status'[u] \in {"running", status[u]}
    BY <1>1, <2>1 DEF TypeOK
  <2>4. QED
    BY <1>2, <2>2, <2>3
<1>6. ASSUME NEW p \in Procs, Finish(p)
      PROVE  status'[u] \in {"waiting_approval", "running"}
  <2>1. task[p] \in Tasks
    BY <1>1, <1>6 DEF Finish, At, HandOK
  <2>2. PICK new \in 0 .. 1, safe \in {"none", "executed", "blocked"} :
          LET t == task[p]
              all == pending[t] + new
              bad == broken[t] \/ safe = "blocked"
              any == used[t] \/ new > 0 \/ safe # "none"
          IN /\ pending' = [pending EXCEPT ![t] = all]
             /\ status' = [status EXCEPT ![t] = StatusAfter(all, new, bad, any)]
    BY <1>6 DEF Finish
  <2>3. CASE u = task[p]
    <3>1. \E all, bad, any : /\ pending'[u] = all
                             /\ status'[u] = StatusAfter(all, new, bad, any)
      BY <1>1, <2>1, <2>2, <2>3 DEF TypeOK
    <3>2. QED
      BY <3>1 DEF StatusAfter
  <2>4. CASE u # task[p]
    <3>1. status'[u] = status[u] /\ pending'[u] = pending[u]
      BY <1>1, <2>1, <2>2, <2>4 DEF TypeOK
    <3>2. goalOf' = goalOf /\ u \notin edited
      BY <1>6, <2>4 DEF Finish
    <3>3. QED
      BY <1>2, <3>1, <3>2
  <2>5. QED
    BY <2>3, <2>4
<1>7. ASSUME NEW t \in Tasks, Settle(t)
      PROVE  status'[u] \in {"waiting_approval", "running"}
  <2>1. pending[u] > 0
    BY <1>1, <1>7 DEF Settle, TypeOK
  <2>2. QED
    BY <1>2, <1>7, <2>1 DEF Settle
<1>8. ASSUME NEW t \in Tasks, Rollback(t)
      PROVE  status'[u] \in {"waiting_approval", "running"}
  <2>1. u # t /\ u \notin edited
    BY <1>8 DEF Rollback
  <2>2. pending'[u] = pending[u]
    BY <1>1, <1>8, <2>1 DEF Rollback, TypeOK
  <2>3. QED
    BY <1>2, <1>8, <2>1, <2>2 DEF Rollback
<1>9. ASSUME NEW t \in Tasks, Learn(t)
      PROVE  status'[u] \in {"waiting_approval", "running"}
  <2>1. u # t /\ u \notin edited
    BY <1>9 DEF Learn
  <2>2. status'[u] = status[u]
    BY <1>1, <1>9, <2>1 DEF Learn, TypeOK
  <2>3. QED
    BY <1>2, <1>9, <2>1, <2>2 DEF Learn
<1>10. ASSUME OtherTask
       PROVE  status'[u] \in {"waiting_approval", "running"}
  <2>1. PICK t \in Tasks : status[t] = "absent" /\ status' = [status EXCEPT ![t] = "open"]
    BY <1>10 DEF OtherTask
  <2>2. pending' = pending /\ goalOf' = goalOf /\ edited' = edited
    BY <1>10 DEF OtherTask
  <2>3. u # t
    BY <1>1, <2>1, <2>2 DEF BlankOK
  <2>4. status'[u] = status[u]
    BY <1>1, <2>1, <2>3 DEF TypeOK
  <2>5. QED
    BY <1>2, <2>2, <2>4
<1>11. ASSUME NEW p \in Procs,
              Find(p) \/ Skip(p) \/ Recount(p) \/ Pause(p) \/ Reason(p) \/ Mark(p)
                \/ Crash(p) \/ PickDue(p) \/ PickNone(p) \/ PickNamed(p)
                \/ ResumeLoop(p)
       PROVE  UNCHANGED <<status, goalOf, pending, edited>>
  BY <1>11 DEF Find, Skip, Recount, Pause, Reason, Mark, Crash, PickDue, PickNone,
               PickNamed, ResumeLoop, tasks
<1>12. ASSUME (\E g \in Goals : PauseGoal(g)) \/ Tick \/ UNCHANGED vars
       PROVE  UNCHANGED <<status, goalOf, pending, edited>>
  BY <1>12 DEF PauseGoal, Tick, vars, tasks
<1>13. Runners \subseteq Procs /\ Users \subseteq Procs
  BY DEF Procs
<1>14. QED
  BY <1>3, <1>4, <1>5, <1>6, <1>7, <1>8, <1>9, <1>10, <1>11, <1>12, <1>13
     DEF Next, GoesOn

\* A loop with pending approvals has a status that says so, whatever cycles
\* other processes end on it (_finish_cycle counts all its actions), until the
\* user bypasses the loop.
THEOREM PendingShown == Spec => []PendingIsShown
<1>1. Init => PendingIsShown
  BY DEF Init, PendingIsShown, Loops, None
<1>2. IInv /\ PendingIsShown /\ [Next]_vars => PendingIsShown'
  BY ShownStep
<1>3. QED
  BY <1>1, <1>2, Inductive, PTL DEF Spec

-----------------------------------------------------------------------------
(* The approval queue.                                                     *)

LEMMA FiniteProcs ==
  /\ IsFiniteSet(Procs) /\ Cardinality(Procs) \in Nat
  /\ IsFiniteSet(Runners) /\ Cardinality(Runners) \in Nat
  /\ \A S : S \subseteq Procs => /\ IsFiniteSet(S) /\ Cardinality(S) \in Nat
                                 /\ Cardinality(S) <= Cardinality(Procs)
<1>1. IsFiniteSet(Procs)
  BY GoalAssumption, FS_Union DEF Procs
<1>2. IsFiniteSet(Runners)
  BY GoalAssumption
<1>3. ASSUME NEW S, S \subseteq Procs
      PROVE  IsFiniteSet(S) /\ Cardinality(S) <= Cardinality(Procs)
  BY <1>1, <1>3, FS_Subset
<1>4. \A S : IsFiniteSet(S) => Cardinality(S) \in Nat
  BY FS_CardinalityType
<1>5. QED
  BY <1>1, <1>2, <1>3, <1>4

\* A process moves alone.
LEMMA OwnStep ==
  ASSUME IInv, NEW p \in Procs, NEW q \in Procs \ {p},
         GoesOn(p) \/ Crash(p) \/ PickDue(p) \/ PickNamed(p) \/ ResumeLoop(p)
  PROVE  pc'[q] = pc[q] /\ goal'[q] = goal[q] /\ task'[q] = task[q]
<1>1. TypeOK
  BY DEF IInv
<1>2. \E where : Goto(p, where)
  BY DEF GoesOn, Find, Skip, Start, Recount, Pause, Begin, Reason, Finish, Mark,
         Crash, PickDue, PickNamed, ResumeLoop
<1>3. \E x : goal' = [goal EXCEPT ![p] = x] \/ goal' = goal
  BY DEF GoesOn, Find, Skip, Start, Recount, Pause, Begin, Reason, Finish, Mark,
         Crash, PickDue, PickNamed, ResumeLoop
<1>4. \E x : task' = [task EXCEPT ![p] = x] \/ task' = task
  BY DEF GoesOn, Find, Skip, Start, Recount, Pause, Begin, Reason, Finish, Mark,
         Crash, PickDue, PickNamed, ResumeLoop
<1>5. QED
  BY <1>1, <1>2, <1>3, <1>4 DEF Goto, TypeOK

\* How the processes in a cycle on a loop change as one of them moves.
LEMMA CycleCount ==
  ASSUME IInv, NEW p \in Procs, NEW u,
         \A q \in Procs \ {p} : pc'[q] = pc[q] /\ task'[q] = task[q]
  PROVE  /\ Cardinality(InCycle(u)) \in Nat /\ Cardinality(InCycle(u)') \in Nat
         /\ Cardinality(InCycle(u)') <= Cardinality(Procs)
         /\ p \notin InCycle(u)' \/ p \in InCycle(u) =>
              Cardinality(InCycle(u)') <= Cardinality(InCycle(u))
         /\ p \notin InCycle(u)' /\ p \in InCycle(u) =>
              Cardinality(InCycle(u)') = Cardinality(InCycle(u)) - 1
<1>1. InCycle(u) \subseteq Procs /\ InCycle(u)' \subseteq Procs
  BY DEF InCycle
<1>2. IsFiniteSet(InCycle(u)) /\ IsFiniteSet(InCycle(u)')
  BY <1>1, FiniteProcs
<1>3. /\ Cardinality(InCycle(u)) \in Nat /\ Cardinality(InCycle(u)') \in Nat
      /\ Cardinality(InCycle(u)') <= Cardinality(Procs)
  BY <1>1, FiniteProcs
<1>4. \A q \in Procs \ {p} : q \in InCycle(u)' <=> q \in InCycle(u)
  BY DEF InCycle
<1>5. ASSUME p \notin InCycle(u)' \/ p \in InCycle(u)
      PROVE  Cardinality(InCycle(u)') <= Cardinality(InCycle(u))
  <2>1. InCycle(u)' \subseteq InCycle(u)
    BY <1>1, <1>4, <1>5
  <2>2. QED
    BY <1>2, <2>1, FS_Subset
<1>6. ASSUME p \notin InCycle(u)', p \in InCycle(u)
      PROVE  Cardinality(InCycle(u)') = Cardinality(InCycle(u)) - 1
  <2>1. InCycle(u)' = InCycle(u) \ {p}
    BY <1>1, <1>4, <1>6
  <2>2. QED
    BY <1>2, <1>6, <2>1, FS_RemoveElement
<1>7. QED
  BY <1>3, <1>5, <1>6

LEMMA QueueStep ==
  ASSUME IInv, QueueOK, [Next]_vars
  PROVE  QueueOK'
<1>1. TypeOK /\ BlankOK /\ \A p \in Procs : HandOK(p)
  BY DEF IInv
<1> SUFFICES ASSUME NEW u \in Tasks
             PROVE  pending'[u] + Cardinality(InCycle(u)')
                      <= Cardinality(Procs) + edits'
  BY DEF QueueOK
<1>2. /\ pending[u] + Cardinality(InCycle(u)) <= Cardinality(Procs) + edits
      /\ pending[u] \in Nat /\ edits \in Nat /\ Cardinality(Procs) \in Nat
  BY <1>1, FiniteProcs, GoalAssumption DEF QueueOK, TypeOK
<1>3. Cardinality(InCycle(u)) \in Nat
  BY FiniteProcs DEF InCycle
<1>4. ASSUME pending'[u] = pending[u], UNCHANGED <<pc, task>>, edits' \in {edits, edits + 1}
      PROVE  pending'[u] + Cardinality(InCycle(u)') <= Cardinality(Procs) + edits'
  <2>1. InCycle(u)' = InCycle(u)
    BY <1>4 DEF InCycle
  <2>2. QED
    BY <1>2, <1>3, <1>4, <2>1
<1>5. ASSUME NEW p \in Procs,
             GoesOn(p) \/ Crash(p) \/ PickDue(p) \/ PickNamed(p) \/ ResumeLoop(p),
             pending' = pending, edits' = edits,
             p \notin InCycle(u)' \/ p \in InCycle(u)
      PROVE  pending'[u] + Cardinality(InCycle(u)') <= Cardinality(Procs) + edits'
  <2>1. /\ Cardinality(InCycle(u)') <= Cardinality(InCycle(u))
        /\ Cardinality(InCycle(u)') \in Nat
    BY <1>5, OwnStep, CycleCount
  <2>2. QED
    BY <1>2, <1>3, <1>5, <2>1
<1>6. ASSUME NEW p \in Procs, GoesOn(p), pending'[u] = 0, edits' = edits
      PROVE  pending'[u] + Cardinality(InCycle(u)') <= Cardinality(Procs) + edits'
  <2>1. /\ Cardinality(InCycle(u)') <= Cardinality(Procs)
        /\ Cardinality(InCycle(u)') \in Nat
    BY <1>6, OwnStep, CycleCount
  <2>2. QED
    BY <1>2, <1>6, <2>1
<1>7. ASSUME NEW p \in Procs,
             Find(p) \/ Skip(p) \/ Pause(p) \/ Mark(p) \/ Crash(p) \/ PickDue(p)
               \/ PickNamed(p) \/ ResumeLoop(p)
      PROVE  pending'[u] + Cardinality(InCycle(u)') <= Cardinality(Procs) + edits'
  <2>1. pending' = pending /\ edits' = edits
    BY <1>7 DEF Find, Skip, Pause, Mark, Crash, PickDue, PickNamed, ResumeLoop, tasks,
                bounds
  <2>2. pc'[p] \in {"start", "skip", "resume", "idle", "mark", "find"}
    BY <1>1, <1>7, GotoTypes
       DEF Find, Skip, Pause, Mark, Crash, PickDue, PickNamed, ResumeLoop
  <2>3. p \notin InCycle(u)'
    BY <2>2 DEF InCycle
  <2>4. QED
    BY <1>5, <1>7, <2>1, <2>3 DEF GoesOn
<1>8. ASSUME NEW p \in Procs, Begin(p) \/ Reason(p)
      PROVE  pending'[u] + Cardinality(InCycle(u)') <= Cardinality(Procs) + edits'
  <2>1. pending' = pending /\ edits' = edits /\ task' = task
    BY <1>8 DEF Begin, Reason, tasks, bounds
  <2>2. pc[p] \in {"begin", "reason"}
    BY <1>8 DEF Begin, Reason, At
  <2>3. p \notin InCycle(u)' \/ p \in InCycle(u)
    BY <2>1, <2>2 DEF InCycle
  <2>4. QED
    BY <1>5, <1>8, <2>1, <2>3 DEF GoesOn
<1>9. ASSUME NEW p \in Procs, Recount(p)
      PROVE  pending'[u] + Cardinality(InCycle(u)') <= Cardinality(Procs) + edits'
  <2>1. pending' = pending /\ edits' = edits /\ task' = task
    BY <1>9 DEF Recount, tasks, bounds
  <2>2. CASE task[p] = u /\ Clear(u)
    BY <1>6, <1>9, <2>1, <2>2 DEF Clear, GoesOn
  <2>3. CASE ~(task[p] = u /\ Clear(u))
    <3>1. task[p] # u \/ pc'[p] = "pause"
      BY <1>1, <1>9, <2>3, GotoTypes DEF Recount
    <3>2. p \notin InCycle(u)'
      BY <2>1, <3>1 DEF InCycle
    <3>3. QED
      BY <1>5, <1>9, <2>1, <3>2 DEF GoesOn
  <2>4. QED
    BY <2>2, <2>3
<1>10. ASSUME NEW p \in Procs, Start(p)
       PROVE  pending'[u] + Cardinality(InCycle(u)') <= Cardinality(Procs) + edits'
  <2>1. PICK t \in Tasks : status[t] = "absent" /\ task' = [task EXCEPT ![p] = t]
    BY <1>10 DEF Start
  <2>2. pending' = pending /\ edits' = edits
    BY <1>10 DEF Start, bounds
  <2>3. CASE u = t
    <3>1. pending'[u] = 0
      BY <1>1, <2>1, <2>2, <2>3 DEF BlankOK
    <3>2. QED
      BY <1>6, <1>10, <2>2, <3>1 DEF GoesOn
  <2>4. CASE u # t
    <3>1. p \notin InCycle(u)'
      BY <1>1, <2>1, <2>4 DEF InCycle, TypeOK
    <3>2. QED
      BY <1>5, <1>10, <2>2, <3>1 DEF GoesOn
  <2>5. QED
    BY <2>3, <2>4
<1>11. ASSUME NEW p \in Procs, Finish(p)
       PROVE  pending'[u] + Cardinality(InCycle(u)') <= Cardinality(Procs) + edits'
  <2>1. task[p] \in Tasks /\ task' = task /\ edits' = edits /\ pc[p] = "finish"
    BY <1>1, <1>11 DEF Finish, At, HandOK, bounds
  <2>2. PICK new \in 0 .. 1 : pending' = [pending EXCEPT ![task[p]] = pending[task[p]] + new]
    BY <1>11 DEF Finish
  <2>3. p \notin InCycle(u)'
    <3>1. pc'[p] = "mark"
      BY <1>1, <1>11, GotoTypes DEF Finish
    <3>2. QED
      BY <3>1 DEF InCycle
  <2>4. CASE u = task[p]
    <3>1. p \in InCycle(u)
      BY <2>1, <2>4 DEF InCycle
    <3>2. Cardinality(InCycle(u)') = Cardinality(InCycle(u)) - 1
      BY <1>11, <2>3, <3>1, OwnStep, CycleCount DEF GoesOn
    <3>3. pending'[u] = pending[u] + new
      BY <1>1, <2>1, <2>2, <2>4 DEF TypeOK
    <3>4. QED
      BY <1>2, <1>3, <2>1, <3>2, <3>3
  <2>5. CASE u # task[p]
    <3>1. pending'[u] = pending[u]
      BY <1>1, <2>1, <2>2, <2>5 DEF TypeOK
    <3>2. /\ Cardinality(InCycle(u)') <= Cardinality(InCycle(u))
          /\ Cardinality(InCycle(u)') \in Nat
      BY <1>11, <2>3, OwnStep, CycleCount DEF GoesOn
    <3>3. QED
      BY <1>2, <1>3, <2>1, <3>1, <3>2
  <2>6. QED
    BY <2>4, <2>5
<1>12. ASSUME NEW t \in Tasks, Settle(t) \/ Rollback(t)
       PROVE  pending'[u] + Cardinality(InCycle(u)') <= Cardinality(Procs) + edits'
  <2>1. InCycle(u)' = InCycle(u)
    BY <1>12 DEF Settle, Rollback, InCycle
  <2>2. CASE Settle(t)
    <3>1. pending'[u] \in {pending[u], pending[u] - 1} /\ edits' = edits
      BY <1>1, <2>2 DEF Settle, TypeOK, bounds
    <3>2. QED
      BY <1>2, <1>3, <2>1, <3>1
  <2>3. CASE Rollback(t)
    <3>1. pending'[u] \in {pending[u], pending[u] + 1} /\ edits' = edits + 1
      BY <1>1, <2>3 DEF Rollback, TypeOK
    <3>2. QED
      BY <1>2, <1>3, <2>1, <3>1
  <2>4. QED
    BY <1>12, <2>2, <2>3
<1>13. ASSUME (\E p \in Runners : PickNone(p)) \/ (\E t \in Tasks : Learn(t))
                \/ (\E g \in Goals : PauseGoal(g)) \/ OtherTask \/ Tick \/ UNCHANGED vars
       PROVE  pending'[u] + Cardinality(InCycle(u)') <= Cardinality(Procs) + edits'
  <2>1. UNCHANGED <<pending, pc, task>> /\ edits' \in {edits, edits + 1}
    BY <1>13 DEF PickNone, Learn, PauseGoal, OtherTask, Tick, vars, tasks, bounds
  <2>2. QED
    BY <1>4, <2>1
<1>14. Runners \subseteq Procs /\ Users \subseteq Procs
  BY DEF Procs
<1>15. QED
  BY <1>7, <1>8, <1>9, <1>10, <1>11, <1>12, <1>13, <1>14 DEF Next, GoesOn

\* The approval queue of a loop holds at most what one cycle of each process
\* proposes and what the user rolls back: resume_loop begins a cycle on an empty
\* queue only, but nothing keeps two processes from beginning one each.
THEOREM QueuesAreBounded == Spec => []OneCyclePending
<1>1. Init => QueueOK
  <2> SUFFICES ASSUME Init, NEW t \in Tasks
               PROVE  pending[t] + Cardinality(InCycle(t)) <= Cardinality(Procs) + edits
    BY DEF QueueOK
  <2>1. InCycle(t) = {}
    BY DEF Init, InCycle
  <2>2. QED
    BY <2>1, FS_EmptySet, FiniteProcs DEF Init
<1>2. IInv /\ QueueOK /\ [Next]_vars => QueueOK'
  BY QueueStep
<1>3. IInv /\ QueueOK => OneCyclePending
  <2> SUFFICES ASSUME IInv, QueueOK, NEW t \in Loops
               PROVE  pending[t] <= Cardinality(Procs) + edits
    BY DEF OneCyclePending
  <2>1. /\ t \in Tasks /\ pending[t] \in Nat /\ edits \in Nat
        /\ Cardinality(Procs) \in Nat /\ Cardinality(InCycle(t)) \in Nat
    BY FiniteProcs, GoalAssumption DEF IInv, TypeOK, Loops, InCycle
  <2>2. QED
    BY <2>1 DEF QueueOK
<1>4. QED
  BY <1>1, <1>2, <1>3, Inductive, PTL DEF Spec

-----------------------------------------------------------------------------
(* One loop per goal.                                                      *)

\* While all tasks fit into the window of find_goal_loop, a goal for which no
\* loop is found has none.
LEMMA FindSees ==
  ASSUME IInv, Len(order) <= Window, NEW g \in Goals, LoopsOf(g) = {}
  PROVE  LoopsFor(g) = {}
<1>1. order \in Seq(Tasks) /\ OrderOK /\ Window \in Nat
  BY GoalAssumption DEF IInv, TypeOK
<1>2. Len(order) \in Nat /\ DOMAIN order = 1 .. Len(order)
  BY <1>1
<1> SUFFICES ASSUME NEW t \in LoopsFor(g)
             PROVE  FALSE
  OBVIOUS
<1>4. t \in Tasks /\ status[t] # "absent" /\ goalOf[t] = g
  BY DEF LoopsFor, Loops
<1>5. PICK i \in DOMAIN order : order[i] = t
  BY <1>1, <1>4 DEF OrderOK
<1>6. i + Window > Len(order)
  BY <1>1, <1>2
<1>7. i \in LoopsOf(g)
  BY <1>2, <1>4, <1>5, <1>6 DEF LoopsOf
<1>8. QED
  BY <1>7

\* The goal of a task is set as its loop is started, and by nothing else.
LEMMA GoalsStay ==
  ASSUME IInv, [Next]_vars
  PROVE  \/ goalOf' = goalOf
         \/ \E p \in Procs : Start(p)
<1>1. ASSUME NEW p \in Procs,
             Find(p) \/ Skip(p) \/ Recount(p) \/ Pause(p) \/ Begin(p) \/ Reason(p)
               \/ Finish(p) \/ Mark(p) \/ Crash(p) \/ PickDue(p) \/ PickNone(p)
               \/ PickNamed(p) \/ ResumeLoop(p)
      PROVE  goalOf' = goalOf
  BY <1>1 DEF Find, Skip, Recount, Pause, Begin, Reason, Finish, Mark, Crash, PickDue,
              PickNone, PickNamed, ResumeLoop, tasks
<1>2. ASSUME (\E t \in Tasks : Settle(t) \/ Rollback(t) \/ Learn(t))
               \/ (\E g \in Goals : PauseGoal(g)) \/ OtherTask \/ Tick \/ UNCHANGED vars
      PROVE  goalOf' = goalOf
  BY <1>2 DEF Settle, Rollback, Learn, PauseGoal, OtherTask, Tick, vars, tasks
<1>3. Runners \subseteq Procs /\ Users \subseteq Procs
  BY DEF Procs
<1>4. QED
  BY <1>1, <1>2, <1>3 DEF Next, GoesOn

\* Somebody becomes a starter only by not finding a loop.
LEMMA StartersStep ==
  ASSUME IInv, [Next]_vars, NEW g \in Goals, ~(Starters(g)' \subseteq Starters(g))
  PROVE  \E p \in Procs : Find(p) /\ LoopsOf(g) = {} /\ UNCHANGED tasks
<1>1. TypeOK /\ Runners \subseteq Procs /\ Users \subseteq Procs
  BY DEF IInv, Procs
<1>2. PICK q \in Runners : /\ pc'[q] = "start" /\ goal'[q] = g
                           /\ ~(pc[q] = "start" /\ goal[q] = g)
  BY DEF Starters
<1>3. ~UNCHANGED <<pc, goal>>
  BY <1>2
<1>4. ASSUME NEW p \in Procs,
             GoesOn(p) \/ Crash(p) \/ PickDue(p) \/ PickNamed(p) \/ ResumeLoop(p)
      PROVE  p = q
  BY <1>1, <1>2, <1>4, OwnStep
<1>5. ASSUME NEW p \in Procs, Skip(p) \/ Start(p) \/ Recount(p) \/ Pause(p) \/ Begin(p)
               \/ Reason(p) \/ Finish(p) \/ Mark(p) \/ Crash(p) \/ PickDue(p)
               \/ PickNamed(p) \/ ResumeLoop(p)
      PROVE  FALSE
  <2>1. p = q
    BY <1>4, <1>5 DEF GoesOn
  <2>2. pc'[p] # "start"
    <3>1. \E where \in {"idle", "reason", "begin", "pause", "mark", "finish", "find",
                        "resume"} : Goto(p, where)
      BY <1>5 DEF Skip, Start, Recount, Pause, Begin, Reason, Finish, Mark, Crash,
                  PickDue, PickNamed, ResumeLoop
    <3>2. QED
      BY <1>1, <3>1, GotoTypes
  <2>3. QED
    BY <1>2, <2>1, <2>2
<1>6. ASSUME NEW p \in Procs, PickNone(p)
      PROVE  FALSE
  BY <1>3, <1>6 DEF PickNone
<1>7. ASSUME (\E t \in Tasks : Settle(t) \/ Rollback(t) \/ Learn(t))
               \/ (\E h \in Goals : PauseGoal(h)) \/ OtherTask \/ Tick \/ UNCHANGED vars
      PROVE  FALSE
  BY <1>3, <1>7 DEF Settle, Rollback, Learn, PauseGoal, OtherTask, Tick, vars
<1>8. ASSUME NEW p \in Procs, Find(p)
      PROVE  LoopsOf(g) = {} /\ UNCHANGED tasks
  <2>1. p = q
    BY <1>4, <1>8 DEF GoesOn
  <2>2. goal[p] = g
    BY <1>2, <1>8, <2>1 DEF Find
  <2>3. CASE LoopsOf(goal[p]) = {}
    BY <1>8, <2>2, <2>3 DEF Find
  <2>4. CASE LoopsOf(goal[p]) # {}
    <3>1. \E where \in {"skip", "resume"} : Goto(p, where)
      BY <1>8, <2>4 DEF Find
    <3>2. QED
      BY <1>1, <1>2, <2>1, <3>1, GotoTypes
  <2>5. QED
    BY <2>3, <2>4
<1>9. QED
  BY <1>1, <1>5, <1>6, <1>7, <1>8 DEF Next, GoesOn

LEMMA LoopsStep ==
  ASSUME IInv, LoopsOK, [Next]_vars
  PROVE  LoopsOK'
<1>1. /\ TypeOK /\ BlankOK /\ (\A p \in Procs : HandOK(p)) /\ TypeOK'
      /\ Runners \subseteq Procs
  BY TypeStep DEF IInv, Procs
<1> SUFFICES ASSUME Len(order') <= Window, NEW g \in Goals
             PROVE  Cardinality(LoopsFor(g)') + Cardinality(Starters(g)')
                      <= Cardinality(Runners)
  BY DEF LoopsOK
<1>0. Len(order) <= Window
  BY GoalAssumption, OrderGrows
<1>2. g # None
  BY GoalAssumption DEF None
<1>3. /\ LoopsFor(g) \subseteq Tasks /\ LoopsFor(g)' \subseteq Tasks
      /\ Starters(g) \subseteq Runners /\ Starters(g)' \subseteq Runners
  BY DEF LoopsFor, Loops, Starters
<1>4. /\ IsFiniteSet(LoopsFor(g)) /\ IsFiniteSet(LoopsFor(g)')
      /\ IsFiniteSet(Starters(g)) /\ IsFiniteSet(Starters(g)')
  BY <1>3, FiniteProcs, GoalAssumption, FS_Subset
<1>5. /\ Cardinality(LoopsFor(g)) \in Nat /\ Cardinality(LoopsFor(g)') \in Nat
      /\ Cardinality(Starters(g)) \in Nat /\ Cardinality(Starters(g)') \in Nat
      /\ Cardinality(Runners) \in Nat
  BY <1>4, FiniteProcs, FS_CardinalityType
<1>6. Cardinality(LoopsFor(g)) + Cardinality(Starters(g)) <= Cardinality(Runners)
  BY <1>0 DEF LoopsOK
<1>7. ASSUME UNCHANGED goalOf
      PROVE  Cardinality(LoopsFor(g)') <= Cardinality(LoopsFor(g))
  <2>1. LoopsFor(g)' \subseteq LoopsFor(g)
    BY <1>1, <1>2, <1>7 DEF LoopsFor, Loops, BlankOK
  <2>2. QED
    BY <1>4, <2>1, FS_Subset
<1>8. CASE UNCHANGED goalOf /\ Starters(g)' \subseteq Starters(g)
  <2>1. Cardinality(Starters(g)') <= Cardinality(Starters(g))
    BY <1>4, <1>8, FS_Subset
  <2>2. QED
    BY <1>5, <1>6, <1>7, <1>8, <2>1
<1>9. CASE ~(Starters(g)' \subseteq Starters(g))
  <2>1. LoopsOf(g) = {} /\ UNCHANGED <<status, goalOf>>
    BY <1>9, StartersStep DEF tasks
  <2>2. LoopsFor(g)' = {}
    BY <1>0, <2>1, FindSees DEF LoopsFor, Loops
  <2>3. Cardinality(LoopsFor(g)') = 0
    BY <2>2, FS_EmptySet
  <2>4. Cardinality(Starters(g)') <= Cardinality(Runners)
    BY <1>3, FiniteProcs, FS_Subset
  <2>5. QED
    BY <1>5, <2>3, <2>4
<1>10. ASSUME NEW p \in Procs, Start(p), Starters(g)' \subseteq Starters(g)
       PROVE  Cardinality(LoopsFor(g)') + Cardinality(Starters(g)')
                <= Cardinality(Runners)
  <2>1. PICK t \in Tasks : /\ status[t] = "absent"
                           /\ status' = [status EXCEPT ![t] = "running"]
                           /\ goalOf' = [goalOf EXCEPT ![t] = goal[p]]
    BY <1>10 DEF Start
  <2>2. goal[p] \in Goals /\ p \in Runners /\ pc[p] = "start" /\ pc'[p] = "reason"
    BY <1>1, <1>10, GotoTypes DEF Start, At, HandOK
  <2>3. CASE goal[p] # g
    <3>1. LoopsFor(g)' \subseteq LoopsFor(g)
      BY <1>1, <2>1, <2>3 DEF LoopsFor, Loops, TypeOK
    <3>2. Cardinality(LoopsFor(g)') <= Cardinality(LoopsFor(g))
      BY <1>4, <3>1, FS_Subset
    <3>3. Cardinality(Starters(g)') <= Cardinality(Starters(g))
      BY <1>4, <1>10, FS_Subset
    <3>4. QED
      BY <1>5, <1>6, <3>2, <3>3
  <2>4. CASE goal[p] = g
    <3>1. LoopsFor(g)' \subseteq LoopsFor(g) \cup {t}
      BY <1>1, <2>1 DEF LoopsFor, Loops, TypeOK
    <3>2. Cardinality(LoopsFor(g)') <= Cardinality(LoopsFor(g)) + 1
      <4>1. /\ IsFiniteSet(LoopsFor(g) \cup {t})
            /\ Cardinality(LoopsFor(g) \cup {t}) <= Cardinality(LoopsFor(g)) + 1
        <5>1. /\ IsFiniteSet(LoopsFor(g) \cup {t})
              /\ Cardinality(LoopsFor(g) \cup {t})
                   \in {Cardinality(LoopsFor(g)), Cardinality(LoopsFor(g)) + 1}
          BY <1>4, FS_AddElement
        <5>2. QED
          BY <1>5, <5>1
      <4>2. Cardinality(LoopsFor(g)') <= Cardinality(LoopsFor(g) \cup {t})
        BY <3>1, <4>1, FS_Subset
      <4>3. Cardinality(LoopsFor(g) \cup {t}) \in Nat
        BY <4>1, FS_CardinalityType
      <4>4. QED
        BY <1>5, <4>1, <4>2, <4>3
    <3>3. p \in Starters(g) /\ Starters(g)' \subseteq Starters(g) \ {p}
      BY <1>10, <2>2, <2>4 DEF Starters
    <3>4. Cardinality(Starters(g)') <= Cardinality(Starters(g)) - 1
      <4>1. /\ IsFiniteSet(Starters(g) \ {p})
            /\ Cardinality(Starters(g) \ {p}) = Cardinality(Starters(g)) - 1
        BY <1>4, <3>3, FS_RemoveElement
      <4>2. Cardinality(Starters(g)') <= Cardinality(Starters(g) \ {p})
        BY <3>3, <4>1, FS_Subset
      <4>3. QED
        BY <4>1, <4>2
    <3>5. QED
      BY <1>5, <1>6, <3>2, <3>4
  <2>5. QED
    BY <2>3, <2>4
<1>11. QED
  BY <1>8, <1>9, <1>10, GoalsStay

\* The first look of a process that goes on to a start.
LEMMA LookStep ==
  ASSUME IInv, [Next]_vars, Len(order) <= Window,
         NEW p \in Runners, pc[p] # "start", pc'[p] = "start"
  PROVE  LoopsFor(goal[p]) = {}
<1>1. p \in Procs
  BY DEF Procs
<1>2. HandOK(p)'
  BY <1>1, HandStep
<1>3. PICK g \in Goals : goal'[p] = g
  BY <1>2 DEF HandOK
<1>4. p \in Starters(g)' /\ p \notin Starters(g)
  BY <1>3 DEF Starters
<1>5. PICK q \in Procs : Find(q) /\ LoopsOf(g) = {} /\ UNCHANGED tasks
  BY <1>4, StartersStep
<1>6. goal' = goal
  BY <1>5 DEF Find
<1>7. LoopsFor(g) = {}
  BY <1>5, FindSees
<1>8. QED
  BY <1>3, <1>6, <1>7

\* "Start a loop for a selected goal that has no existing loop."
\* (docs/BOUNDED_AUTONOMY.md:189): find_goal_loop and the INSERT of start_loop
\* are no transaction, so every process that runs the scheduler may start a loop
\* of the same goal; but only if it looked while there was none, and not more
\* than one each, whoever is killed, paused or resumed.
THEOREM OneLoopHolds == Spec => OneLoopPerLook
<1> DEFINE Bound == Len(order) <= Window =>
                      \A g \in Goals : Cardinality(LoopsFor(g)) <= Cardinality(Runners)
           Look == Len(order) <= Window =>
                     \A p \in Runners : pc[p] # "start" /\ pc'[p] = "start"
                                        => LoopsFor(goal[p]) = {}
<1>1. Init => LoopsOK
  <2> SUFFICES ASSUME Init, NEW g \in Goals
               PROVE  Cardinality(LoopsFor(g)) + Cardinality(Starters(g))
                        <= Cardinality(Runners)
    BY DEF LoopsOK
  <2>1. LoopsFor(g) = {} /\ Starters(g) = {}
    BY DEF Init, LoopsFor, Loops, Starters, Procs
  <2>2. Cardinality(LoopsFor(g)) = 0 /\ Cardinality(Starters(g)) = 0
    BY <2>1, FS_EmptySet
  <2>3. QED
    BY <2>2, FiniteProcs
<1>2. IInv /\ LoopsOK /\ [Next]_vars => LoopsOK'
  BY LoopsStep
<1>3. LoopsOK => Bound
  <2> SUFFICES ASSUME LoopsOK, Len(order) <= Window, NEW g \in Goals
               PROVE  Cardinality(LoopsFor(g)) <= Cardinality(Runners)
    OBVIOUS
  <2>1. LoopsFor(g) \subseteq Tasks /\ Starters(g) \subseteq Runners
    BY DEF LoopsFor, Loops, Starters
  <2>2. IsFiniteSet(LoopsFor(g)) /\ IsFiniteSet(Starters(g))
    BY <2>1, FiniteProcs, GoalAssumption, FS_Subset
  <2>3. Cardinality(LoopsFor(g)) \in Nat /\ Cardinality(Starters(g)) \in Nat
    BY <2>2, FS_CardinalityType
  <2>4. QED
    BY <2>3, FiniteProcs DEF LoopsOK
<1>4. IInv /\ [Next]_vars => [Look]_vars
  BY LookStep
<1>5. IInv => TypeOK
  BY DEF IInv
<1> HIDE DEF Bound, Look
<1>6. Spec => [](TypeOK /\ Bound) /\ [][Look]_vars
  BY <1>1, <1>2, <1>3, <1>4, <1>5, Inductive, PTL DEF Spec
<1>7. QED
  BY <1>6, PTL DEF Bound, Look, OneLoopPerLook
=============================================================================
