-------------------------- MODULE Reminders_proofs ---------------------------
(***************************************************************************)
(* For every number of reminders, scheduler ticks and users: the variables *)
(* keep their types, a reminder fires at most once for its creation and    *)
(* once for each snooze, nothing fires silently, and a tick never takes    *)
(* back a reminder that was completed or cancelled.                        *)
(***************************************************************************)
EXTENDS Reminders, FiniteSetTheorems, TLAPS

-----------------------------------------------------------------------------
(* Types.                                                                  *)

LEMMA TypeInit == Init => TypeOK
BY DEF Init, TypeOK

LEMMA ResetTypes ==
  ASSUME TypeOK, NEW t \in Ticks, ResetTick(t)
  PROVE  /\ writer' \in Ticks \cup {NoTick}
         /\ pc' \in [Ticks -> {"off", "next", "mark"}]
         /\ due' \in [Ticks -> SUBSET Reminders]
         /\ current' \in [Ticks -> SUBSET Reminders]
         /\ marked' \in [Ticks -> SUBSET Reminders]
         /\ logged' \in [Ticks -> SUBSET Reminders]
BY DEF TypeOK, ResetTick

LEMMA TypeStep == TypeOK /\ [Next]_vars => TypeOK'
<1> SUFFICES ASSUME TypeOK, [Next]_vars
             PROVE  TypeOK'
  OBVIOUS
<1> USE DEF rows, tickVars, history
<1>1. ASSUME NEW r \in Reminders, Create(r)
      PROVE  TypeOK'
  BY <1>1 DEF Create, TypeOK, Open
<1>2. ASSUME NEW r \in Reminders, NEW to \in Closed, Close(r, to)
      PROVE  TypeOK'
  BY <1>2 DEF Close, TypeOK
<1>3. ASSUME NEW u \in Users, NEW r \in Reminders, SnoozeRead(u, r)
      PROVE  TypeOK'
  <2> DEFINE base == IF clock < at[r] THEN at[r] ELSE clock
  <2>1. base + 1 \in Nat
    BY DEF TypeOK
  <2>2. {[row |-> r, to |-> base + 1]} \subseteq [row : Reminders, to : Nat]
    BY <2>1
  <2>3. snoozing' \in [Users -> SUBSET [row : Reminders, to : Nat]]
    BY <1>3, <2>2 DEF SnoozeRead, TypeOK
  <2>4. QED
    BY <1>3, <2>3 DEF SnoozeRead, TypeOK
<1>4. ASSUME NEW u \in Users, SnoozeWrite(u)
      PROVE  TypeOK'
  <2>1. PICK s \in snoozing[u] :
          /\ status' = [status EXCEPT ![s.row] = "pending"]
          /\ at' = [at EXCEPT ![s.row] = s.to]
          /\ snoozes' = [snoozes EXCEPT ![s.row] = @ + 1]
    BY <1>4 DEF SnoozeWrite
  <2>2. s.row \in Reminders /\ s.to \in Nat
    BY <2>1 DEF TypeOK
  <2>3. snoozing' \in [Users -> SUBSET [row : Reminders, to : Nat]]
    BY <1>4 DEF SnoozeWrite, TypeOK
  <2>4. QED
    BY <1>4, <2>1, <2>2, <2>3 DEF SnoozeWrite, TypeOK, Open
<1>5. ASSUME NEW u \in Users, SnoozeLost(u)
      PROVE  TypeOK'
  BY <1>5 DEF SnoozeLost, TypeOK
<1>6. ASSUME NEW t \in Ticks, Start(t)
      PROVE  TypeOK'
  BY <1>6 DEF Start, TypeOK
<1>7. ASSUME NEW t \in Ticks, Dispatch(t)
      PROVE  TypeOK'
  <2>1. PICK r \in due[t] :
          /\ due' = [due EXCEPT ![t] = @ \ {r}]
          /\ current' = [current EXCEPT ![t] = {r}]
          /\ notices' = [notices EXCEPT ![r] = @ + 1]
    BY <1>7 DEF Dispatch, Notify
  <2>2. r \in Reminders
    BY <2>1 DEF TypeOK
  <2>3. QED
    BY <1>7, <2>1, <2>2 DEF Dispatch, TypeOK
<1>8. ASSUME NEW t \in Ticks, Record(t)
      PROVE  TypeOK'
  BY <1>8 DEF Record, FiredBy, TypeOK
<1>9. ASSUME NEW t \in Ticks, Commit(t)
      PROVE  TypeOK'
  <2>1. status' \in [Reminders -> {"absent"} \cup Open \cup Closed]
    BY <1>9 DEF Commit, TypeOK, Open
  <2>2. fires' \in [Reminders -> Nat]
    BY <1>9 DEF Commit, TypeOK
  <2>3. inbox' \in [Texts -> {"none", "new", "triaged"}]
    BY <1>9 DEF Commit, Inboxed, TypeOK
  <2>4. QED
    BY <1>9, <2>1, <2>2, <2>3, ResetTypes DEF Commit, TypeOK
<1>10. ASSUME NEW t \in Ticks, GiveUp(t)
       PROVE  TypeOK'
  BY <1>10, ResetTypes DEF GiveUp, TypeOK
<1>11. ASSUME NEW t \in Ticks, Crash(t)
       PROVE  TypeOK'
  BY <1>11, ResetTypes DEF Crash, TypeOK
<1>12. CASE Triage
  BY <1>12 DEF Triage, TypeOK
<1>13. CASE ClockTick
  BY <1>13 DEF ClockTick, TypeOK
<1>14. CASE UNCHANGED vars
  BY <1>14 DEF vars, TypeOK
<1>15. QED
  BY <1>1, <1>2, <1>3, <1>4, <1>5, <1>6, <1>7, <1>8, <1>9, <1>10, <1>11,
     <1>12, <1>13, <1>14 DEF Next, Work

\* The variables keep their types.
THEOREM TypeCorrect == Spec => []TypeOK
BY TypeInit, TypeStep, PTL DEF Spec

-----------------------------------------------------------------------------
(* The inductive invariant.  A tick with uncommitted writes holds the      *)
(* lock, so what it marked is still pending; a row that is pending has a   *)
(* firing left; a notification is spent on one firing at most.             *)

Holding == \A t \in Ticks : marked[t] \cup logged[t] # {} => writer = t

MarkedArePending ==
  \A t \in Ticks : \A r \in marked[t] : status[r] = "pending" /\ r \in logged[t]

FiringsLeft ==
  \A r \in Reminders :
    /\ fires[r] + (IF status[r] = "pending" THEN 1 ELSE 0) <= 1 + snoozes[r]
    /\ status[r] = "absent" => fires[r] = 0

\* The ticks that have notified of r and may yet fire it.
Claims(r) == {t \in Ticks : r \in current[t] \cup marked[t]}

NoticesLeft ==
  \A r \in Reminders : fires[r] + Cardinality(Claims(r)) <= notices[r]

FiredAreInboxed ==
  \A r \in Reminders : fires[r] > 0 => inbox[TextOf[r]] # "none"

IInv == /\ TypeOK /\ Holding /\ MarkedArePending
        /\ FiringsLeft /\ NoticesLeft /\ FiredAreInboxed

Parts == /\ Holding /\ MarkedArePending
         /\ FiringsLeft /\ NoticesLeft /\ FiredAreInboxed

LEMMA ClaimsFinite ==
  ASSUME NEW r \in Reminders
  PROVE  /\ IsFiniteSet(Claims(r))
         /\ Cardinality(Claims(r)) \in Nat
BY RemindersAssumption, FS_Subset, FS_CardinalityType DEF Claims

\* Fewer claims cost fewer notices.
LEMMA FewerClaims ==
  ASSUME NEW r \in Reminders, Claims(r)' \subseteq Claims(r)
  PROVE  /\ Cardinality(Claims(r)') \in Nat
         /\ Cardinality(Claims(r)') <= Cardinality(Claims(r))
BY ClaimsFinite, FS_Subset, FS_CardinalityType

LEMMA OneMore ==
  ASSUME NEW S, IsFiniteSet(S), NEW x
  PROVE  /\ IsFiniteSet(S \cup {x})
         /\ Cardinality(S \cup {x}) <= Cardinality(S) + 1
<1>1. IsFiniteSet(S \cup {x})
  BY FS_AddElement
<1>2. /\ Cardinality(S) \in Nat
      /\ \/ Cardinality(S \cup {x}) = Cardinality(S)
         \/ Cardinality(S \cup {x}) = Cardinality(S) + 1
  BY FS_AddElement, FS_CardinalityType
<1>3. QED
  BY <1>1, <1>2

\* Whoever writes while the lock is free finds nothing marked or logged.
LEMMA NothingOpen ==
  ASSUME TypeOK, Holding, Free
  PROVE  \A t \in Ticks : marked[t] = {} /\ logged[t] = {}
BY RemindersAssumption DEF Free, Holding

\* A tick that ends without a commit.
LEMMA ResetKeeps ==
  ASSUME IInv, NEW t \in Ticks, ResetTick(t),
         UNCHANGED <<status, inbox, fires, notices, snoozes>>
  PROVE  Parts'
<1>1. Holding'
  BY DEF IInv, TypeOK, Holding, ResetTick
<1>2. MarkedArePending'
  BY DEF IInv, TypeOK, MarkedArePending, ResetTick
<1>3. FiringsLeft' /\ FiredAreInboxed'
  BY DEF IInv, FiringsLeft, FiredAreInboxed
<1>4. NoticesLeft'
  <2> SUFFICES ASSUME NEW r \in Reminders
               PROVE  fires[r] + Cardinality(Claims(r)') <= notices[r]
    BY DEF NoticesLeft
  <2>1. Claims(r)' \subseteq Claims(r)
    BY DEF Claims, ResetTick, IInv, TypeOK
  <2>2. QED
    BY <2>1, FewerClaims, ClaimsFinite DEF IInv, NoticesLeft, TypeOK
<1>5. QED
  BY <1>1, <1>2, <1>3, <1>4 DEF Parts

LEMMA InvInit == Init => IInv
<1> SUFFICES ASSUME Init
             PROVE  IInv
  OBVIOUS
<1>1. \A r \in Reminders : Claims(r) = {}
  BY DEF Init, Claims
<1>2. \A r \in Reminders : fires[r] = 0 /\ notices[r] = 0
  BY DEF Init
<1>3. \A r \in Reminders : Cardinality(Claims(r)) = 0
  BY <1>1, FS_EmptySet, Zenon
<1>4. NoticesLeft
  BY <1>2, <1>3 DEF NoticesLeft
<1>5. QED
  BY <1>4, TypeInit
     DEF Init, IInv, Holding, MarkedArePending, FiringsLeft, FiredAreInboxed

LEMMA InvStep == IInv /\ [Next]_vars => IInv'
<1> SUFFICES ASSUME IInv, [Next]_vars
             PROVE  Parts'
  BY TypeStep DEF IInv, Parts
<1> USE DEF rows, tickVars, history
<1>0. ASSUME UNCHANGED <<status, inbox, fires, notices, snoozes, current,
                         marked, logged, writer>>
      PROVE  Parts'
  <2>1. \A r \in Reminders : Claims(r)' = Claims(r)
    BY <1>0 DEF Claims
  <2>2. NoticesLeft'
    BY <1>0, <2>1 DEF IInv, NoticesLeft
  <2>3. QED
    BY <1>0, <2>2 DEF IInv, Parts, Holding, MarkedArePending, FiringsLeft,
                      FiredAreInboxed
<1>1. ASSUME Free, UNCHANGED tickVars, UNCHANGED <<fires, notices>>,
             FiringsLeft', FiredAreInboxed'
      PROVE  Parts'
  <2>1. \A r \in Reminders : Claims(r)' = Claims(r)
    BY <1>1 DEF Claims
  <2>2. NoticesLeft'
    BY <1>1, <2>1 DEF IInv, NoticesLeft
  <2>3. Holding' /\ MarkedArePending'
    BY <1>1, NothingOpen DEF IInv, Holding, MarkedArePending
  <2>4. QED
    BY <1>1, <2>2, <2>3 DEF Parts
<1>2. ASSUME NEW r \in Reminders, Create(r)
      PROVE  Parts'
  <2>1. FiringsLeft'
    BY <1>2 DEF Create, IInv, TypeOK, FiringsLeft
  <2>2. FiredAreInboxed'
    BY <1>2 DEF Create, IInv, FiredAreInboxed
  <2>3. QED
    BY <1>1, <1>2, <2>1, <2>2 DEF Create
<1>3. ASSUME NEW r \in Reminders, NEW to \in Closed, Close(r, to)
      PROVE  Parts'
  <2>1. FiringsLeft'
    BY <1>3 DEF Close, Open, Closed, IInv, TypeOK, FiringsLeft
  <2>2. FiredAreInboxed'
    BY <1>3 DEF Close, IInv, FiredAreInboxed
  <2>3. QED
    BY <1>1, <1>3, <2>1, <2>2 DEF Close
<1>4. ASSUME NEW u \in Users, SnoozeWrite(u)
      PROVE  Parts'
  <2>1. PICK s \in snoozing[u] :
          /\ status' = [status EXCEPT ![s.row] = "pending"]
          /\ snoozes' = [snoozes EXCEPT ![s.row] = @ + 1]
    BY <1>4 DEF SnoozeWrite
  <2>2. FiringsLeft'
    BY <1>4, <2>1 DEF SnoozeWrite, IInv, TypeOK, FiringsLeft
  <2>3. FiredAreInboxed'
    BY <1>4 DEF SnoozeWrite, IInv, FiredAreInboxed
  <2>4. QED
    BY <1>1, <1>4, <2>2, <2>3 DEF SnoozeWrite
<1>5. ASSUME NEW t \in Ticks, Dispatch(t)
      PROVE  Parts'
  <2>1. PICK r \in due[t] :
          /\ current' = [current EXCEPT ![t] = {r}]
          /\ notices' = [notices EXCEPT ![r] = @ + 1]
    BY <1>5 DEF Dispatch, Notify
  <2>2. r \in Reminders
    BY DEF IInv, TypeOK
  <2>3. ASSUME NEW q \in Reminders
        PROVE  fires[q] + Cardinality(Claims(q)') <= notices'[q]
    <3>0. /\ fires[q] \in Nat /\ notices[q] \in Nat
          /\ fires[q] + Cardinality(Claims(q)) <= notices[q]
      BY DEF IInv, TypeOK, NoticesLeft
    <3>1. CASE q = r
      <4>1. Claims(q)' \subseteq Claims(q) \cup {t}
        BY <1>5, <2>1 DEF Dispatch, Claims, IInv, TypeOK
      <4>2. /\ IsFiniteSet(Claims(q) \cup {t})
            /\ Cardinality(Claims(q) \cup {t}) <= Cardinality(Claims(q)) + 1
        BY ClaimsFinite, OneMore
      <4>3. /\ Cardinality(Claims(q)') <= Cardinality(Claims(q) \cup {t})
            /\ Cardinality(Claims(q)') \in Nat
            /\ Cardinality(Claims(q) \cup {t}) \in Nat
        BY <4>1, <4>2, FS_Subset, FS_CardinalityType
      <4>4. notices'[q] = notices[q] + 1
        BY <2>1, <2>2, <3>1 DEF IInv, TypeOK
      <4>5. QED
        BY <3>0, <4>2, <4>3, <4>4, ClaimsFinite
    <3>2. CASE q # r
      <4>1. Claims(q)' \subseteq Claims(q)
        BY <1>5, <2>1, <3>2 DEF Dispatch, Claims, IInv, TypeOK
      <4>2. notices'[q] = notices[q]
        BY <2>1, <3>2 DEF IInv, TypeOK
      <4>3. QED
        BY <3>0, <4>1, <4>2, FewerClaims, ClaimsFinite
    <3>3. QED
      BY <3>1, <3>2
  <2>4. NoticesLeft'
    BY <1>5, <2>3 DEF Dispatch, NoticesLeft
  <2>5. QED
    BY <1>5, <2>4 DEF Dispatch, IInv, Parts, Holding, MarkedArePending,
                      FiringsLeft, FiredAreInboxed
<1>6. ASSUME NEW t \in Ticks, Record(t)
      PROVE  Parts'
  <2>1. Holding'
    <3>1. CASE writer = t
      BY <1>6, <3>1 DEF Record, IInv, TypeOK, Holding
    <3>2. CASE writer = NoTick
      BY <1>6, <3>2, NothingOpen DEF Record, Free, IInv, TypeOK, Holding
    <3>3. QED
      BY <1>6, <3>1, <3>2 DEF Record
  <2>2. MarkedArePending'
    BY <1>6 DEF Record, FiredBy, IInv, TypeOK, MarkedArePending
  <2>3. NoticesLeft'
    <3>1. \A q \in Reminders : Claims(q)' \subseteq Claims(q)
      BY <1>6 DEF Record, FiredBy, Claims, IInv, TypeOK
    <3>2. QED
      BY <1>6, <3>1, FewerClaims, ClaimsFinite
         DEF Record, NoticesLeft, IInv, TypeOK
  <2>4. QED
    BY <1>6, <2>1, <2>2, <2>3
       DEF Record, IInv, Parts, FiringsLeft, FiredAreInboxed
<1>7. ASSUME NEW t \in Ticks, Commit(t)
      PROVE  Parts'
  <2>1. Holding'
    BY <1>7 DEF Commit, ResetTick, IInv, TypeOK, Holding
  <2>2. ASSUME NEW q \in Ticks, q # t, NEW r \in marked[q]
        PROVE  marked[t] = {}
    BY <2>2 DEF IInv, Holding
  <2>3. MarkedArePending'
    <3> SUFFICES ASSUME NEW q \in Ticks, NEW r \in marked'[q]
                 PROVE  status'[r] = "pending" /\ r \in logged'[q]
      BY DEF MarkedArePending
    <3>1. q # t /\ r \in marked[q] /\ logged'[q] = logged[q]
      BY <1>7 DEF Commit, ResetTick, IInv, TypeOK
    <3>2. marked[t] = {}
      BY <3>1, <2>2
    <3>3. status'[r] = status[r]
      BY <1>7, <3>1, <3>2 DEF Commit, IInv, TypeOK
    <3>4. QED
      BY <3>1, <3>3 DEF IInv, MarkedArePending
  <2>4. FiringsLeft'
    BY <1>7 DEF Commit, IInv, TypeOK, MarkedArePending, FiringsLeft
  <2>5. NoticesLeft'
    <3> SUFFICES ASSUME NEW r \in Reminders
                 PROVE  fires'[r] + Cardinality(Claims(r)') <= notices[r]
      BY <1>7 DEF Commit, NoticesLeft
    <3>0. /\ fires[r] \in Nat /\ notices[r] \in Nat
          /\ fires[r] + Cardinality(Claims(r)) <= notices[r]
      BY DEF IInv, TypeOK, NoticesLeft
    <3>1. Claims(r)' \subseteq Claims(r) \ {t}
      BY <1>7 DEF Commit, ResetTick, Claims, IInv, TypeOK
    <3>2. CASE r \in marked[t]
      <4>1. t \in Claims(r)
        BY <3>2 DEF Claims
      <4>2. /\ IsFiniteSet(Claims(r) \ {t})
            /\ Cardinality(Claims(r) \ {t}) = Cardinality(Claims(r)) - 1
        BY <4>1, ClaimsFinite, FS_RemoveElement
      <4>3. /\ Cardinality(Claims(r)') <= Cardinality(Claims(r) \ {t})
            /\ Cardinality(Claims(r)') \in Nat
        BY <3>1, <4>2, FS_Subset, FS_CardinalityType
      <4>4. fires'[r] = fires[r] + 1
        BY <1>7, <3>2 DEF Commit
      <4>5. QED
        BY <3>0, <4>2, <4>3, <4>4, ClaimsFinite
    <3>3. CASE r \notin marked[t]
      <4>1. fires'[r] = fires[r]
        BY <1>7, <3>3 DEF Commit
      <4>2. QED
        BY <3>0, <3>1, <4>1, FewerClaims, ClaimsFinite
    <3>4. QED
      BY <3>2, <3>3
  <2>6. FiredAreInboxed'
    <3> SUFFICES ASSUME NEW r \in Reminders, fires'[r] > 0
                 PROVE  inbox'[TextOf[r]] # "none"
      BY DEF FiredAreInboxed
    <3>1. TextOf[r] \in Texts
      BY RemindersAssumption
    <3>2. CASE r \in marked[t]
      BY <1>7, <3>1, <3>2 DEF Commit, Inboxed, IInv, MarkedArePending
    <3>3. CASE r \notin marked[t]
      <4>1. inbox[TextOf[r]] # "none"
        BY <1>7, <3>3 DEF Commit, IInv, FiredAreInboxed
      <4>2. QED
        BY <1>7, <3>1, <4>1 DEF Commit, Inboxed
    <3>4. QED
      BY <3>2, <3>3
  <2>7. QED
    BY <2>1, <2>3, <2>4, <2>5, <2>6 DEF Parts
<1>8. CASE Triage
  <2>1. FiringsLeft'
    BY <1>8 DEF Triage, IInv, FiringsLeft
  <2>2. FiredAreInboxed'
    BY <1>8, RemindersAssumption DEF Triage, IInv, FiredAreInboxed
  <2>3. QED
    BY <1>1, <1>8, <2>1, <2>2 DEF Triage
<1>9. ASSUME NEW t \in Ticks, GiveUp(t) \/ Crash(t)
      PROVE  Parts'
  BY <1>9, ResetKeeps DEF GiveUp, Crash
<1>10. ASSUME NEW u \in Users,
              (\E r \in Reminders : SnoozeRead(u, r)) \/ SnoozeLost(u)
       PROVE  Parts'
  BY <1>0, <1>10 DEF SnoozeRead, SnoozeLost
<1>11. ASSUME NEW t \in Ticks, Start(t)
       PROVE  Parts'
  BY <1>0, <1>11 DEF Start
<1>12. CASE ClockTick \/ UNCHANGED vars
  BY <1>0, <1>12 DEF ClockTick, vars
<1>13. QED
  BY <1>2, <1>3, <1>4, <1>5, <1>6, <1>7, <1>8, <1>9, <1>10, <1>11, <1>12
     DEF Next, Work

LEMMA Inductive == Spec => []IInv
BY InvInit, InvStep, PTL DEF Spec

-----------------------------------------------------------------------------
\* However many ticks read a row as due, it fires once for its creation and
\* once for each snooze.
THEOREM OneFiringPerSchedule == Spec => []FiresWithinSchedules
<1>1. IInv => FiresWithinSchedules
  BY DEF IInv, TypeOK, FiringsLeft, FiresWithinSchedules
<1>2. QED
  BY <1>1, Inductive, PTL

\* Each firing had a notification of its own and left its text in the inbox.
THEOREM FiringsAreNotified == Spec => []NoSilentFire
<1>1. ASSUME IInv, NEW r \in Reminders
      PROVE  fires[r] <= notices[r]
  BY <1>1, ClaimsFinite DEF IInv, TypeOK, NoticesLeft
<1>2. IInv => NoSilentFire
  BY <1>1 DEF NoSilentFire, IInv, FiredAreInboxed
<1>3. QED
  BY <1>2, Inductive, PTL

\* A tick never takes back a reminder that was completed or cancelled.
THEOREM TicksKeepTheClosed == Spec => TicksKeepClosed
<1> DEFINE Keep == \A t \in Ticks : Work(t) =>
              \A r \in Reminders : status[r] \in Closed => status'[r] = status[r]
<1>1. IInv /\ [Next]_vars => [Keep]_vars
  <2> SUFFICES ASSUME IInv, NEW t \in Ticks, Work(t),
                      NEW r \in Reminders, status[r] \in Closed
               PROVE  status'[r] = status[r]
    OBVIOUS
  <2>1. r \notin marked[t]
    BY DEF IInv, MarkedArePending, Closed
  <2>2. QED
    BY <2>1 DEF Work, Dispatch, Record, Commit, rows, IInv, TypeOK
<1>2. QED
  BY <1>1, Inductive, PTL DEF Spec, TicksKeepClosed
=============================================================================
