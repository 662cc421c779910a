----------------------------- MODULE Reminders ------------------------------
(***************************************************************************)
(* The rows of `reminders` (reminders.py), the scheduler tick that fires   *)
(* the due ones (cli_reminders.py) through the notification pipeline       *)
(* (notify.py), and the commands of the user: create, complete, snooze,    *)
(* cancel.  Launchd starts a tick every minute, a user may start another.  *)
(*                                                                         *)
(* A tick reads the due rows, then notifies and marks them one after the   *)
(* other in one transaction: its writes are seen when it commits, and from *)
(* its first write on nobody else can write.                               *)
(***************************************************************************)
EXTENDS Naturals, FiniteSets

CONSTANTS
  Reminders,     \* ids of reminders
  Texts,         \* texts of inbox rows: "MYOS Reminder: <kind>: <text>"
  TextOf,        \* TextOf[r]: the inbox text of r's notification
  Ticks,         \* processes that may run `myos scheduler tick`
  Users,         \* processes that may run `myos remind snooze`
  TickLimit,     \* list_due(limit=100)
  NoTick,        \* nobody holds the write lock
  MaxClock,      \* bound: ticks of the clock
  MaxSnoozes,    \* bound: snoozes of each reminder
  MaxLost,       \* bound: scheduler ticks that end before they commit
  MaxNotices     \* bound: notifications of each reminder

ASSUME RemindersAssumption ==
  /\ TextOf \in [Reminders -> Texts]
  /\ TickLimit \in Nat \ {0}
  /\ MaxClock \in Nat /\ MaxSnoozes \in Nat /\ MaxLost \in Nat
  /\ MaxNotices \in Nat
  /\ NoTick \notin Ticks
  /\ IsFiniteSet(Ticks)

VARIABLES
  status,    \* reminders.status, "absent" before the INSERT
  at,        \* reminders.scheduled_at
  inbox,     \* inbox_items.status of the row with this text, "none" before
  clock,
  writer,    \* the tick whose transaction holds the write lock
  pc,        \* where each scheduler tick stands
  due,       \* the rows it read and has not come to yet
  current,   \* current[t]: the row it is at, a set of at most one
  marked,    \* rows mark_fired changed in its open transaction
  logged,    \* rows whose inbox row was inserted in it
  snoozing,  \* snoozing[u]: what `remind snooze` read, a set of at most one
  lost,
  notices,   \* history: notifications dispatched for each reminder
  fires,     \* history: committed pending -> fired transitions
  snoozes    \* history: committed snoozes

rows    == <<status, at, inbox>>
tickVars == <<writer, pc, due, current, marked, logged>>
history == <<notices, fires, snoozes>>
vars    == <<rows, clock, tickVars, snoozing, lost, history>>

Open   == {"pending", "fired"}       \* 'snoozed' is asked for, never written
Closed == {"done", "cancelled"}
Free   == writer = NoTick

-----------------------------------------------------------------------------
(* The commands.  Each is one transaction, refused while another one is    *)
(* open; complete and cancel name the old status in their UPDATE.          *)

\* The time is "+Nm", "HH:MM" or an ISO time, which may have passed.
Create(r) ==
  /\ Free /\ status[r] = "absent"
  /\ \E d \in {0, 1} : at' = [at EXCEPT ![r] = clock + d]
  /\ status' = [status EXCEPT ![r] = "pending"]
  /\ UNCHANGED <<inbox, clock, tickVars, snoozing, lost, history>>

Close(r, to) ==
  /\ Free /\ status[r] \in Open
  /\ status' = [status EXCEPT ![r] = to]
  /\ UNCHANGED <<at, inbox, clock, tickVars, snoozing, lost, history>>

\* snooze reads the row in a statement of its own and adds the delta to the
\* later of now and the old schedule.
SnoozeRead(u, r) ==
  /\ snoozing[u] = {} /\ status[r] \in Open /\ snoozes[r] < MaxSnoozes
  /\ LET base == IF clock < at[r] THEN at[r] ELSE clock
     IN snoozing' = [snoozing EXCEPT ![u] = {[row |-> r, to |-> base + 1]}]
  /\ UNCHANGED <<rows, clock, tickVars, lost, history>>

\* UPDATE ... WHERE id = ?: whatever the status is by now.
SnoozeWrite(u) ==
  /\ Free
  /\ \E s \in snoozing[u] :
       /\ snoozes[s.row] < MaxSnoozes
       /\ status' = [status EXCEPT ![s.row] = "pending"]
       /\ at' = [at EXCEPT ![s.row] = s.to]
       /\ snoozes' = [snoozes EXCEPT ![s.row] = @ + 1]
  /\ snoozing' = [snoozing EXCEPT ![u] = {}]
  /\ UNCHANGED <<inbox, clock, tickVars, lost, notices, fires>>

\* The command is killed, or finds the database locked for five seconds.
SnoozeLost(u) ==
  /\ snoozing[u] # {}
  /\ snoozing' = [snoozing EXCEPT ![u] = {}]
  /\ UNCHANGED <<rows, clock, tickVars, lost, history>>

-----------------------------------------------------------------------------
(* The scheduler tick.                                                     *)

IsDue(r) == status[r] = "pending" /\ at[r] <= clock

\* Mutant: strictly before now, and any of them.
ListedLate(S) ==
  /\ \A r \in S : status[r] = "pending" /\ at[r] < clock
  /\ Cardinality(S) <= TickLimit

\* Oldest schedules first, at most TickLimit of them.
Listed(S) ==
  /\ \A r \in S : IsDue(r)
  /\ Cardinality(S) <= TickLimit
  /\ \A r \in Reminders \ S : IsDue(r) =>
       Cardinality(S) = TickLimit /\ \A q \in S : at[q] <= at[r]

Start(t) ==
  /\ pc[t] = "off"
  /\ \E S \in SUBSET Reminders \ {{}} : Listed(S) /\ due' = [due EXCEPT ![t] = S]
  /\ pc' = [pc EXCEPT ![t] = "next"]
  /\ UNCHANGED <<rows, clock, writer, current, marked, logged, snoozing,
                 lost, history>>

\* Mutant: a text that was notified before is not notified again.
NotifyOnce(r) ==
  notices' = [notices EXCEPT ![r] = IF inbox[TextOf[r]] = "none" THEN @ + 1 ELSE @]

Notify(r) == notices' = [notices EXCEPT ![r] = @ + 1]

\* notify() up to the channel: a hook, the notification centre, or stdout,
\* which always takes it.
Dispatch(t) ==
  /\ pc[t] = "next"
  /\ \E r \in due[t] :
       /\ notices[r] < MaxNotices
       /\ due' = [due EXCEPT ![t] = @ \ {r}]
       /\ current' = [current EXCEPT ![t] = {r}]
       /\ Notify(r)
  /\ pc' = [pc EXCEPT ![t] = "mark"]
  /\ UNCHANGED <<rows, clock, writer, marked, logged, snoozing, lost, fires,
                 snoozes>>

\* Mutant: mark_fired does not ask for 'pending'.
FiredByAny(t) == current[t]

\* mark_fired: UPDATE ... WHERE id = ? AND status = 'pending'
FiredBy(t) == {r \in current[t] : status[r] = "pending"}

\* The first INSERT of the inbox row takes the write lock.
Record(t) ==
  /\ pc[t] = "mark" /\ writer \in {NoTick, t}
  /\ writer' = t
  /\ logged' = [logged EXCEPT ![t] = @ \cup current[t]]
  /\ marked' = [marked EXCEPT ![t] = @ \cup FiredBy(t)]
  /\ current' = [current EXCEPT ![t] = {}]
  /\ pc' = [pc EXCEPT ![t] = "next"]
  /\ UNCHANGED <<rows, clock, due, snoozing, lost, history>>

\* INSERT OR IGNORE: a text that has a row, of any status, gets no other one.
Inboxed(t) ==
  [x \in Texts |-> IF inbox[x] = "none" /\ \E r \in logged[t] : TextOf[r] = x
                   THEN "new" ELSE inbox[x]]

ResetTick(t) ==
  /\ due' = [due EXCEPT ![t] = {}]
  /\ current' = [current EXCEPT ![t] = {}]
  /\ marked' = [marked EXCEPT ![t] = {}]
  /\ logged' = [logged EXCEPT ![t] = {}]
  /\ pc' = [pc EXCEPT ![t] = "off"]
  /\ writer' = IF writer = t THEN NoTick ELSE writer

\* finish_trace commits.
Commit(t) ==
  /\ pc[t] = "next" /\ due[t] = {}
  /\ status' = [r \in Reminders |-> IF r \in marked[t] THEN "fired" ELSE status[r]]
  /\ fires' = [r \in Reminders |-> IF r \in marked[t] THEN fires[r] + 1 ELSE fires[r]]
  /\ inbox' = Inboxed(t)
  /\ ResetTick(t)
  /\ UNCHANGED <<at, clock, snoozing, lost, notices, snoozes>>

\* "database is locked" after five seconds: the exception ends the tick.
GiveUp(t) ==
  /\ pc[t] = "mark" /\ writer \notin {NoTick, t} /\ lost < MaxLost
  /\ lost' = lost + 1
  /\ ResetTick(t)
  /\ UNCHANGED <<rows, clock, snoozing, history>>

\* The tick is killed; its transaction is rolled back.
Crash(t) ==
  /\ pc[t] # "off" /\ lost < MaxLost
  /\ lost' = lost + 1
  /\ ResetTick(t)
  /\ UNCHANGED <<rows, clock, snoozing, history>>

-----------------------------------------------------------------------------
\* cmd_triage: every new inbox row becomes a work item.
Triage ==
  /\ Free /\ \E x \in Texts : inbox[x] = "new"
  /\ inbox' = [x \in Texts |-> IF inbox[x] = "new" THEN "triaged" ELSE inbox[x]]
  /\ UNCHANGED <<status, at, clock, tickVars, snoozing, lost, history>>

ClockTick ==
  /\ clock < MaxClock
  /\ clock' = clock + 1
  /\ UNCHANGED <<rows, tickVars, snoozing, lost, history>>

Init ==
  /\ status = [r \in Reminders |-> "absent"]
  /\ at = [r \in Reminders |-> 0]
  /\ inbox = [x \in Texts |-> "none"]
  /\ clock = 0 /\ writer = NoTick
  /\ pc = [t \in Ticks |-> "off"]
  /\ due = [t \in Ticks |-> {}]
  /\ current = [t \in Ticks |-> {}]
  /\ marked = [t \in Ticks |-> {}]
  /\ logged = [t \in Ticks |-> {}]
  /\ snoozing = [u \in Users |-> {}]
  /\ lost = 0
  /\ notices = [r \in Reminders |-> 0]
  /\ fires = [r \in Reminders |-> 0]
  /\ snoozes = [r \in Reminders |-> 0]

Work(t) == Dispatch(t) \/ Record(t) \/ Commit(t)

Next ==
  \/ \E r \in Reminders : Create(r) \/ \E to \in Closed : Close(r, to)
  \/ \E u \in Users : \/ \E r \in Reminders : SnoozeRead(u, r)
                      \/ SnoozeWrite(u) \/ SnoozeLost(u)
  \/ \E t \in Ticks : Start(t) \/ Work(t) \/ GiveUp(t) \/ Crash(t)
  \/ Triage \/ ClockTick

Spec == Init /\ [][Next]_vars

\* Launchd starts a tick every minute, and a tick that is not killed goes on.
FairSpec == Spec /\ \A t \in Ticks : WF_vars(Start(t)) /\ WF_vars(Work(t))

-----------------------------------------------------------------------------
TypeOK ==
  /\ status \in [Reminders -> {"absent"} \cup Open \cup Closed]
  /\ at \in [Reminders -> Nat]
  /\ inbox \in [Texts -> {"none", "new", "triaged"}]
  /\ clock \in Nat /\ lost \in Nat
  /\ writer \in Ticks \cup {NoTick}
  /\ pc \in [Ticks -> {"off", "next", "mark"}]
  /\ due \in [Ticks -> SUBSET Reminders]
  /\ current \in [Ticks -> SUBSET Reminders]
  /\ marked \in [Ticks -> SUBSET Reminders]
  /\ logged \in [Ticks -> SUBSET Reminders]
  /\ snoozing \in [Users -> SUBSET [row : Reminders, to : Nat]]
  /\ notices \in [Reminders -> Nat]
  /\ fires \in [Reminders -> Nat]
  /\ snoozes \in [Reminders -> Nat]

\* mark_fired is a compare-and-swap: however many ticks read a row as due, it
\* fires once for its creation and once for each snooze.
FiresWithinSchedules == \A r \in Reminders : fires[r] <= 1 + snoozes[r]

\* Nothing fires silently: each committed firing had a notification of its
\* own, dispatched before, and the inbox has had a row with its text.
NoSilentFire ==
  \A r \in Reminders :
    /\ fires[r] <= notices[r]
    /\ fires[r] > 0 => inbox[TextOf[r]] # "none"

\* A tick that read a row before it was completed or cancelled leaves it so.
TicksKeepClosed ==
  [][\A t \in Ticks : Work(t) =>
       \A r \in Reminders : status[r] \in Closed => status'[r] = status[r]]_vars

\* While ticks keep coming, a due reminder fires, is snoozed or closed.
DueIsFired == \A r \in Reminders : IsDue(r) ~> ~IsDue(r)
=============================================================================
