---------------------------- MODULE MCReminders -----------------------------
(* Instances of Reminders for TLC.                                         *)
EXTENDS Reminders, TLC

CONSTANTS r1, r2, t1, t2, u1, x1

OneReminder  == {r1}
TwoReminders == {r1, r2}
OneText      == {x1}
TwoTicks     == {t1, t2}
OneUser      == {u1}

\* Two reminders with the same text and kind share one inbox row.
SameText == [r \in Reminders |-> x1]
=============================================================================
