---------------------------- MODULE MCLocalData -----------------------------
(* Instances of LocalData for TLC.                                         *)
EXTENDS LocalData, TLC

CONSTANTS p1, p2

TwoProcs == {p1, p2}
Only1    == {p1}
Only2    == {p2}

\* One process at a time goes the long way, with FTS5 and without; two meet
\* where the last migrations, a healed index, or a restored backup is at stake.
Meetings ==
  {<<0, NoCopy, {p1}>>, <<16, NoCopy, {p1}>>, <<16, NoCopy, {p2}>>,
   <<37, NoCopy, {p1}>>, <<40, NoCopy, {p1, p2}>>, <<41, NoCopy, {p1}>>, <<44, 40, {p1, p2}>>}

Versions == {c[1] : c \in Meetings}
=============================================================================
