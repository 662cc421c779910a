------------------------- MODULE MCActionLifecycle -------------------------
(* Instances of ActionLifecycle for TLC.                                   *)
EXTENDS ActionLifecycle, TLC

CONSTANTS p1, p2, live, d1, d2, n1

TwoCallers == {p1, p2}
OneLive    == {live}
TwoPayloads == {d1, d2}
OneNote    == {n1}

LiveKind    == [a \in OneLive |-> "live"]
\* The persona is created while the row waits.
LivePersona == [a \in OneLive |-> BOOLEAN]
LiveRules   == [a \in OneLive |-> TRUE]

Symmetry == Permutations(TwoCallers)
=============================================================================
