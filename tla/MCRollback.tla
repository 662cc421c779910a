----------------------------- MODULE MCRollback -----------------------------
(* An instance of Rollback for TLC.                                        *)
EXTENDS Rollback

CONSTANTS p1, p2, live, safe, undo1, undo2, d1, n1

TwoCallers == {p1, p2}
Mixed      == {live, safe, undo1, undo2}
TwoUndos   == {undo1, undo2}
Known      == {live, undo1, undo2}
OnePayload == {d1}
OneNote    == {n1}

MixedKind == [a \in Mixed |-> CASE a = live -> "live"
                                [] a = safe -> "capture"
                                [] OTHER    -> "draft"]
MixedPersona == [a \in Mixed |-> {a # safe}]
MixedRules   == [a \in Mixed |-> FALSE]
=============================================================================
