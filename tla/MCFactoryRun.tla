--------------------------- MODULE MCFactoryRun ----------------------------
(* Instances of FactoryRun for TLC.                                         *)
EXTENDS FactoryRun, TLC

CONSTANTS u1, u2, a1, a2

TwoUsers == {u1, u2}
TwoAutopilots == {a1, a2}
NoOne == {}
OneRun  == {1}
SixRuns == 1 .. 6
OneIntent == {1}
TwoIntents == {1, 2}
ReviewOrFull == {"review_first", "full_autonomous"}
SemiOnly == {"semi_autonomous"}
CaptureAndDraft == [r \in Runs |-> <<"capture", "draft">>]
\* The last of the runs has something for the user to approve.
DraftAtLast == [r \in Runs |-> IF \E q \in Runs : q > r THEN <<"capture">>
                               ELSE <<"capture", "draft">>]

\* An approval that is recorded by hand, of a run that may not be waiting for it.
ApprovedByHand == {<<"approval", "completed">>}
NothingByHand == {}

UserSymmetry == Permutations(TwoUsers)
=============================================================================
