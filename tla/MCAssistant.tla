----------------------------- MODULE MCAssistant -----------------------------
(* An instance of Assistant for TLC.                                       *)
EXTENDS Assistant

CONSTANTS p1, p2
TwoProcs == {p1, p2}

AllTexts   == {"send", "hm"}
GivenCues  == [t \in AllTexts |-> IF t = "send" THEN {"connector", "send", "note"}
                                                ELSE {}]
GivenGuesses == {[intent |-> "capture", pack |-> ""]}
NarrowRule == [op |-> "add_rule", type |-> "apply_patch", kind |-> "object",
               pairs |-> {"repo"}, tier |-> "block"]
WideRule   == [op |-> "add_rule", type |-> "*", kind |-> "absent",
               pairs |-> {}, tier |-> "always"]
OddRule    == [op |-> "add_rule", type |-> "send_message", kind |-> "absent",
               pairs |-> {}, tier |-> "allow"]
AllReplies == {NoConfig, NarrowRule, WideRule, OddRule}
GivenCorrections == {"plan_intent", "factory_run"}

Seen     == [t \in AllTexts |->
               CASE t = "hm"   -> {<<"person", "ann">>, <<"preference", "-">>}
                 [] t = "send" -> {<<"person", "ann">>, <<"risk", "ann">>}]

AllMeetings == {{"autonomy"}, {"trace", "autonomy"},
                {"do", "router"}, {"rule"}, {"chat", "router"},
                {"chat", "reflect", "cleanup"}, {"reflect", "suggestions"}}
Earlier == [m \in AllMeetings |-> IF m = {"autonomy"} THEN CommandNames \ Untraced
                                                       ELSE {""}]

Symmetry == Permutations(TwoProcs)

\* TLC evaluates what the tables must satisfy.
ASSUME TableAssumption == PolicyHolds
=============================================================================
