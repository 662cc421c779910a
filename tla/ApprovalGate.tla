---------------------------- MODULE ApprovalGate ----------------------------
(***************************************************************************)
(* What the execution core promises about external mutations, and nothing  *)
(* about how it keeps the promise: every message that leaves the machine   *)
(* spends an approval of its own.  README.md of the repository: "Nothing   *)
(* external is touched until you approve it".                              *)
(*                                                                         *)
(* ActionLifecycle implements this specification: `granted` counts the     *)
(* approval commits of an action row, `sent` its external effects.         *)
(***************************************************************************)
EXTENDS Naturals

CONSTANT Actions     \* the rows of agent_actions

VARIABLES granted,   \* granted[a]: approvals given to a
          sent       \* sent[a]: external effects a has had

gateVars == <<granted, sent>>

GateInit == /\ granted = [a \in Actions |-> 0]
            /\ sent    = [a \in Actions |-> 0]

\* Somebody approves the action once more.
Grant(a) == /\ granted' = [granted EXCEPT ![a] = @ + 1]
            /\ UNCHANGED sent

\* One external effect, which needs an approval nobody has used.
Send(a) == /\ sent[a] < granted[a]
           /\ sent' = [sent EXCEPT ![a] = @ + 1]
           /\ UNCHANGED granted

GateNext == \E a \in Actions : Grant(a) \/ Send(a)

GateSpec == GateInit /\ [][GateNext]_gateVars
=============================================================================
