--------------------------- MODULE Rollback_proofs ---------------------------
(***************************************************************************)
(* Proofs about ActionLifecycle: for every number of callers, actions,     *)
(* payloads, calls, ticks and edits the variables keep their types, no     *)
(* external effect happens without an approval of its own, what runs is    *)
(* what was approved, every claim is accounted for, every failure has its  *)
(* follow-up, and the execution core implements ApprovalGate.              *)
(*                                                                         *)
(* Proofs about Rollback: rollbacks add rows to the queue and nothing to   *)
(* what a row may do, so with them the execution core still is             *)
(* ActionLifecycle, and all that is proved of it holds of rollbacks, and   *)
(* of rollbacks of rollbacks.  And the ledger of receipts covers what was  *)
(* sent.                                                                   *)
(***************************************************************************)
EXTENDS Rollback, FiniteSetTheorems, TLAPS

-----------------------------------------------------------------------------
(* Types.                                                                  *)

LEMMA BlankTypes ==
  /\ BlankCall \in Calls
  /\ BlankRow \in Rows
  /\ BlankRow.payload \in Payloads
<1>1. (CHOOSE a \in Actions : TRUE) \in Actions
  BY ActionLifecycleAssumption
<1>2. (CHOOSE d \in Payloads : TRUE) \in Payloads
  BY ActionLifecycleAssumption
<1>3. QED
  BY <1>1, <1>2 DEF BlankCall, BlankRow, Calls, Rows, Statuses

LEMMA RowType ==
  ASSUME TypeOK, NEW a \in Actions
  PROVE  Row(a) \in Rows
BY DEF TypeOK, Row, Rows

\* The part of TypeOK about the local variables of the callers.
LocalTypeOK == /\ pc \in [Callers -> Points]
               /\ call \in [Callers -> Calls]
               /\ snap \in [Callers -> Rows]
               /\ runs \in [Callers -> Payloads]
               /\ outcome \in [Callers -> Outcomes]
               /\ raced \in [Callers -> BOOLEAN]

LEMMA LeaveTypes ==
  ASSUME TypeOK, NEW p \in Callers, Leave(p)
  PROVE  LocalTypeOK'
BY BlankTypes DEF TypeOK, LocalTypeOK, Leave, Goto, Points, Outcomes

LEMMA SetStatusType ==
  ASSUME TypeOK, NEW a \in Actions, NEW s \in Statuses, SetStatus(a, s)
  PROVE  status' \in [Actions -> Statuses]
BY DEF TypeOK, SetStatus

LEMMA FollowUpType ==
  ASSUME TypeOK, NEW a \in Actions, NEW n \in Notes, FollowUp(a, n)
  PROVE  inbox' \in [Actions -> [Notes -> {"none", "new", "triaged"}]]
BY DEF TypeOK, FollowUp

LEMMA TypeInit == Init => TypeOK
BY BlankTypes, ActionLifecycleAssumption
   DEF Init, TypeOK, Statuses, Outcomes, Points

LEMMA TypeStep == TypeOK /\ [Next]_vars => TypeOK'
<1> SUFFICES ASSUME TypeOK, [Next]_vars
             PROVE  TypeOK'
  OBVIOUS
<1> USE DEF rowVars, localVars, envVars, history
<1>1. ASSUME NEW p \in Callers, PersonaBlock(p)
      PROVE  TypeOK'
  <2>1. LocalTypeOK'
    BY <1>1, LeaveTypes DEF PersonaBlock
  <2>2. QED
    BY <1>1, <2>1
       DEF PersonaBlock, LocalTypeOK, SetStatus, TypeOK, Calls, Statuses
<1>2. ASSUME NEW p \in Callers, Approve(p)
      PROVE  TypeOK'
  BY <1>2 DEF Approve, SetStatus, Goto, TypeOK, Calls, Rows, Statuses, Points
<1>3. ASSUME NEW p \in Callers, Reread(p)
      PROVE  TypeOK'
  <2>1. Row(call[p].action) \in Rows
    BY RowType DEF TypeOK, Calls
  <2>2. QED
    BY <1>3, <2>1 DEF Reread, Goto, TypeOK, Points
<1>4. ASSUME NEW p \in Callers, Return(p)
      PROVE  TypeOK'
  <2>1. LocalTypeOK'
    BY <1>4, LeaveTypes DEF Return
  <2>2. QED
    BY <1>4, <2>1 DEF Return, LocalTypeOK, TypeOK
<1>5. ASSUME NEW p \in Callers, Verify(p)
      PROVE  TypeOK'
  BY <1>5 DEF Verify, Goto, TypeOK, Points
<1>6. ASSUME NEW p \in Callers, Refuse(p)
      PROVE  TypeOK'
  <2>1. inbox' \in [Actions -> [Notes -> {"none", "new", "triaged"}]]
    BY <1>6, FollowUpType DEF Refuse, TypeOK, Calls
  <2>2. LocalTypeOK'
    BY <1>6, LeaveTypes DEF Refuse
  <2>3. call[p].action \in Actions
    BY DEF TypeOK, Calls
  <2>4. status' \in [Actions -> Statuses]
    BY <1>6, <2>3, SetStatusType DEF Refuse, TypeOK, Statuses
  <2>5. /\ receipts' \in [Actions -> Nat]
        /\ attempts' \in [Actions -> Nat]
    BY <1>6, <2>3 DEF Refuse, WriteReceipt, TypeOK
  <2>6. QED
    BY <1>6, <2>1, <2>2, <2>4, <2>5 DEF Refuse, LocalTypeOK, TypeOK
<1>7. ASSUME NEW p \in Callers, Claim(p)
      PROVE  TypeOK'
  <2>0. call[p].action \in Actions
    BY DEF TypeOK, Calls
  <2>1. CASE ClaimWins(p)
    <3>1. status' \in [Actions -> Statuses]
      BY <1>7, <2>0, <2>1, SetStatusType DEF Claim, Statuses
    <3>2. attempts' \in [Actions -> Nat]
      <4>1. attempts' = [attempts EXCEPT ![call[p].action] = @ + 1]
        BY <1>7, <2>1 DEF Claim
      <4>2. attempts \in [Actions -> Nat]
        BY DEF TypeOK
      <4>3. QED
        BY <2>0, <4>1, <4>2
    <3>3. QED
      BY <1>7, <2>1, <3>1, <3>2 DEF Claim, Goto, TypeOK, Points
  <2>2. CASE ~ClaimWins(p)
    <3>1. LocalTypeOK'
      BY <1>7, <2>2, LeaveTypes DEF Claim
    <3>2. QED
      BY <1>7, <2>2, <3>1 DEF Claim, LocalTypeOK, TypeOK
  <2>3. QED
    BY <2>1, <2>2
<1>8. ASSUME NEW p \in Callers, Start(p)
      PROVE  TypeOK'
  <2>1. \A a \in Actions : LocalOutcomes(a) \subseteq Outcomes
    BY ActionLifecycleAssumption DEF LocalOutcomes, Kinds, Outcomes
  <2>2. call[p].action \in Actions
    BY DEF TypeOK, Calls
  <2>3. runs' \in [Callers -> Payloads]
    BY <1>8, <2>2 DEF Start, TypeOK
  <2>4. outcome' \in [Callers -> Outcomes]
    BY <1>8, <2>1, <2>2 DEF Start, TypeOK
  <2>5. QED
    BY <1>8, <2>3, <2>4 DEF Start, Goto, TypeOK, Points
<1>9. ASSUME NEW p \in Callers, Deliver(p)
      PROVE  TypeOK'
  BY <1>9 DEF Deliver, Goto, TypeOK, Calls, Outcomes, Points
<1>10. ASSUME NEW p \in Callers, NoDelivery(p)
       PROVE  TypeOK'
  BY <1>10 DEF NoDelivery, Goto, TypeOK, Outcomes, Points
<1>11. ASSUME NEW p \in Callers, Settle(p)
       PROVE  TypeOK'
  <2>1. inbox' \in [Actions -> [Notes -> {"none", "new", "triaged"}]]
    BY <1>11, FollowUpType DEF Settle, TypeOK, Calls
  <2>2. LocalTypeOK'
    BY <1>11, LeaveTypes DEF Settle
  <2>3. call[p].action \in Actions
    BY DEF TypeOK, Calls
  <2>4. status' \in [Actions -> Statuses]
    BY <1>11, <2>3, SetStatusType DEF Settle, TypeOK, Outcomes, Statuses
  <2>5. /\ receipts' \in [Actions -> Nat]
        /\ attempts' \in [Actions -> Nat]
    BY <1>11, <2>3 DEF Settle, WriteReceipt, TypeOK
  <2>6. QED
    BY <1>11, <2>1, <2>2, <2>4, <2>5 DEF Settle, LocalTypeOK, TypeOK
<1>12. ASSUME NEW p \in Callers, Crash(p)
       PROVE  TypeOK'
  <2>0. call[p].action \in Actions
    BY DEF TypeOK, Calls
  <2>1. orphans' \in [Actions -> Nat]
    BY <1>12, <2>0 DEF Crash, TypeOK
  <2>2. LocalTypeOK'
    BY <1>12, LeaveTypes DEF Crash
  <2>3. QED
    BY <1>12, <2>1, <2>2 DEF Crash, LocalTypeOK, TypeOK
<1>13. ASSUME NEW p \in Callers, NEW a \in Actions,
              NEW approve \in BOOLEAN, NEW execute \in BOOLEAN,
              Call(p, a, approve, execute)
       PROVE  TypeOK'
  BY <1>13, RowType DEF Call, Goto, TypeOK, Calls, Points
<1>14. ASSUME NEW a \in Actions, Propose(a)
       PROVE  TypeOK'
  <2>1. CASE EnqueueProposal(a)
    BY <2>1 DEF EnqueueProposal, Insert, ForcedApproval, SetStatus, TypeOK, Statuses
  <2>2. CASE AutopilotInsert(a)
    BY <2>2 DEF AutopilotInsert, Insert, ForcedApproval, SetStatus, TypeOK, Statuses
  <2>3. CASE AutopilotRun(a)
    BY <2>3 DEF AutopilotRun, SetStatus, TypeOK, Statuses
  <2>4. CASE LoopCycle(a)
    BY <2>4 DEF LoopCycle, Insert, ForcedApproval, SetStatus, TypeOK, Statuses
  <2>5. QED
    BY <1>14, <2>1, <2>2, <2>3, <2>4 DEF Propose
<1>15. ASSUME NEW a \in Actions, StandingRuleBlock(a)
       PROVE  TypeOK'
  BY <1>15 DEF StandingRuleBlock, SetStatus, TypeOK, Statuses
<1>16. ASSUME NEW a \in Actions, NEW n \in Notes, Triage(a, n)
       PROVE  TypeOK'
  BY <1>16 DEF Triage, TypeOK
<1>17. ASSUME NEW a \in Actions, NEW d \in Payloads, EditPayload(a, d)
       PROVE  TypeOK'
  BY <1>17 DEF EditPayload, HasRead, TypeOK
<1>18. CASE Tick
  BY <1>18 DEF Tick, TypeOK
<1>19. CASE UNCHANGED vars
  BY <1>19 DEF vars, TypeOK
<1>20. QED
  BY <1>1, <1>2, <1>3, <1>4, <1>5, <1>6, <1>7, <1>8, <1>9, <1>10, <1>11,
     <1>12, <1>13, <1>14, <1>15, <1>16, <1>17, <1>18, <1>19 DEF Next, Step

\* The variables of the execution core keep their types.
THEOREM TypeCorrect == Spec => []TypeOK
BY TypeInit, TypeStep, PTL DEF Spec

-----------------------------------------------------------------------------
(* Approvals and effects.  ApprovalBudget is not inductive alone: that a   *)
(* claim uses an approval up rests on the snapshot the caller verified,    *)
(* and that on the flag the row was inserted with.                         *)

\* Only create_inbox_item rows are ungated, in the table and as read.
GatedRows  == \A a \in Actions : Kind[a] # "capture" => gated[a]
GatedSnaps ==
  \A p \in Callers :
    pc[p] # "idle" /\ Kind[call[p].action] # "capture" => snap[p].gated

\* Whoever is about to claim has read an approved row.
VerifiedSnaps ==
  \A p \in Callers :
    pc[p] = "verified" /\ Kind[call[p].action] # "capture" =>
      snap[p].status = "approved"

\* Captures are local, and only external actions have an effect to make.
EffectKinds ==
  \A p \in Callers : pc[p] = "effect" => Kind[call[p].action] \in External
CaptureSilent == \A a \in Actions : Kind[a] = "capture" => sends[a] = 0

Support == GatedRows /\ GatedSnaps /\ VerifiedSnaps /\ EffectKinds
           /\ CaptureSilent

IInv == TypeOK /\ Support /\ ApprovalBudget

LEMMA SpendingFinite ==
  ASSUME NEW a \in Actions
  PROVE  /\ IsFiniteSet(Spending(a))
         /\ Cardinality(Spending(a)) \in Nat
BY ActionLifecycleAssumption, FS_Subset, FS_CardinalityType DEF Spending

LEMMA OneMore ==
  ASSUME NEW S, IsFiniteSet(S), NEW x, NEW T \in SUBSET (S \cup {x})
  PROVE  /\ Cardinality(S) \in Nat
         /\ Cardinality(T) \in Nat
         /\ Cardinality(T) <= Cardinality(S) + 1
<1>1. /\ IsFiniteSet(S \cup {x})
      /\ Cardinality(S \cup {x}) \in {Cardinality(S), Cardinality(S) + 1}
  BY FS_AddElement
<1>2. IsFiniteSet(T) /\ Cardinality(T) <= Cardinality(S \cup {x})
  BY <1>1, FS_Subset
<1>3. /\ Cardinality(S) \in Nat
      /\ Cardinality(T) \in Nat
  BY <1>2, FS_CardinalityType
<1>4. QED
  BY <1>1, <1>2, <1>3

LEMMA OneLess ==
  ASSUME NEW S, IsFiniteSet(S), NEW x \in S
  PROVE  Cardinality(S \ {x}) = Cardinality(S) - 1
BY FS_RemoveElement

\* Steps that neither approve, nor claim, nor send only lower the left side.
LEMMA BudgetKept ==
  ASSUME TypeOK, TypeOK', ApprovalBudget,
         sends' = sends, grants' = grants,
         \A a \in Actions : Spending(a)' \subseteq Spending(a),
         \A a \in Actions : status'[a] = "approved" => status[a] = "approved"
  PROVE  ApprovalBudget'
<1> SUFFICES ASSUME NEW a \in Actions, Kind[a] # "capture"
             PROVE  (sends[a] + Cardinality(Spending(a)) + Unclaimed(a)
                       <= grants[a])'
  BY DEF ApprovalBudget
<1>1. Cardinality(Spending(a)') <= Cardinality(Spending(a))
  BY SpendingFinite, FS_Subset
<1>2. Cardinality(Spending(a)') \in Nat
  BY SpendingFinite, FS_Subset, FS_CardinalityType
<1>3. /\ Unclaimed(a)' <= Unclaimed(a)
      /\ Unclaimed(a) \in Nat /\ Unclaimed(a)' \in Nat
  BY DEF Unclaimed
<1>4. sends[a] + Cardinality(Spending(a)) + Unclaimed(a) <= grants[a]
  BY DEF ApprovalBudget
<1>5. sends[a] \in Nat /\ grants[a] \in Nat
  BY DEF TypeOK
<1>6. QED
  BY <1>1, <1>2, <1>3, <1>4, <1>5, SpendingFinite

\* A caller that leaves spends nothing any more.
LEMMA LeaveSpends ==
  ASSUME TypeOK, NEW p \in Callers, Leave(p)
  PROVE  \A a \in Actions : Spending(a)' \subseteq Spending(a)
BY DEF TypeOK, Leave, Goto, Spending

\* It keeps no snapshot either.
LEMMA LeaveSupport ==
  ASSUME TypeOK, Support, NEW p \in Callers, Leave(p), gated' = gated,
         sends' = sends
  PROVE  Support'
BY DEF TypeOK, Support, GatedRows, GatedSnaps, VerifiedSnaps, EffectKinds,
       CaptureSilent, Leave, Goto

\* Steps of the rest of the program, which touch no caller.
LEMMA OutsideSupport ==
  ASSUME TypeOK, Support, sends' = sends,
         pc' = pc, call' = call, snap' = snap,
         \A a \in Actions : Kind[a] # "capture" => gated'[a]
  PROVE  Support'
BY DEF TypeOK, Support, GatedRows, GatedSnaps, VerifiedSnaps, EffectKinds,
       CaptureSilent

LEMMA SupportStep ==
  ASSUME TypeOK, Support, [Next]_vars
  PROVE  Support'
<1> USE DEF rowVars, localVars, envVars, history
<1>0. ASSUME NEW p \in Callers
      PROVE  call[p].action \in Actions
  BY DEF TypeOK, Calls
<1>1. ASSUME NEW p \in Callers,
             PersonaBlock(p) \/ Return(p) \/ Refuse(p) \/ Settle(p) \/ Crash(p)
      PROVE  Support'
  <2>1. Leave(p) /\ gated' = gated /\ sends' = sends
    BY <1>1 DEF PersonaBlock, Return, Refuse, Settle, Crash
  <2>2. QED
    BY <2>1, LeaveSupport
<1>2. ASSUME NEW p \in Callers, Approve(p)
      PROVE  Support'
  BY <1>2 DEF Approve, Goto, TypeOK, Support, GatedRows, GatedSnaps,
              VerifiedSnaps, EffectKinds, CaptureSilent
<1>3. ASSUME NEW p \in Callers, Reread(p)
      PROVE  Support'
  <2>1. snap'[p].gated = gated[call[p].action]
    BY <1>3 DEF Reread, Row, TypeOK
  <2>2. QED
    BY <1>0, <1>3, <2>1
       DEF Reread, Goto, TypeOK, Support, GatedRows, GatedSnaps,
           VerifiedSnaps, EffectKinds, CaptureSilent
<1>4. ASSUME NEW p \in Callers, Verify(p)
      PROVE  Support'
  <2>1. Kind[call[p].action] # "capture" => snap[p].status = "approved"
    BY <1>4 DEF Verify, AtGate, MayRun, Support, GatedSnaps
  <2>2. QED
    <3>1. /\ pc[p] # "idle"
          /\ pc'[p] \in {"verified", "refused"}
          /\ \A q \in Callers : q # p => pc'[q] = pc[q]
      BY <1>4 DEF Verify, AtGate, Goto, TypeOK
    <3>2. UNCHANGED <<gated, call, snap, sends>>
      BY <1>4 DEF Verify
    <3>3. QED
      BY <2>1, <3>1, <3>2
         DEF Support, GatedRows, GatedSnaps, VerifiedSnaps, EffectKinds,
             CaptureSilent
<1>5. ASSUME NEW p \in Callers, Claim(p)
      PROVE  Support'
  <2>1. CASE ClaimWins(p)
    BY <1>5, <2>1
       DEF Claim, Goto, TypeOK, Support, GatedRows, GatedSnaps,
           VerifiedSnaps, EffectKinds, CaptureSilent
  <2>2. CASE ~ClaimWins(p)
    BY <1>5, <2>2, LeaveSupport DEF Claim
  <2>3. QED
    BY <2>1, <2>2
<1>6. ASSUME NEW p \in Callers, Start(p)
      PROVE  Support'
  <2>1. pc'[p] = "effect" => Kind[call[p].action] \in External
    BY <1>6 DEF Start, MaySend, Goto, TypeOK
  <2>2. pc'[p] \in {"effect", "settle"}
        /\ \A q \in Callers : q # p => pc'[q] = pc[q]
    BY <1>6 DEF Start, Goto, TypeOK
  <2>3. pc[p] = "claimed" /\ UNCHANGED <<gated, call, snap, sends>>
    BY <1>6 DEF Start
  <2>4. QED
    BY <2>1, <2>2, <2>3
       DEF Support, GatedRows, GatedSnaps, VerifiedSnaps, EffectKinds,
           CaptureSilent
<1>7. ASSUME NEW p \in Callers, Deliver(p)
      PROVE  Support'
  <2>1. Kind[call[p].action] # "capture"
    BY <1>7 DEF Deliver, Support, EffectKinds, External
  <2>2. CaptureSilent'
    BY <1>7, <2>1 DEF Deliver, TypeOK, Support, CaptureSilent
  <2>3. QED
    BY <1>7, <2>2
       DEF Deliver, Goto, TypeOK, Support, GatedRows, GatedSnaps,
           VerifiedSnaps, EffectKinds
<1>8. ASSUME NEW p \in Callers, NoDelivery(p)
      PROVE  Support'
  BY <1>8 DEF NoDelivery, Goto, TypeOK, Support, GatedRows, GatedSnaps,
              VerifiedSnaps, EffectKinds, CaptureSilent
<1>9. ASSUME NEW p \in Callers, NEW a \in Actions,
             NEW approve \in BOOLEAN, NEW execute \in BOOLEAN,
             Call(p, a, approve, execute)
      PROVE  Support'
  <2>1. snap'[p].gated = gated[a] /\ call'[p].action = a /\ pc'[p] = "read"
    BY <1>9 DEF Call, Goto, Row, TypeOK
  <2>2. \A q \in Callers : q # p =>
          pc'[q] = pc[q] /\ call'[q] = call[q] /\ snap'[q] = snap[q]
    BY <1>9 DEF Call, Goto, TypeOK
  <2>3. UNCHANGED <<gated, sends>>
    BY <1>9 DEF Call
  <2>4. QED
    BY <2>1, <2>2, <2>3
       DEF Support, GatedRows, GatedSnaps, VerifiedSnaps, EffectKinds,
           CaptureSilent
<1>10. ASSUME NEW a \in Actions, Propose(a)
       PROVE  Support'
  <2>1. UNCHANGED <<sends, pc, call, snap>>
    BY <1>10 DEF Propose, EnqueueProposal, AutopilotInsert, AutopilotRun,
                 LoopCycle, Insert
  <2>2. \A b \in Actions : Kind[b] # "capture" => gated'[b]
    BY <1>10 DEF Propose, EnqueueProposal, AutopilotInsert, AutopilotRun,
                 LoopCycle, Insert, ForcedApproval, TypeOK, Support, GatedRows
  <2>3. QED
    BY <2>1, <2>2, OutsideSupport
<1>11. ASSUME \/ \E a \in Actions : StandingRuleBlock(a)
              \/ \E a \in Actions, n \in Notes : Triage(a, n)
              \/ \E a \in Actions, d \in Payloads : EditPayload(a, d)
              \/ Tick
              \/ UNCHANGED vars
       PROVE  Support'
  <2>1. UNCHANGED <<gated, sends, pc, call, snap>>
    BY <1>11 DEF StandingRuleBlock, Triage, EditPayload, Tick, vars
  <2>2. QED
    BY <2>1, OutsideSupport DEF Support, GatedRows
<1>12. QED
  BY <1>1, <1>2, <1>3, <1>4, <1>5, <1>6, <1>7, <1>8, <1>9, <1>10, <1>11
     DEF Next, Step

\* Only Approve, a claim that wins and Deliver move the budget.
LEMMA BudgetStep ==
  ASSUME TypeOK, TypeOK', Support, ApprovalBudget, [Next]_vars
  PROVE  ApprovalBudget'
<1> USE DEF rowVars, localVars, envVars, history
<1>0. ASSUME NEW p \in Callers
      PROVE  call[p].action \in Actions
  BY DEF TypeOK, Calls
<1>1. ASSUME NEW p \in Callers,
             PersonaBlock(p) \/ Return(p) \/ Refuse(p) \/ Settle(p) \/ Crash(p)
      PROVE  ApprovalBudget'
  <2>1. Leave(p) /\ sends' = sends /\ grants' = grants
    BY <1>1 DEF PersonaBlock, Return, Refuse, Settle, Crash
  <2>2. \A a \in Actions : status'[a] = "approved" => status[a] = "approved"
    BY <1>0, <1>1 DEF PersonaBlock, Return, Refuse, Settle, Crash, SetStatus,
                      TypeOK, Outcomes
  <2>3. QED
    BY <2>1, <2>2, LeaveSpends, BudgetKept
<1>2. ASSUME NEW p \in Callers,
             Reread(p) \/ Verify(p) \/ Start(p) \/ NoDelivery(p)
      PROVE  ApprovalBudget'
  <2>1. UNCHANGED <<sends, grants, status, call>>
    BY <1>2 DEF Reread, Verify, Start, NoDelivery
  <2>2. /\ pc'[p] \in {"claimed", "effect"} => pc[p] \in {"claimed", "effect"}
        /\ \A q \in Callers : q # p => pc'[q] = pc[q]
    BY <1>2 DEF Reread, Verify, Start, NoDelivery, Goto, TypeOK
  <2>3. \A a \in Actions : Spending(a)' \subseteq Spending(a)
    BY <2>1, <2>2 DEF Spending
  <2>4. QED
    BY <2>1, <2>3, BudgetKept
<1>3. ASSUME NEW p \in Callers, NEW a \in Actions,
             NEW approve \in BOOLEAN, NEW execute \in BOOLEAN,
             Call(p, a, approve, execute)
      PROVE  ApprovalBudget'
  <2>1. UNCHANGED <<sends, grants, status>>
    BY <1>3 DEF Call
  <2>2. \A b \in Actions : Spending(b)' \subseteq Spending(b)
    BY <1>3 DEF Call, Goto, Spending, TypeOK
  <2>3. QED
    BY <2>1, <2>2, BudgetKept
<1>4. ASSUME NEW p \in Callers, Approve(p)
      PROVE  ApprovalBudget'
  <2> DEFINE a == call[p].action
  <2>1. \A b \in Actions : Spending(b)' = Spending(b)
    BY <1>4 DEF Approve, Goto, Spending, TypeOK
  <2>2. /\ \A b \in Actions : sends'[b] = sends[b]
        /\ grants'[a] = grants[a] + 1
        /\ \A b \in Actions : b # a => grants'[b] = grants[b]
    BY <1>0, <1>4 DEF Approve, TypeOK
  <2>3. \A b \in Actions : /\ Unclaimed(b)' \in {0, 1} /\ Unclaimed(b) \in {0, 1}
                           /\ b # a => Unclaimed(b)' = Unclaimed(b)
    BY <1>0, <1>4 DEF Approve, SetStatus, Unclaimed, TypeOK
  <2>4. \A b \in Actions : sends[b] \in Nat /\ grants[b] \in Nat
    BY DEF TypeOK
  <2> HIDE DEF a
  <2>5. ASSUME NEW b \in Actions, Kind[b] # "capture"
        PROVE  (sends[b] + Cardinality(Spending(b)) + Unclaimed(b)
                  <= grants[b])'
    <3>1. sends[b] + Cardinality(Spending(b)) + Unclaimed(b) <= grants[b]
      BY <2>5 DEF ApprovalBudget
    <3>2. Cardinality(Spending(b)') = Cardinality(Spending(b))
      BY <2>1
    <3>3. QED
      BY <2>2, <2>3, <2>4, <3>1, <3>2, SpendingFinite
  <2>6. QED
    BY <2>5 DEF ApprovalBudget
<1>5. ASSUME NEW p \in Callers, Claim(p)
      PROVE  ApprovalBudget'
  <2> DEFINE a == call[p].action
  <2>1. CASE ~ClaimWins(p)
    <3>1. Leave(p) /\ UNCHANGED <<sends, grants, status>>
      BY <1>5, <2>1 DEF Claim
    <3>2. QED
      BY <3>1, LeaveSpends, BudgetKept
  <2>2. CASE ClaimWins(p)
    <3>1. Kind[a] # "capture" => status[a] = "approved"
      BY <1>5, <2>2 DEF Claim, ClaimWins, Support, VerifiedSnaps
    <3>2. /\ status'[a] = "executing"
          /\ \A b \in Actions : b # a => status'[b] = status[b]
          /\ UNCHANGED <<sends, grants>>
      BY <1>0, <1>5, <2>2 DEF Claim, SetStatus, TypeOK
    <3>3. \A b \in Actions :
            /\ b = a => Spending(b)' \subseteq Spending(b) \cup {p}
            /\ b # a => Spending(b)' \subseteq Spending(b)
      BY <1>5, <2>2 DEF Claim, Goto, Spending, TypeOK
    <3> HIDE DEF a
    <3>4. ASSUME NEW b \in Actions, Kind[b] # "capture"
          PROVE  (sends[b] + Cardinality(Spending(b)) + Unclaimed(b)
                    <= grants[b])'
      <4>1. sends[b] + Cardinality(Spending(b)) + Unclaimed(b) <= grants[b]
        BY <3>4 DEF ApprovalBudget
      <4>2. sends[b] \in Nat /\ grants[b] \in Nat
        BY DEF TypeOK
      <4>3. CASE b # a
        <5>1. Cardinality(Spending(b)') <= Cardinality(Spending(b))
              /\ Cardinality(Spending(b)') \in Nat
          BY <3>3, <4>3, SpendingFinite, FS_Subset, FS_CardinalityType
        <5>2. Unclaimed(b)' = Unclaimed(b) /\ Unclaimed(b) \in {0, 1}
          BY <3>2, <4>3 DEF Unclaimed
        <5>3. QED
          BY <3>2, <4>1, <4>2, <5>1, <5>2, SpendingFinite
      <4>4. CASE b = a
        <5>1. Spending(b)' \in SUBSET (Spending(b) \cup {p})
          BY <3>3, <4>4
        <5>2. /\ Cardinality(Spending(b)') <= Cardinality(Spending(b)) + 1
              /\ Cardinality(Spending(b)') \in Nat
          BY <5>1, SpendingFinite, OneMore
        <5>3. Unclaimed(b)' = 0 /\ Unclaimed(b) = 1
          BY <3>1, <3>2, <3>4, <4>4 DEF Unclaimed
        <5>4. QED
          BY <3>2, <4>1, <4>2, <5>2, <5>3, SpendingFinite
      <4>5. QED
        BY <4>3, <4>4
    <3>5. QED
      BY <3>4 DEF ApprovalBudget
  <2>3. QED
    BY <2>1, <2>2
<1>6. ASSUME NEW p \in Callers, Deliver(p)
      PROVE  ApprovalBudget'
  <2> DEFINE a == call[p].action
  <2>1. /\ sends'[a] = sends[a] + 1
        /\ \A b \in Actions : b # a => sends'[b] = sends[b]
        /\ UNCHANGED <<grants, status>>
    BY <1>0, <1>6 DEF Deliver, TypeOK
  <2>2. \A b \in Actions :
          /\ b = a => p \in Spending(b) /\ Spending(b)' = Spending(b) \ {p}
          /\ b # a => Spending(b)' = Spending(b)
    BY <1>6 DEF Deliver, Goto, Spending, TypeOK
  <2> HIDE DEF a
  <2>3. ASSUME NEW b \in Actions, Kind[b] # "capture"
        PROVE  (sends[b] + Cardinality(Spending(b)) + Unclaimed(b)
                  <= grants[b])'
    <3>1. sends[b] + Cardinality(Spending(b)) + Unclaimed(b) <= grants[b]
      BY <2>3 DEF ApprovalBudget
    <3>2. sends[b] \in Nat /\ grants[b] \in Nat
      BY DEF TypeOK
    <3>3. Unclaimed(b)' = Unclaimed(b) /\ Unclaimed(b) \in {0, 1}
      BY <2>1 DEF Unclaimed
    <3>4. CASE b # a
      <4>1. Cardinality(Spending(b)') = Cardinality(Spending(b))
        BY <2>2, <3>4
      <4>2. QED
        BY <2>1, <3>1, <3>2, <3>3, <3>4, <4>1, SpendingFinite
    <3>5. CASE b = a
      <4>1. Cardinality(Spending(b)') = Cardinality(Spending(b)) - 1
        BY <2>2, <3>5, SpendingFinite, OneLess
      <4>2. QED
        BY <2>1, <3>1, <3>2, <3>3, <3>5, <4>1, SpendingFinite
    <3>6. QED
      BY <3>4, <3>5
  <2>4. QED
    BY <2>3 DEF ApprovalBudget
<1>7. ASSUME \/ \E a \in Actions : Propose(a) \/ StandingRuleBlock(a)
             \/ \E a \in Actions, n \in Notes : Triage(a, n)
             \/ \E a \in Actions, d \in Payloads : EditPayload(a, d)
             \/ Tick
             \/ UNCHANGED vars
      PROVE  ApprovalBudget'
  <2>1. UNCHANGED <<sends, grants, pc, call>>
    BY <1>7 DEF Propose, EnqueueProposal, AutopilotInsert, AutopilotRun,
                LoopCycle, Insert, StandingRuleBlock, Triage, EditPayload,
                Tick, vars
  <2>2. \A a \in Actions : status'[a] = "approved" => status[a] = "approved"
    <3>1. ASSUME NEW b \in Actions, NEW t,
                 t # "approved", status' = [status EXCEPT ![b] = t]
          PROVE  \A a \in Actions : status'[a] = "approved" => status[a] = "approved"
      BY <3>1 DEF TypeOK
    <3>2. CASE \E b \in Actions : Propose(b)
      <4>1. PICK b \in Actions : Propose(b)
        BY <3>2
      <4>2. CASE EnqueueProposal(b)
        BY <3>1, <4>2 DEF EnqueueProposal, SetStatus
      <4>3. CASE AutopilotInsert(b)
        BY <3>1, <4>3 DEF AutopilotInsert, SetStatus
      <4>4. CASE AutopilotRun(b)
        BY <3>1, <4>4 DEF AutopilotRun, SetStatus
      <4>5. CASE LoopCycle(b)
        BY <3>1, <4>5 DEF LoopCycle, SetStatus
      <4>6. QED
        BY <4>1, <4>2, <4>3, <4>4, <4>5 DEF Propose
    <3>3. CASE \E b \in Actions : StandingRuleBlock(b)
      BY <3>1, <3>3 DEF StandingRuleBlock, SetStatus
    <3>4. CASE \/ \E b \in Actions, n \in Notes : Triage(b, n)
               \/ \E b \in Actions, d \in Payloads : EditPayload(b, d)
               \/ Tick
               \/ UNCHANGED vars
      BY <3>4 DEF Triage, EditPayload, Tick, rowVars, vars
    <3>5. QED
      BY <1>7, <3>2, <3>3, <3>4
  <2>3. \A a \in Actions : Spending(a)' \subseteq Spending(a)
    BY <2>1 DEF Spending
  <2>4. QED
    BY <2>1, <2>2, <2>3, BudgetKept
<1>8. QED
  BY <1>1, <1>2, <1>3, <1>4, <1>5, <1>6, <1>7 DEF Next, Step

LEMMA SupportInit == Init => Support /\ ApprovalBudget
<1> SUFFICES ASSUME Init
             PROVE  Support /\ ApprovalBudget
  OBVIOUS
<1>1. Support
  BY DEF Init, Support, GatedRows, GatedSnaps, VerifiedSnaps, EffectKinds,
         CaptureSilent
<1>2. \A a \in Actions : Spending(a) = {} /\ Unclaimed(a) = 0
  BY DEF Init, Spending, Unclaimed
<1>3. Cardinality({}) = 0
  BY FS_EmptySet
<1>4. \A a \in Actions : sends[a] = 0 /\ grants[a] = 0
  BY DEF Init
<1>5. ASSUME NEW a \in Actions
      PROVE  sends[a] + Cardinality(Spending(a)) + Unclaimed(a) <= grants[a]
  <2>1. Cardinality(Spending(a)) = 0
    BY <1>2, <1>3
  <2>2. QED
    BY <1>2, <1>4, <2>1
<1>6. QED
  BY <1>1, <1>5 DEF ApprovalBudget

LEMMA Inductive == Spec => []IInv
<1>1. Init => IInv
  BY TypeInit, SupportInit DEF IInv
<1>2. IInv /\ [Next]_vars => IInv'
  BY TypeStep, SupportStep, BudgetStep DEF IInv
<1>3. QED
  BY <1>1, <1>2, PTL DEF Spec

\* What was sent, is being sent and is approved but unclaimed never exceeds
\* the approvals that approve_and_execute committed.
THEOREM BudgetHolds == Spec => []ApprovalBudget
<1>1. IInv => ApprovalBudget
  BY DEF IInv
<1>2. QED
  BY <1>1, Inductive, PTL

\* approve_and_execute sends nothing that an approval of its own did not pay
\* for, for any number of processes calling, retrying and dying.
THEOREM ApprovedBeforeSent == Spec => []SendsWithinApprovals
<1>1. ASSUME IInv
      PROVE  SendsWithinApprovals
  <2> SUFFICES ASSUME NEW a \in Actions
               PROVE  sends[a] <= grants[a]
    BY DEF SendsWithinApprovals
  <2>1. /\ sends[a] \in Nat /\ grants[a] \in Nat
        /\ Unclaimed(a) \in {0, 1}
    BY <1>1 DEF IInv, TypeOK, Unclaimed
  <2>2. CASE Kind[a] = "capture"
    BY <1>1, <2>1, <2>2 DEF IInv, Support, CaptureSilent
  <2>3. CASE Kind[a] # "capture"
    <3>1. sends[a] + Cardinality(Spending(a)) + Unclaimed(a) <= grants[a]
      BY <1>1, <2>3 DEF IInv, ApprovalBudget
    <3>2. QED
      BY <2>1, <3>1, SpendingFinite
  <2>4. QED
    BY <2>2, <2>3
<1>2. QED
  BY <1>1, Inductive, PTL

-----------------------------------------------------------------------------
(* Refinement: approvals are Grants, deliveries are Sends.                 *)

LEMMA GateStep ==
  ASSUME IInv, [Next]_vars
  PROVE  [Gate!GateNext]_(Gate!gateVars)
<1> USE DEF rowVars, localVars, envVars, history
<1>0. ASSUME NEW p \in Callers
      PROVE  call[p].action \in Actions
  BY DEF IInv, TypeOK, Calls
<1>1. ASSUME NEW p \in Callers, Approve(p)
      PROVE  Gate!Grant(call[p].action)
  BY <1>1 DEF Approve, Gate!Grant
<1>2. ASSUME NEW p \in Callers, Deliver(p)
      PROVE  Gate!Send(call[p].action)
  <2> DEFINE a == call[p].action
  <2>1. Kind[a] # "capture" /\ p \in Spending(a)
    BY <1>2 DEF Deliver, IInv, Support, EffectKinds, External, Spending
  <2>2. a \in Actions /\ sends[a] \in Nat /\ grants[a] \in Nat
        /\ Unclaimed(a) \in {0, 1}
    BY <1>0 DEF IInv, TypeOK, Unclaimed
  <2>3. sends[a] + Cardinality(Spending(a)) + Unclaimed(a) <= grants[a]
    BY <2>1, <2>2 DEF IInv, ApprovalBudget
  <2>4. Cardinality(Spending(a)) >= 1
    <3>1. Cardinality(Spending(a)) # 0
      BY <2>1, <2>2, SpendingFinite, FS_EmptySet
    <3>2. QED
      BY <2>2, <3>1, SpendingFinite
  <2>5. sends[a] < grants[a]
    BY <2>2, <2>3, <2>4, SpendingFinite
  <2>6. sends' = [sends EXCEPT ![a] = @ + 1] /\ UNCHANGED grants
    BY <1>2 DEF Deliver
  <2>7. QED
    BY <2>5, <2>6 DEF Gate!Send
<1>3. CASE \A p \in Callers : ~Approve(p) /\ ~Deliver(p)
  <2>1. UNCHANGED <<grants, sends>>
    BY <1>3 DEF Next, Step, PersonaBlock, Reread, Return, Verify, Refuse,
                Claim, Start, NoDelivery, Settle, Crash, Call, Propose,
                EnqueueProposal, AutopilotInsert, AutopilotRun, LoopCycle,
                Insert, StandingRuleBlock, Triage, EditPayload, Tick, vars
  <2>2. QED
    BY <2>1 DEF Gate!gateVars
<1>4. QED
  BY <1>0, <1>1, <1>2, <1>3 DEF Gate!GateNext

\* The execution core implements the abstract gate.
THEOREM Implementation == Spec => ImplementsGate
<1>1. Init => Gate!GateInit
  BY DEF Init, Gate!GateInit
<1>2. IInv /\ [Next]_vars => [Gate!GateNext]_(Gate!gateVars)
  BY GateStep
<1>3. QED
  BY <1>1, <1>2, Inductive, PTL DEF Spec, ImplementsGate, Gate!GateSpec
-----------------------------------------------------------------------------
(* The ledger of attempts.                                                 *)

LEMMA AtWorkFinite ==
  ASSUME NEW a \in Actions
  PROVE  /\ IsFiniteSet(AtWork(a))
         /\ Cardinality(AtWork(a)) \in Nat
BY ActionLifecycleAssumption, FS_Subset, FS_CardinalityType DEF AtWork

\* Steps that start and end no attempt.
LEMMA LedgerKept ==
  ASSUME LedgerBalances, UNCHANGED <<attempts, receipts, orphans>>,
         \A a \in Actions : AtWork(a)' = AtWork(a),
         \A a \in Actions : status'[a] = "executing" => status[a] = "executing"
  PROVE  LedgerBalances'
<1>1. ASSUME NEW a \in Actions
      PROVE  /\ (attempts[a] = receipts[a] + orphans[a] + Cardinality(AtWork(a)))'
             /\ (status[a] = "executing" => AtWork(a) # {} \/ orphans[a] > 0)'
  <2>1. /\ attempts[a] = receipts[a] + orphans[a] + Cardinality(AtWork(a))
        /\ status[a] = "executing" => AtWork(a) # {} \/ orphans[a] > 0
    BY DEF LedgerBalances
  <2>2. Cardinality(AtWork(a)') = Cardinality(AtWork(a))
    OBVIOUS
  <2>3. QED
    BY <2>1, <2>2
<1>2. QED
  BY <1>1 DEF LedgerBalances

\* A caller that was not at work leaves without a trace in the ledger.
LEMMA LeaveAtWork ==
  ASSUME TypeOK, NEW p \in Callers, Leave(p)
  PROVE  \A a \in Actions : AtWork(a)' = IF Running(p) THEN AtWork(a) \ {p}
                                                       ELSE AtWork(a)
BY DEF TypeOK, Leave, Goto, AtWork, Running

\* An attempt that ends moves by one from AtWork into the receipts or the
\* orphans, and a row is left 'executing' only with an orphan.
LEMMA AttemptEnds ==
  ASSUME TypeOK, LedgerBalances, NEW p \in Callers, Leave(p), Running(p),
         NEW a \in Actions, a = call[p].action, attempts' = attempts,
         \/ /\ receipts' = [receipts EXCEPT ![a] = @ + 1]
            /\ orphans' = orphans
            /\ \A b \in Actions : status'[b] = "executing" =>
                 status[b] = "executing" /\ b # a
         \/ /\ orphans' = [orphans EXCEPT ![a] = @ + 1]
            /\ receipts' = receipts
            /\ status' = status
  PROVE  LedgerBalances'
<1>1. ASSUME NEW b \in Actions
      PROVE  /\ (attempts[b] = receipts[b] + orphans[b] + Cardinality(AtWork(b)))'
             /\ (status[b] = "executing" => AtWork(b) # {} \/ orphans[b] > 0)'
  <2>1. /\ attempts[b] = receipts[b] + orphans[b] + Cardinality(AtWork(b))
        /\ status[b] = "executing" => AtWork(b) # {} \/ orphans[b] > 0
    BY DEF LedgerBalances
  <2>2. AtWork(b)' = AtWork(b) \ {p} /\ (b = a <=> p \in AtWork(b))
    BY LeaveAtWork DEF AtWork
  <2>3. attempts[b] \in Nat /\ receipts[b] \in Nat /\ orphans[b] \in Nat
    BY DEF TypeOK
  <2>4. CASE b = a
    <3>1. Cardinality(AtWork(b)') = Cardinality(AtWork(b)) - 1
      BY <2>2, <2>4, AtWorkFinite, OneLess
    <3>2. /\ receipts'[b] + orphans'[b] = receipts[b] + orphans[b] + 1
          /\ status'[b] = "executing" => orphans'[b] > 0
      BY <2>3, <2>4 DEF TypeOK
    <3>3. receipts'[b] \in Nat /\ orphans'[b] \in Nat
      BY <2>3, <2>4 DEF TypeOK
    <3>4. QED
      BY <2>1, <2>3, <3>1, <3>2, <3>3, AtWorkFinite
  <2>5. CASE b # a
    <3>1. AtWork(b)' = AtWork(b)
      BY <2>2, <2>5
    <3>2. Cardinality(AtWork(b)') = Cardinality(AtWork(b))
      BY <3>1
    <3>3. /\ receipts'[b] = receipts[b] /\ orphans'[b] = orphans[b]
          /\ status'[b] = "executing" => status[b] = "executing"
      BY <2>5 DEF TypeOK
    <3>4. QED
      BY <2>1, <3>1, <3>2, <3>3
  <2>6. QED
    BY <2>4, <2>5
<1>2. QED
  BY <1>1 DEF LedgerBalances

LEMMA LedgerStep ==
  ASSUME TypeOK, LedgerBalances, [Next]_vars
  PROVE  LedgerBalances'
<1> USE DEF rowVars, localVars, envVars, history
<1>0. ASSUME NEW p \in Callers
      PROVE  call[p].action \in Actions
  BY DEF TypeOK, Calls
<1>1. ASSUME NEW p \in Callers,
             PersonaBlock(p) \/ Return(p) \/ (Claim(p) /\ ~ClaimWins(p))
      PROVE  LedgerBalances'
  <2>1. Leave(p) /\ ~Running(p) /\ UNCHANGED <<attempts, receipts, orphans>>
    BY <1>1 DEF PersonaBlock, Return, Claim, AtGate, Running
  <2>2. \A a \in Actions : status'[a] = "executing" => status[a] = "executing"
    BY <1>0, <1>1 DEF PersonaBlock, Return, Claim, SetStatus, TypeOK
  <2>3. QED
    BY <2>1, <2>2, LeaveAtWork, LedgerKept
<1>2. ASSUME NEW p \in Callers,
             \/ Approve(p) \/ Reread(p) \/ Verify(p)
             \/ Start(p) \/ Deliver(p) \/ NoDelivery(p)
      PROVE  LedgerBalances'
  <2>1. UNCHANGED <<attempts, receipts, orphans, call>>
    BY <1>2 DEF Approve, Reread, Verify, Start, Deliver, NoDelivery
  <2>2. \A a \in Actions : status'[a] = "executing" => status[a] = "executing"
    BY <1>0, <1>2 DEF Approve, Reread, Verify, Start, Deliver, NoDelivery,
                      SetStatus, TypeOK
  <2>3. /\ Running(p)' <=> Running(p)
        /\ \A q \in Callers : q # p => pc'[q] = pc[q]
    BY <1>2 DEF Approve, Reread, Verify, Start, Deliver, NoDelivery, AtGate,
                Goto, TypeOK, Running
  <2>4. \A a \in Actions : AtWork(a)' = AtWork(a)
    BY <2>1, <2>3 DEF AtWork, Running
  <2>5. QED
    BY <2>1, <2>2, <2>4, LedgerKept
<1>3. ASSUME NEW p \in Callers, Refuse(p)
      PROVE  LedgerBalances'
  <2> DEFINE a == call[p].action
  <2>1. Leave(p) /\ ~Running(p)
    BY <1>3 DEF Refuse, Running
  <2>2. \A b \in Actions : AtWork(b)' = AtWork(b)
    BY <2>1, LeaveAtWork
  <2>3. /\ orphans' = orphans
        /\ attempts' = [attempts EXCEPT ![a] = @ + 1]
        /\ receipts' = [receipts EXCEPT ![a] = @ + 1]
        /\ status' = [status EXCEPT ![a] = "failed"]
    BY <1>3 DEF Refuse, WriteReceipt, SetStatus
  <2>4. a \in Actions
    BY <1>0
  <2> HIDE DEF a
  <2>5. ASSUME NEW b \in Actions
        PROVE  /\ (attempts[b] = receipts[b] + orphans[b] + Cardinality(AtWork(b)))'
               /\ (status[b] = "executing" => AtWork(b) # {} \/ orphans[b] > 0)'
    <3>1. /\ attempts[b] = receipts[b] + orphans[b] + Cardinality(AtWork(b))
          /\ status[b] = "executing" => AtWork(b) # {} \/ orphans[b] > 0
      BY DEF LedgerBalances
    <3>2. Cardinality(AtWork(b)') = Cardinality(AtWork(b))
      BY <2>2
    <3>3. attempts[b] \in Nat /\ receipts[b] \in Nat /\ orphans[b] \in Nat
      BY DEF TypeOK
    <3>4. /\ b = a => /\ attempts'[b] = attempts[b] + 1
                      /\ receipts'[b] = receipts[b] + 1
                      /\ status'[b] = "failed"
          /\ b # a => /\ attempts'[b] = attempts[b]
                      /\ receipts'[b] = receipts[b]
                      /\ status'[b] = status[b]
      BY <2>3, <2>4 DEF TypeOK
    <3>5. QED
      BY <2>2, <2>3, <3>1, <3>2, <3>3, <3>4, AtWorkFinite
  <2>6. QED
    BY <2>5 DEF LedgerBalances
<1>4. ASSUME NEW p \in Callers, Claim(p), ClaimWins(p)
      PROVE  LedgerBalances'
  <2> DEFINE a == call[p].action
  <2>1. /\ UNCHANGED <<receipts, orphans, call>>
        /\ attempts' = [attempts EXCEPT ![a] = @ + 1]
        /\ status' = [status EXCEPT ![a] = "executing"]
    BY <1>4 DEF Claim, SetStatus
  <2>2. \A b \in Actions :
          /\ b = a => AtWork(b)' = AtWork(b) \cup {p} /\ p \notin AtWork(b)
          /\ b # a => AtWork(b)' = AtWork(b)
    BY <1>4 DEF Claim, Goto, TypeOK, AtWork, Running
  <2>3. a \in Actions
    BY <1>0
  <2> HIDE DEF a
  <2>4. ASSUME NEW b \in Actions
        PROVE  /\ (attempts[b] = receipts[b] + orphans[b] + Cardinality(AtWork(b)))'
               /\ (status[b] = "executing" => AtWork(b) # {} \/ orphans[b] > 0)'
    <3>1. /\ attempts[b] = receipts[b] + orphans[b] + Cardinality(AtWork(b))
          /\ status[b] = "executing" => AtWork(b) # {} \/ orphans[b] > 0
      BY DEF LedgerBalances
    <3>2. attempts[b] \in Nat /\ receipts[b] \in Nat /\ orphans[b] \in Nat
      BY DEF TypeOK
    <3>3. CASE b = a
      <4>1. Cardinality(AtWork(b)') = Cardinality(AtWork(b)) + 1
        BY <2>2, <3>3, AtWorkFinite, FS_AddElement
      <4>2. attempts'[b] = attempts[b] + 1
        BY <2>1, <3>3 DEF TypeOK
      <4>3. AtWork(b)' # {}
        BY <2>2, <3>3
      <4>4. QED
        BY <2>1, <3>1, <3>2, <4>1, <4>2, <4>3, AtWorkFinite
    <3>4. CASE b # a
      <4>1. Cardinality(AtWork(b)') = Cardinality(AtWork(b))
        BY <2>2, <3>4
      <4>2. attempts'[b] = attempts[b] /\ status'[b] = status[b]
        BY <2>1, <3>4 DEF TypeOK
      <4>3. QED
        BY <2>1, <2>2, <3>1, <3>4, <4>1, <4>2
    <3>5. QED
      BY <3>3, <3>4
  <2>5. QED
    BY <2>4 DEF LedgerBalances
<1>5. ASSUME NEW p \in Callers, Settle(p)
      PROVE  LedgerBalances'
  <2>1. Leave(p) /\ Running(p) /\ UNCHANGED <<attempts, orphans>>
    BY <1>5 DEF Settle, Running
  <2>2. receipts' = [receipts EXCEPT ![call[p].action] = @ + 1]
    BY <1>5 DEF Settle, WriteReceipt
  <2>3. \A b \in Actions : status'[b] = "executing" =>
          status[b] = "executing" /\ b # call[p].action
    BY <1>0, <1>5 DEF Settle, SetStatus, TypeOK, Outcomes
  <2>4. QED
    BY <1>0, <2>1, <2>2, <2>3, AttemptEnds
<1>6. ASSUME NEW p \in Callers, Crash(p)
      PROVE  LedgerBalances'
  <2>1. Leave(p) /\ UNCHANGED <<attempts, receipts, status>>
    BY <1>6 DEF Crash
  <2>2. CASE Running(p)
    <3>1. orphans' = [orphans EXCEPT ![call[p].action] = @ + 1]
      BY <1>6, <2>2 DEF Crash
    <3>2. QED
      BY <1>0, <2>1, <2>2, <3>1, AttemptEnds
  <2>3. CASE ~Running(p)
    <3>1. orphans' = orphans
      BY <1>6, <2>3 DEF Crash
    <3>2. QED
      BY <2>1, <2>3, <3>1, LeaveAtWork, LedgerKept
  <2>4. QED
    BY <2>2, <2>3
<1>7. ASSUME NEW p \in Callers, NEW a \in Actions,
             NEW approve \in BOOLEAN, NEW execute \in BOOLEAN,
             Call(p, a, approve, execute)
      PROVE  LedgerBalances'
  <2>1. UNCHANGED <<attempts, receipts, orphans, status>>
    BY <1>7 DEF Call
  <2>2. \A b \in Actions : AtWork(b)' = AtWork(b)
    BY <1>7 DEF Call, Goto, TypeOK, AtWork, Running
  <2>3. QED
    BY <2>1, <2>2, LedgerKept
<1>8. ASSUME \/ \E a \in Actions : Propose(a) \/ StandingRuleBlock(a)
             \/ \E a \in Actions, n \in Notes : Triage(a, n)
             \/ \E a \in Actions, d \in Payloads : EditPayload(a, d)
             \/ Tick
             \/ UNCHANGED vars
      PROVE  LedgerBalances'
  <2>1. UNCHANGED <<attempts, receipts, orphans, pc, call>>
    BY <1>8 DEF Propose, EnqueueProposal, AutopilotInsert, AutopilotRun,
                LoopCycle, Insert, StandingRuleBlock, Triage, EditPayload,
                Tick, vars
  <2>2. \A a \in Actions : status'[a] = "executing" => status[a] = "executing"
    BY <1>8 DEF Propose, EnqueueProposal, AutopilotInsert, AutopilotRun,
                LoopCycle, Insert, SetStatus, StandingRuleBlock, Triage,
                EditPayload, Tick, vars, TypeOK
  <2>3. \A a \in Actions : AtWork(a)' = AtWork(a)
    BY <2>1 DEF AtWork, Running
  <2>4. QED
    BY <2>1, <2>2, <2>3, LedgerKept
<1>9. QED
  BY <1>1, <1>2, <1>3, <1>4, <1>5, <1>6, <1>7, <1>8 DEF Next, Step

\* Every claim of approve_and_execute ends in exactly one receipt, in a
\* caller still at work, or in a caller that died; and nothing but a death
\* strands a row in 'executing'.
THEOREM LedgerHolds == Spec => []LedgerBalances
<1>1. Init => LedgerBalances
  <2> SUFFICES ASSUME Init, NEW a \in Actions
               PROVE  /\ attempts[a] = receipts[a] + orphans[a]
                                         + Cardinality(AtWork(a))
                      /\ status[a] = "executing" =>
                           AtWork(a) # {} \/ orphans[a] > 0
    BY DEF LedgerBalances
  <2>1. AtWork(a) = {}
    BY DEF Init, AtWork, Running
  <2>2. Cardinality(AtWork(a)) = 0
    BY <2>1, FS_EmptySet
  <2>3. QED
    BY <2>2 DEF Init
<1>2. TypeOK /\ LedgerBalances /\ [Next]_vars => LedgerBalances'
  BY LedgerStep
<1>3. QED
  BY <1>1, <1>2, TypeCorrect, PTL DEF Spec

-----------------------------------------------------------------------------
(* Follow-ups.                                                             *)

LEMMA FollowUpStep ==
  ASSUME TypeOK, FailureHasFollowUp, [Next]_vars
  PROVE  FailureHasFollowUp'
<1> USE DEF rowVars, localVars, envVars, history
<1>0. ASSUME NEW p \in Callers
      PROVE  call[p].action \in Actions
  BY DEF TypeOK, Calls
\* Steps to 'failed' insert the row or find it; the others keep what is there.
<1>1. ASSUME \A a \in Actions : status'[a] = "failed" => status[a] = "failed",
             \A a \in Actions, n \in Notes :
                inbox[a][n] # "none" => inbox'[a][n] # "none"
      PROVE  FailureHasFollowUp'
  BY <1>1 DEF FailureHasFollowUp
<1>2. ASSUME NEW a \in Actions, NEW s \in Statuses, NEW m \in Notes,
             SetStatus(a, s), FollowUp(a, m)
      PROVE  FailureHasFollowUp'
  <2>1. inbox'[a][m] # "none"
    BY <1>2 DEF FollowUp, TypeOK
  <2>2. \A b \in Actions : b # a => status'[b] = status[b] /\ inbox'[b] = inbox[b]
    BY <1>2 DEF SetStatus, FollowUp, TypeOK
  <2>3. QED
    BY <2>1, <2>2 DEF FailureHasFollowUp
<1>3. ASSUME NEW p \in Callers, Refuse(p)
      PROVE  FailureHasFollowUp'
  BY <1>0, <1>2, <1>3 DEF Refuse, Statuses
<1>4. ASSUME NEW p \in Callers, Settle(p)
      PROVE  FailureHasFollowUp'
  <2>1. CASE outcome[p] \in {"failed", "blocked"}
    BY <1>0, <1>2, <1>4, <2>1 DEF Settle, Statuses
  <2>2. CASE outcome[p] \notin {"failed", "blocked"}
    BY <1>0, <1>1, <1>4, <2>2 DEF Settle, SetStatus, TypeOK
  <2>3. QED
    BY <2>1, <2>2
<1>5. ASSUME NEW p \in Callers,
             \/ PersonaBlock(p) \/ Approve(p) \/ Reread(p) \/ Return(p)
             \/ Verify(p) \/ Claim(p) \/ Start(p) \/ Deliver(p)
             \/ NoDelivery(p) \/ Crash(p)
      PROVE  FailureHasFollowUp'
  <2>1. inbox' = inbox
    BY <1>5 DEF PersonaBlock, Approve, Reread, Return, Verify, Claim, Start,
                Deliver, NoDelivery, Crash
  <2>2. \A a \in Actions : status'[a] = "failed" => status[a] = "failed"
    BY <1>0, <1>5 DEF PersonaBlock, Approve, Reread, Return, Verify, Claim,
                      Start, Deliver, NoDelivery, Crash, SetStatus, TypeOK
  <2>3. QED
    BY <1>1, <2>1, <2>2
<1>6. ASSUME \/ \E p \in Callers, a \in Actions, approve, execute \in BOOLEAN :
                  Call(p, a, approve, execute)
             \/ \E a \in Actions : Propose(a) \/ StandingRuleBlock(a)
             \/ \E a \in Actions, d \in Payloads : EditPayload(a, d)
             \/ Tick
             \/ UNCHANGED vars
      PROVE  FailureHasFollowUp'
  <2>1. inbox' = inbox
    BY <1>6 DEF Call, Propose, EnqueueProposal, AutopilotInsert, AutopilotRun,
                LoopCycle, Insert, StandingRuleBlock, EditPayload, Tick, vars
  <2>2. \A a \in Actions : status'[a] = "failed" => status[a] = "failed"
    BY <1>6 DEF Call, Propose, EnqueueProposal, AutopilotInsert, AutopilotRun,
                LoopCycle, Insert, SetStatus, StandingRuleBlock, EditPayload,
                Tick, vars, TypeOK
  <2>3. QED
    BY <1>1, <2>1, <2>2
<1>7. ASSUME NEW a \in Actions, NEW n \in Notes, Triage(a, n)
      PROVE  FailureHasFollowUp'
  <2>1. \A b \in Actions, m \in Notes :
          inbox[b][m] # "none" => inbox'[b][m] # "none"
    BY <1>7 DEF Triage, TypeOK
  <2>2. QED
    BY <1>1, <1>7, <2>1 DEF Triage
<1>8. QED
  BY <1>3, <1>4, <1>5, <1>6, <1>7 DEF Next, Step

\* No path of approve_and_execute to 'failed' leaves the row without a
\* follow-up in the inbox, and nothing that happens later takes it away.
THEOREM FollowUpHolds == Spec => []FailureHasFollowUp
<1>1. Init => FailureHasFollowUp
  BY DEF Init, FailureHasFollowUp
<1>2. TypeOK /\ FailureHasFollowUp /\ [Next]_vars => FailureHasFollowUp'
  BY FollowUpStep
<1>3. QED
  BY <1>1, <1>2, TypeCorrect, PTL DEF Spec

-----------------------------------------------------------------------------
(* What runs is what was approved.  ApprovalsHold says nothing of a caller *)
(* before its claim; the reason it holds is in the snapshot the caller     *)
(* took, what the gate let through, and whether the row has changed since. *)

\* A row gets its status 'approved' together with a pinned hash.
PinnedRows == \A a \in Actions : status[a] = "approved" => pin[a] # NoPin

\* The snapshot is a row as it was in the table, and its payload is still
\* there unless somebody edited it since.
Faithful(p) ==
  /\ call[p].at <= clock
  /\ pc[p] # "idle" =>
       /\ snap[p].status = "approved" => snap[p].pin # NoPin
       /\ raced[p] \/ snap[p].payload = payload[call[p].action]

\* Past the integrity check the snapshot is a valid approval.
Vouched(p) ==
  pc[p] \in {"verified", "claimed", "effect", "settle"} /\ snap[p].gated =>
    /\ snap[p].payload = snap[p].pin
    /\ ApprovalTTL > 0 => call[p].at <= snap[p].at + ApprovalTTL

\* The effect works on the payload of the snapshot, or lost a race.
RunsSnap(p) ==
  pc[p] \in {"effect", "settle"} => raced[p] \/ runs[p] = snap[p].payload

CallerOK(p) == Faithful(p) /\ Vouched(p) /\ RunsSnap(p)

PinInv == PinnedRows /\ \A p \in Callers : CallerOK(p)

LEMMA PinnedRowsStep ==
  ASSUME TypeOK, PinnedRows, [Next]_vars
  PROVE  PinnedRows'
<1> USE DEF rowVars, localVars, envVars, history
<1>0. ASSUME NEW p \in Callers
      PROVE  /\ call[p].action \in Actions
             /\ snap[p].payload \in Payloads
             /\ outcome[p] # "approved"
  BY DEF TypeOK, Calls, Rows, Outcomes
<1>1. ASSUME pin' = pin,
             \A a \in Actions : status'[a] = "approved" => status[a] = "approved"
      PROVE  PinnedRows'
  BY <1>1 DEF PinnedRows
<1>2. ASSUME NEW p \in Callers, Approve(p)
      PROVE  PinnedRows'
  <2>1. snap[p].payload # NoPin
    BY <1>0, ActionLifecycleAssumption
  <2>2. QED
    BY <1>0, <1>2, <2>1 DEF Approve, SetStatus, TypeOK, PinnedRows
<1>3. ASSUME NEW p \in Callers,
             \/ PersonaBlock(p) \/ Reread(p) \/ Return(p) \/ Verify(p)
             \/ Refuse(p) \/ Claim(p) \/ Start(p) \/ Deliver(p)
             \/ NoDelivery(p) \/ Settle(p) \/ Crash(p)
      PROVE  PinnedRows'
  <2>1. pin' = pin
    BY <1>3 DEF PersonaBlock, Reread, Return, Verify, Refuse, Claim, Start,
                Deliver, NoDelivery, Settle, Crash
  <2>2. \A a \in Actions : status'[a] = "approved" => status[a] = "approved"
    BY <1>0, <1>3 DEF PersonaBlock, Reread, Return, Verify, Refuse, Claim,
                      Start, Deliver, NoDelivery, Settle, Crash, SetStatus,
                      TypeOK
  <2>3. QED
    BY <1>1, <2>1, <2>2
<1>4. ASSUME \/ \E p \in Callers, a \in Actions, approve, execute \in BOOLEAN :
                  Call(p, a, approve, execute)
             \/ \E a \in Actions : Propose(a) \/ StandingRuleBlock(a)
             \/ \E a \in Actions, n \in Notes : Triage(a, n)
             \/ \E a \in Actions, d \in Payloads : EditPayload(a, d)
             \/ Tick
             \/ UNCHANGED vars
      PROVE  PinnedRows'
  <2>1. pin' = pin
    BY <1>4 DEF Call, Propose, EnqueueProposal, AutopilotInsert, AutopilotRun,
                LoopCycle, Insert, StandingRuleBlock, Triage, EditPayload,
                Tick, vars
  <2>2. \A a \in Actions : status'[a] = "approved" => status[a] = "approved"
    BY <1>4 DEF Call, Propose, EnqueueProposal, AutopilotInsert, AutopilotRun,
                LoopCycle, Insert, SetStatus, StandingRuleBlock, Triage,
                EditPayload, Tick, vars, TypeOK
  <2>3. QED
    BY <1>1, <2>1, <2>2
<1>5. QED
  BY <1>2, <1>3, <1>4 DEF Next, Step

\* A step of caller p leaves the others alone.
LEMMA OthersOK ==
  ASSUME NEW p \in Callers, \A q \in Callers : CallerOK(q),
         UNCHANGED <<payload, clock>>, CallerOK(p)',
         \A q \in Callers : q # p =>
           /\ pc'[q] = pc[q] /\ call'[q] = call[q] /\ snap'[q] = snap[q]
           /\ runs'[q] = runs[q] /\ raced'[q] = raced[q]
  PROVE  \A q \in Callers : CallerOK(q)'
BY DEF CallerOK, Faithful, Vouched, RunsSnap

\* A caller that leaves has nothing to answer for.
LEMMA LeaveOK ==
  ASSUME TypeOK, NEW p \in Callers, \A q \in Callers : CallerOK(q),
         UNCHANGED <<payload, clock>>, Leave(p)
  PROVE  \A q \in Callers : CallerOK(q)'
<1>1. pc'[p] = "idle" /\ call'[p].at = 0
  BY DEF Leave, Goto, BlankCall, TypeOK
<1>2. CallerOK(p)'
  BY <1>1 DEF CallerOK, Faithful, Vouched, RunsSnap, TypeOK
<1>3. QED
  BY <1>2, OthersOK DEF Leave, Goto, TypeOK

LEMMA CallerStep ==
  ASSUME TypeOK, PinInv, [Next]_vars
  PROVE  \A q \in Callers : CallerOK(q)'
<1> USE DEF rowVars, localVars, envVars, history
<1>a. \A q \in Callers : CallerOK(q)
  BY DEF PinInv
<1>0. ASSUME NEW p \in Callers
      PROVE  /\ call[p].action \in Actions
             /\ call[p].at \in Nat
             /\ snap[p].at \in Nat
             /\ clock \in Nat
  BY DEF TypeOK, Calls, Rows
<1>1. ASSUME NEW p \in Callers,
             \/ PersonaBlock(p) \/ Return(p) \/ Refuse(p) \/ Settle(p)
             \/ Crash(p) \/ (Claim(p) /\ ~ClaimWins(p))
      PROVE  \A q \in Callers : CallerOK(q)'
  <2>1. Leave(p) /\ UNCHANGED <<payload, clock>>
    BY <1>1 DEF PersonaBlock, Return, Refuse, Settle, Crash, Claim
  <2>2. QED
    BY <1>a, <2>1, LeaveOK
<1>2. ASSUME NEW p \in Callers, Approve(p) \/ (Claim(p) /\ ClaimWins(p))
      PROVE  \A q \in Callers : CallerOK(q)'
  <2>1. UNCHANGED <<payload, clock, call, snap, runs, raced>>
    BY <1>2 DEF Approve, Claim
  <2>2. /\ \/ pc[p] = "read" /\ pc'[p] = "reread"
           \/ pc[p] = "verified" /\ pc'[p] = "claimed"
        /\ \A q \in Callers : q # p => pc'[q] = pc[q]
    BY <1>2 DEF Approve, Claim, Goto, TypeOK
  <2>3. CallerOK(p)'
    BY <1>a, <2>1, <2>2 DEF CallerOK, Faithful, Vouched, RunsSnap
  <2>4. QED
    BY <1>a, <2>1, <2>2, <2>3, OthersOK
<1>3. ASSUME NEW p \in Callers, Reread(p)
      PROVE  \A q \in Callers : CallerOK(q)'
  <2>1. /\ UNCHANGED <<payload, clock, call, runs>>
        /\ pc'[p] = "gate"
        /\ snap'[p] = Row(call[p].action)
        /\ \A q \in Callers : q # p =>
             pc'[q] = pc[q] /\ snap'[q] = snap[q] /\ raced'[q] = raced[q]
    BY <1>3 DEF Reread, Goto, TypeOK
  <2>2. /\ snap'[p].status = "approved" => snap'[p].pin # NoPin
        /\ snap'[p].payload = payload[call[p].action]
    BY <1>0, <2>1 DEF Row, PinInv, PinnedRows
  <2>3. CallerOK(p)'
    BY <1>a, <2>1, <2>2 DEF CallerOK, Faithful, Vouched, RunsSnap
  <2>4. QED
    BY <1>a, <2>1, <2>3, OthersOK
<1>4. ASSUME NEW p \in Callers, Verify(p)
      PROVE  \A q \in Callers : CallerOK(q)'
  <2>1. /\ UNCHANGED <<payload, clock, call, snap, runs, raced>>
        /\ pc[p] # "idle" /\ pc'[p] \in {"verified", "refused"}
        /\ \A q \in Callers : q # p => pc'[q] = pc[q]
        /\ pc'[p] = "verified" => Intact(snap[p])
    BY <1>4 DEF Verify, AtGate, Goto, TypeOK
  <2>2. snap[p].gated => snap[p].status = "approved"
    BY <1>4 DEF Verify, MayRun
  <2>3. Faithful(p)
    BY <1>a DEF CallerOK
  <2>4. snap[p].gated => snap[p].pin # NoPin
    BY <2>1, <2>2, <2>3 DEF Faithful
  <2>5. pc'[p] = "verified" /\ snap[p].gated =>
          /\ snap[p].payload = snap[p].pin
          /\ ApprovalTTL > 0 => call[p].at <= snap[p].at + ApprovalTTL
    <3>1. pc'[p] = "verified" /\ snap[p].gated =>
            /\ snap[p].payload = snap[p].pin
            /\ ApprovalTTL > 0 => clock <= snap[p].at + ApprovalTTL
      BY <2>1, <2>4, ActionLifecycleAssumption DEF Intact
    <3>2. call[p].at <= clock
      BY <2>3 DEF Faithful
    <3>3. QED
      BY <1>0, <3>1, <3>2, ActionLifecycleAssumption
  <2>6. CallerOK(p)'
    BY <2>1, <2>3, <2>5 DEF CallerOK, Faithful, Vouched, RunsSnap
  <2>7. QED
    BY <1>a, <2>1, <2>6, OthersOK
<1>5. ASSUME NEW p \in Callers, Start(p)
      PROVE  \A q \in Callers : CallerOK(q)'
  <2>1. /\ UNCHANGED <<payload, clock, call, snap, raced>>
        /\ pc[p] = "claimed" /\ pc'[p] \in {"effect", "settle"}
        /\ runs'[p] = payload[call[p].action]
        /\ \A q \in Callers : q # p => pc'[q] = pc[q] /\ runs'[q] = runs[q]
    BY <1>5 DEF Start, Goto, TypeOK
  <2>2. CallerOK(p)'
    BY <1>a, <2>1 DEF CallerOK, Faithful, Vouched, RunsSnap
  <2>3. QED
    BY <1>a, <2>1, <2>2, OthersOK
<1>6. ASSUME NEW p \in Callers, Deliver(p) \/ NoDelivery(p)
      PROVE  \A q \in Callers : CallerOK(q)'
  <2>1. /\ UNCHANGED <<payload, clock, call, snap, runs, raced>>
        /\ pc[p] = "effect" /\ pc'[p] = "settle"
        /\ \A q \in Callers : q # p => pc'[q] = pc[q]
    BY <1>6 DEF Deliver, NoDelivery, Goto, TypeOK
  <2>2. CallerOK(p)'
    BY <1>a, <2>1 DEF CallerOK, Faithful, Vouched, RunsSnap
  <2>3. QED
    BY <1>a, <2>1, <2>2, OthersOK
<1>7. ASSUME NEW p \in Callers, NEW a \in Actions,
             NEW approve \in BOOLEAN, NEW execute \in BOOLEAN,
             Call(p, a, approve, execute)
      PROVE  \A q \in Callers : CallerOK(q)'
  <2>1. /\ UNCHANGED <<payload, clock, runs>>
        /\ pc'[p] = "read" /\ snap'[p] = Row(a)
        /\ call'[p].action = a /\ call'[p].at = clock
        /\ \A q \in Callers : q # p =>
             /\ pc'[q] = pc[q] /\ call'[q] = call[q]
             /\ snap'[q] = snap[q] /\ raced'[q] = raced[q]
    BY <1>7 DEF Call, Goto, TypeOK
  <2>2. /\ snap'[p].status = "approved" => snap'[p].pin # NoPin
        /\ snap'[p].payload = payload[a]
    BY <2>1 DEF Row, PinInv, PinnedRows
  <2>3. CallerOK(p)'
    BY <1>0, <2>1, <2>2 DEF CallerOK, Faithful, Vouched, RunsSnap
  <2>4. QED
    BY <1>a, <2>1, <2>3, OthersOK
<1>8. ASSUME NEW a \in Actions, NEW d \in Payloads, EditPayload(a, d)
      PROVE  \A q \in Callers : CallerOK(q)'
  <2>1. ASSUME NEW q \in Callers
        PROVE  CallerOK(q)'
    <3>1. UNCHANGED <<clock, pc, call, snap, runs>>
      BY <1>8 DEF EditPayload
    <3>2. /\ raced[q] => raced'[q]
          /\ pc[q] # "idle" /\ call[q].action = a => raced'[q]
          /\ call[q].action # a =>
               payload'[call[q].action] = payload[call[q].action]
      BY <1>0, <1>8 DEF EditPayload, HasRead, TypeOK
    <3>3. CallerOK(q)
      BY <1>a
    <3>4. QED
      BY <3>1, <3>2, <3>3 DEF CallerOK, Faithful, Vouched, RunsSnap
  <2>2. QED
    BY <2>1
<1>9. CASE Tick
  <2>1. UNCHANGED <<payload, pc, call, snap, runs, raced>> /\ clock' = clock + 1
    BY <1>9 DEF Tick
  <2>2. \A q \in Callers : call[q].at <= clock'
    BY <1>0, <1>a, <2>1 DEF CallerOK, Faithful
  <2>3. QED
    BY <1>a, <2>1, <2>2 DEF CallerOK, Faithful, Vouched, RunsSnap
<1>10. ASSUME \/ \E a \in Actions : Propose(a) \/ StandingRuleBlock(a)
              \/ \E a \in Actions, n \in Notes : Triage(a, n)
              \/ UNCHANGED vars
       PROVE  \A q \in Callers : CallerOK(q)'
  <2>1. UNCHANGED <<payload, clock, pc, call, snap, runs, raced>>
    BY <1>10 DEF Propose, EnqueueProposal, AutopilotInsert, AutopilotRun,
                 LoopCycle, Insert, StandingRuleBlock, Triage, vars
  <2>2. QED
    BY <1>a, <2>1 DEF CallerOK, Faithful, Vouched, RunsSnap
<1>11. QED
  BY <1>1, <1>2, <1>3, <1>4, <1>5, <1>6, <1>7, <1>8, <1>9, <1>10
     DEF Next, Step

\* approve_and_execute runs the payload whose hash the approval pinned, in a
\* call that began before the approval expired, for every TTL and any number
\* of outside edits; only an edit after the last look at the row slips by.
THEOREM ApprovedIsWhatRuns == Spec => []ApprovalsHold
<1>1. Init => PinInv
  <2> SUFFICES ASSUME Init
               PROVE  PinInv
    OBVIOUS
  <2>1. PinnedRows
    BY DEF Init, PinnedRows
  <2>2. \A p \in Callers : CallerOK(p)
    BY DEF Init, BlankCall, CallerOK, Faithful, Vouched, RunsSnap
  <2>3. QED
    BY <2>1, <2>2 DEF PinInv
<1>2. TypeOK /\ PinInv /\ [Next]_vars => PinInv'
  BY PinnedRowsStep, CallerStep DEF PinInv
<1>3. PinInv => ApprovalsHold
  BY DEF PinInv, CallerOK, Vouched, RunsSnap, ApprovalsHold, Running
<1>4. QED
  BY <1>1, <1>2, <1>3, TypeCorrect, PTL DEF Spec

-----------------------------------------------------------------------------
(* Rollbacks and the execution core.                                       *)

\* A proposal of a rollback is a proposal like any other.
LEMMA RollbackStep ==
  ASSUME [RollbackNext]_<<vars, rollbackVars>>
  PROVE  [Next]_vars
<1>1. CASE Lifecycle
  BY <1>1 DEF Lifecycle
<1>2. ASSUME NEW i \in DOMAIN ledger, NEW u \in Undos, ProposeRollback(i, u)
      PROVE  Next
  <2>1. u \in Actions
    BY RollbackAssumption
  <2>2. EnqueueProposal(u)
    BY <1>2 DEF ProposeRollback, EnqueueProposal
  <2>3. QED
    BY <2>1, <2>2 DEF Next, Propose
<1>3. CASE UNCHANGED <<vars, rollbackVars>>
  BY <1>3
<1>4. QED
  BY <1>1, <1>2, <1>3 DEF RollbackNext

\* Every behaviour with rollbacks is one of the execution core.
THEOREM RollbackIsLifecycle == RollbackSpec => Spec
<1>1. RollbackInit => Init
  BY DEF RollbackInit
<1>2. [RollbackNext]_<<vars, rollbackVars>> => [Next]_vars
  BY RollbackStep
<1>3. QED
  BY <1>1, <1>2, PTL DEF RollbackSpec, Spec

\* So no compensation leaves the machine without an approval of its own.
THEOREM RollbackKeepsGate == RollbackSpec => ImplementsGate
BY RollbackIsLifecycle, Implementation, PTL

-----------------------------------------------------------------------------
(* Whatever is not a local capture is approved before it is executed.      *)
(* SendsWithinApprovals says so of what leaves the machine; a rollback is  *)
(* a draft and never leaves it, so it needs an invariant of its own: who   *)
(* is at work on a row has claimed it, and so found it approved.           *)

Carried  == {"approved", "executing", "executed"}
EarnedBy(a) ==
  /\ status[a] \in Carried => grants[a] > 0
  /\ \A p \in Callers : Running(p) /\ call[p].action = a => grants[a] > 0
Earned   == \A a \in Actions : Kind[a] # "capture" => EarnedBy(a)

\* Steps that approve nothing and put no row and no caller further.
LEMMA EarnedKept ==
  ASSUME TypeOK, Earned, grants' = grants,
         \A a \in Actions : Kind[a] # "capture" /\ status'[a] \in Carried =>
           status[a] \in Carried,
         \A p \in Callers : Running(p)' => Running(p) /\ call'[p] = call[p]
  PROVE  Earned'
BY DEF Earned, EarnedBy

LEMMA LeaveRuns ==
  ASSUME TypeOK, NEW p \in Callers, Leave(p)
  PROVE  \A q \in Callers : Running(q)' => Running(q) /\ call'[q] = call[q]
BY DEF TypeOK, Leave, Goto, Running

LEMMA EarnedStep ==
  ASSUME TypeOK, Support, Earned, [Next]_vars
  PROVE  Earned'
<1> USE DEF rowVars, localVars, envVars, history
<1>0. ASSUME NEW p \in Callers
      PROVE  call[p].action \in Actions
  BY DEF TypeOK, Calls
<1>1. ASSUME NEW p \in Callers,
             PersonaBlock(p) \/ Return(p) \/ Refuse(p) \/ Crash(p)
      PROVE  Earned'
  <2>1. /\ Leave(p) /\ grants' = grants
        /\ \/ status' = status
           \/ \E s \in {"blocked", "failed"} : SetStatus(call[p].action, s)
    BY <1>1 DEF PersonaBlock, Return, Refuse, Crash
  <2>2. \A a \in Actions : status'[a] \in Carried => status[a] \in Carried
    BY <2>1, <1>0 DEF SetStatus, TypeOK, Carried
  <2>3. QED
    BY <2>1, <2>2, LeaveRuns, EarnedKept
<1>2. ASSUME NEW p \in Callers, Settle(p)
      PROVE  Earned'
  <2> DEFINE b == call[p].action
  <2>1. Leave(p) /\ grants' = grants /\ SetStatus(b, outcome[p]) /\ Running(p)
    BY <1>2 DEF Settle, Running
  <2>2. Kind[b] # "capture" => grants[b] > 0
    BY <2>1, <1>0 DEF Earned, EarnedBy
  <2>3. \A a \in Actions : a # b => status'[a] = status[a]
    BY <2>1 DEF SetStatus, TypeOK
  <2>4. \A q \in Callers : Running(q)' => Running(q) /\ call'[q] = call[q]
    BY <2>1, LeaveRuns
  <2>5. QED
    BY <2>1, <2>2, <2>3, <2>4 DEF Earned, EarnedBy
<1>3. ASSUME NEW p \in Callers, Approve(p)
      PROVE  Earned'
  <2> DEFINE b == call[p].action
  <2>1. /\ grants' = [grants EXCEPT ![b] = @ + 1] /\ call' = call
        /\ SetStatus(b, "approved") /\ Goto(p, "reread")
    BY <1>3 DEF Approve
  <2>2. \A a \in Actions : a # b => status'[a] = status[a]
    BY <2>1 DEF SetStatus, TypeOK
  <2>3. \A a \in Actions : grants'[a] >= grants[a] /\ grants[a] \in Nat
    BY <2>1 DEF TypeOK
  <2>4. grants'[b] > 0
    BY <2>1, <1>0 DEF TypeOK
  <2>5. \A q \in Callers : Running(q)' => Running(q)
    BY <2>1 DEF Goto, Running, TypeOK
  <2>6. QED
    BY <2>1, <2>2, <2>3, <2>4, <2>5 DEF Earned, EarnedBy, TypeOK
<1>4. ASSUME NEW p \in Callers, Claim(p)
      PROVE  Earned'
  <2>1. CASE ClaimWins(p)
    <3> DEFINE b == call[p].action
    <3>1. /\ SetStatus(b, "executing") /\ Goto(p, "claimed")
          /\ grants' = grants /\ call' = call /\ pc[p] = "verified"
      BY <1>4, <2>1 DEF Claim
    <3>2. Kind[b] # "capture" => status[b] = "approved"
      BY <2>1, <3>1 DEF ClaimWins, Support, VerifiedSnaps
    <3>3. Kind[b] # "capture" => grants[b] > 0
      BY <3>2, <1>0 DEF Earned, EarnedBy, Carried
    <3>4. \A a \in Actions : a # b => status'[a] = status[a]
      BY <3>1 DEF SetStatus, TypeOK
    <3>5. \A q \in Callers : q # p => (Running(q)' <=> Running(q))
      BY <3>1 DEF Goto, Running, TypeOK
    <3>6. QED
      BY <3>1, <3>3, <3>4, <3>5 DEF Earned, EarnedBy
  <2>2. CASE ~ClaimWins(p)
    <3>1. Leave(p) /\ grants' = grants /\ status' = status
      BY <1>4, <2>2 DEF Claim
    <3>2. QED
      BY <3>1, LeaveRuns, EarnedKept
  <2>3. QED
    BY <2>1, <2>2
<1>5. ASSUME NEW p \in Callers,
             Reread(p) \/ Verify(p) \/ Start(p) \/ Deliver(p) \/ NoDelivery(p)
      PROVE  Earned'
  <2>1. UNCHANGED <<status, grants, call>>
    BY <1>5 DEF Reread, Verify, Start, Deliver, NoDelivery
  <2>2. \A q \in Callers : Running(q)' => Running(q)
    BY <1>5 DEF Reread, Verify, Start, Deliver, NoDelivery, Goto, Running,
                TypeOK
  <2>3. QED
    BY <2>1, <2>2, EarnedKept
<1>6. ASSUME NEW p \in Callers, NEW a \in Actions,
             NEW approve \in BOOLEAN, NEW execute \in BOOLEAN,
             Call(p, a, approve, execute)
      PROVE  Earned'
  <2>1. UNCHANGED <<status, grants>> /\ pc' = [pc EXCEPT ![p] = "read"]
        /\ \A q \in Callers : q # p => call'[q] = call[q]
    BY <1>6 DEF Call, Goto, TypeOK
  <2>2. \A q \in Callers : Running(q)' => Running(q) /\ call'[q] = call[q]
    BY <2>1 DEF Running, TypeOK
  <2>3. QED
    BY <2>1, <2>2, EarnedKept
<1>7. ASSUME NEW a \in Actions, Propose(a)
      PROVE  Earned'
  <2>1. UNCHANGED <<grants, pc, call>>
    BY <1>7 DEF Propose, EnqueueProposal, AutopilotInsert, AutopilotRun,
                LoopCycle, Insert
  <2>2. ASSUME NEW b \in Actions, Kind[b] # "capture", status'[b] \in Carried
        PROVE  status[b] \in Carried
    BY <1>7, <2>2
       DEF Propose, EnqueueProposal, AutopilotInsert, AutopilotRun, LoopCycle,
           Insert, ForcedApproval, SetStatus, TypeOK, Support, GatedRows,
           Carried
  <2>3. QED
    BY <2>1, <2>2, EarnedKept DEF Running
<1>8. ASSUME \/ \E a \in Actions : StandingRuleBlock(a)
             \/ \E a \in Actions, n \in Notes : Triage(a, n)
             \/ \E a \in Actions, d \in Payloads : EditPayload(a, d)
             \/ Tick
             \/ UNCHANGED vars
      PROVE  Earned'
  <2>1. UNCHANGED <<grants, pc, call>>
    BY <1>8 DEF StandingRuleBlock, Triage, EditPayload, Tick, vars
  <2>2. \A a \in Actions : status'[a] \in Carried => status[a] \in Carried
    BY <1>8 DEF StandingRuleBlock, Triage, EditPayload, Tick, vars, SetStatus,
                TypeOK, Carried
  <2>3. QED
    BY <2>1, <2>2, EarnedKept DEF Running
<1>9. QED
  BY <1>1, <1>2, <1>3, <1>4, <1>5, <1>6, <1>7, <1>8 DEF Next, Step

LEMMA EarnedInit == Init => Earned
BY DEF Init, Earned, EarnedBy, Carried, Running

LEMMA ApprovedBeforeExecuted == Spec => []Earned
<1>1. IInv => TypeOK /\ Support
  BY DEF IInv
<1>2. QED
  BY <1>1, EarnedInit, EarnedStep, Inductive, PTL DEF Spec

\* No rollback is approved, executing or executed without an approval that a
\* caller gave to that very row.
THEOREM UndosWaitForApproval == RollbackSpec => []UndosAreApproved
<1>1. Earned => UndosAreApproved
  BY RollbackAssumption DEF Earned, EarnedBy, Carried, UndosAreApproved
<1>2. QED
  BY <1>1, RollbackIsLifecycle, ApprovedBeforeExecuted, PTL

-----------------------------------------------------------------------------
(* The ledger.  Receipts are appended one at a time, and of one that is    *)
(* there only the link to a proposal ever changes.                         *)

Record == [action : Actions, final : Statuses, inverse : BOOLEAN,
           undo : Undos \cup {NoUndo}]
LedgerType == ledger \in Seq(Record) /\ undoOf \in [Undos -> Nat]

Receipt(a) == [action |-> a, final |-> status'[a],
               inverse |-> HasInverse(a, status'[a]), undo |-> NoUndo]

LEMMA EmptyToSeq == SetToSeq({}) = <<>>
<1>1. Cardinality({}) = 0
  BY FS_EmptySet
<1>2. \E f \in [1 .. 0 -> {}] : IsInjective(f)
  <2>1. <<>> \in [1 .. 0 -> {}] /\ IsInjective(<<>>)
    BY DEF IsInjective
  <2>2. QED
    BY <2>1
<1>3. SetToSeq({}) \in [1 .. 0 -> {}]
  BY <1>1, <1>2 DEF SetToSeq
<1>4. QED
  BY <1>3

LEMMA OneToSeq ==
  ASSUME NEW x
  PROVE  SetToSeq({x}) = <<x>>
<1>1. Cardinality({x}) = 1
  BY FS_Singleton
<1>2. \E f \in [1 .. 1 -> {x}] : IsInjective(f)
  <2>1. <<x>> \in [1 .. 1 -> {x}] /\ IsInjective(<<x>>)
    BY DEF IsInjective
  <2>2. QED
    BY <2>1
<1>3. SetToSeq({x}) \in [1 .. 1 -> {x}]
  BY <1>1, <1>2 DEF SetToSeq
<1>4. QED
  BY <1>3

\* No receipt, no record.
LEMMA NothingRecorded ==
  ASSUME LedgerType, Recorded, receipts' = receipts
  PROVE  ledger' = ledger
<1>1. {a \in Actions : receipts'[a] # receipts[a]} = {}
  OBVIOUS
<1>2. ledger' = ledger \o SetToSeq({})
  BY <1>1 DEF Recorded
<1>3. QED
  BY <1>2, EmptyToSeq DEF LedgerType

\* A receipt is recorded at the end of the ledger.
LEMMA OneRecorded ==
  ASSUME TypeOK, LedgerType, Recorded, NEW a \in Actions, WriteReceipt(a)
  PROVE  ledger' = Append(ledger, Receipt(a))
<1>1. {b \in Actions : receipts'[b] # receipts[b]} = {a}
  BY DEF WriteReceipt, TypeOK
<1>2. ledger' = ledger \o SetToSeq({Receipt(b) : b \in {a}})
  BY <1>1 DEF Recorded, Receipt
<1>3. {Receipt(b) : b \in {a}} = {Receipt(a)}
  OBVIOUS
<1>4. ledger' = ledger \o <<Receipt(a)>>
  BY <1>2, <1>3, OneToSeq
<1>5. QED
  BY <1>4 DEF LedgerType

LEMMA ReceiptsStep ==
  ASSUME TypeOK, [Next]_vars
  PROVE  receipts' = receipts \/ \E a \in Actions : WriteReceipt(a)
<1> USE DEF rowVars, localVars, envVars, history
<1>1. ASSUME NEW p \in Callers, Step(p) \/ Crash(p)
      PROVE  receipts' = receipts \/ \E a \in Actions : WriteReceipt(a)
  <2>1. call[p].action \in Actions
    BY DEF TypeOK, Calls
  <2>2. CASE Refuse(p) \/ Settle(p)
    BY <2>1, <2>2 DEF Refuse, Settle
  <2>3. CASE ~(Refuse(p) \/ Settle(p))
    BY <1>1, <2>3 DEF Step, PersonaBlock, Approve, Reread, Return, Verify, Claim,
                      Start, Deliver, NoDelivery, Crash
  <2>4. QED
    BY <2>2, <2>3
<1>2. CASE ~ \E p \in Callers : Step(p) \/ Crash(p)
  BY <1>2 DEF Next, Call, Propose, EnqueueProposal, AutopilotInsert,
              AutopilotRun, LoopCycle, Insert, StandingRuleBlock, Triage,
              EditPayload, Tick, vars
<1>3. QED
  BY <1>1, <1>2

\* A row that is there stays there.
LEMMA RowsStay ==
  ASSUME TypeOK, [Next]_vars, NEW u \in Actions, status'[u] = "absent"
  PROVE  status[u] = "absent"
<1> USE DEF rowVars, localVars, envVars, history
<1>1. ASSUME NEW p \in Callers, Step(p) \/ Crash(p)
      PROVE  status[u] = "absent"
  <2>1. call[p].action \in Actions /\ outcome[p] # "absent"
    BY DEF TypeOK, Calls, Outcomes
  <2>2. status' = status \/ \E t : t # "absent" /\ SetStatus(call[p].action, t)
    BY <1>1, <2>1 DEF Step, PersonaBlock, Approve, Reread, Return, Verify,
                      Refuse, Claim, Start, Deliver, NoDelivery, Settle, Crash
  <2>3. QED
    BY <2>1, <2>2 DEF SetStatus, TypeOK
<1>2. ASSUME NEW a \in Actions, Propose(a) \/ StandingRuleBlock(a)
      PROVE  status[u] = "absent"
  BY <1>2 DEF Propose, EnqueueProposal, AutopilotInsert, AutopilotRun, LoopCycle,
              StandingRuleBlock, SetStatus, TypeOK
<1>3. CASE UNCHANGED status
  BY <1>3
<1>4. QED
  BY <1>1, <1>2, <1>3 DEF Next, Call, Triage, EditPayload, Tick, vars

\* UndosAreLinked holds because a row takes one proposal, and what is not a
\* row yet, or not a receipt yet, has no link.
LinkInv ==
  /\ LedgerType
  /\ UndosAreLinked
  /\ \A u \in Undos : undoOf[u] <= Len(ledger)
  /\ \A u \in Undos : status[u] = "absent" => undoOf[u] = 0

LEMMA LinkInit == RollbackInit => LinkInv
BY DEF RollbackInit, LinkInv, LedgerType, UndosAreLinked

\* The ledger after a step of the execution core.
LEMMA LedgerNext ==
  ASSUME TypeOK, TypeOK', LedgerType, [Next]_vars, Recorded
  PROVE  /\ ledger' \in Seq(Record)
         /\ \/ receipts' = receipts /\ ledger' = ledger
            \/ \E a \in Actions : /\ WriteReceipt(a)
                                  /\ ledger' = Append(ledger, Receipt(a))
<1>1. CASE receipts' = receipts
  BY <1>1, NothingRecorded DEF LedgerType
<1>2. ASSUME NEW a \in Actions, WriteReceipt(a)
      PROVE  /\ ledger' = Append(ledger, Receipt(a))
             /\ ledger' \in Seq(Record)
  <2>1. ledger' = Append(ledger, Receipt(a))
    BY <1>2, OneRecorded
  <2>2. Receipt(a) \in Record
    BY DEF Receipt, Record, HasInverse, TypeOK
  <2>3. QED
    BY <2>1, <2>2 DEF LedgerType
<1>3. QED
  BY <1>1, <1>2, ReceiptsStep DEF LedgerType

\* A link changes nothing else of a record.
LEMMA Linked ==
  ASSUME NEW r \in Record, NEW u \in Undos
  PROVE  /\ [r EXCEPT !.undo = u] \in Record
         /\ [r EXCEPT !.undo = u].undo = u
         /\ [r EXCEPT !.undo = u].action = r.action
         /\ [r EXCEPT !.undo = u].final = r.final
         /\ [r EXCEPT !.undo = u].inverse = r.inverse
BY DEF Record

LEMMA LinkStep ==
  ASSUME TypeOK, TypeOK', LinkInv, [RollbackNext]_<<vars, rollbackVars>>
  PROVE  LinkInv'
<1> USE DEF rollbackVars
<1>1. CASE Lifecycle
  <2>0. [Next]_vars /\ undoOf' = undoOf /\ Recorded
    BY <1>1 DEF Lifecycle
  <2>1. LedgerType'
    BY <2>0, LedgerNext DEF LinkInv, LedgerType
  <2>2. \/ ledger' = ledger
        \/ \E a \in Actions : ledger' = Append(ledger, Receipt(a))
    BY <2>0, LedgerNext DEF LinkInv
  <2>3. \A u \in Undos : status'[u] = "absent" => undoOf'[u] = 0
    BY <2>0, RowsStay, RollbackAssumption DEF LinkInv
  <2>4. CASE ledger' = ledger
    BY <2>0, <2>1, <2>3, <2>4 DEF LinkInv, UndosAreLinked
  <2>5. ASSUME NEW a \in Actions, ledger' = Append(ledger, Receipt(a))
        PROVE  LinkInv'
    <3>1. /\ Len(ledger) \in Nat /\ Len(ledger') = Len(ledger) + 1
          /\ DOMAIN ledger = 1 .. Len(ledger)
          /\ DOMAIN ledger' = 1 .. Len(ledger) + 1
          /\ \A i \in DOMAIN ledger : ledger'[i] = ledger[i]
          /\ ledger'[Len(ledger) + 1].undo = NoUndo
      BY <2>5 DEF LinkInv, LedgerType, Receipt
    <3>2. \A u \in Undos : undoOf[u] \in Nat /\ undoOf[u] <= Len(ledger)
      BY DEF LinkInv, LedgerType
    <3>3. UndosAreLinked'
      BY <2>0, <3>1, <3>2 DEF LinkInv, UndosAreLinked
    <3>4. \A u \in Undos : undoOf'[u] <= Len(ledger')
      BY <2>0, <3>1, <3>2
    <3>5. QED
      BY <2>1, <2>3, <3>3, <3>4 DEF LinkInv
  <2>6. QED
    BY <2>2, <2>4, <2>5
<1>2. ASSUME NEW i \in DOMAIN ledger, NEW u \in Undos, ProposeRollback(i, u)
      PROVE  LinkInv'
  <2>1. /\ ledger \in Seq(Record) /\ undoOf \in [Undos -> Nat]
        /\ Len(ledger) \in Nat /\ DOMAIN ledger = 1 .. Len(ledger)
        /\ undoOf[u] = 0 /\ u # NoUndo
    BY <1>2, RollbackAssumption
       DEF ProposeRollback, Insert, LinkInv, LedgerType
  <2>2. /\ undoOf' = [undoOf EXCEPT ![u] = i]
        /\ ledger' = [ledger EXCEPT ![i].undo = u]
        /\ status' = [status EXCEPT ![u] = "proposed"]
    BY <1>2 DEF ProposeRollback, SetStatus
  <2>3. /\ ledger' \in Seq(Record) /\ Len(ledger') = Len(ledger)
        /\ DOMAIN ledger' = DOMAIN ledger
        /\ ledger'[i].undo = u
        /\ \A k \in DOMAIN ledger : k # i => ledger'[k] = ledger[k]
    <3>1. ledger[i] \in Record
      BY <2>1
    <3>2. /\ [ledger[i] EXCEPT !.undo = u] \in Record
          /\ [ledger[i] EXCEPT !.undo = u].undo = u
      BY <3>1, Linked
    <3>3. ledger' = [ledger EXCEPT ![i] = [ledger[i] EXCEPT !.undo = u]]
      BY <2>2
    <3>4. QED
      BY <2>1, <3>2, <3>3
  <2>4. /\ undoOf' \in [Undos -> Nat]
        /\ undoOf'[u] = i /\ \A v \in Undos : v # u => undoOf'[v] = undoOf[v]
    BY <2>1, <2>2
  <2>5. \A k \in DOMAIN ledger : ledger[k].undo # u
    BY <2>1 DEF LinkInv, UndosAreLinked
  <2>6. UndosAreLinked'
    <3>1. ASSUME NEW k \in DOMAIN ledger
          PROVE  /\ (ledger'[k].undo = NoUndo) <=> (\A v \in Undos : undoOf'[v] # k)
                 /\ ledger'[k].undo # NoUndo => undoOf'[ledger'[k].undo] = k
      <4>1. /\ (ledger[k].undo = NoUndo) <=> (\A v \in Undos : undoOf[v] # k)
            /\ ledger[k].undo # NoUndo => undoOf[ledger[k].undo] = k
        BY DEF LinkInv, UndosAreLinked
      <4>2. CASE k = i
        BY <2>1, <2>3, <2>4, <4>2
      <4>3. CASE k # i
        <5>0. ledger[k] \in Record
          BY <2>1
        <5>1. ledger'[k] = ledger[k] /\ ledger[k].undo \in Undos \cup {NoUndo}
          BY <2>3, <4>3, <5>0 DEF Record
        <5>2. k # 0
          BY <2>1
        <5>3. QED
          BY <2>1, <2>4, <2>5, <4>1, <4>3, <5>1, <5>2
      <4>4. QED
        BY <4>2, <4>3
    <3>2. QED
      BY <2>3, <3>1 DEF UndosAreLinked
  <2>7. /\ \A v \in Undos : undoOf'[v] <= Len(ledger')
        /\ \A v \in Undos : status'[v] = "absent" => undoOf'[v] = 0
    BY <2>1, <2>2, <2>3, <2>4, RollbackAssumption DEF LinkInv, TypeOK
  <2>8. QED
    BY <2>3, <2>4, <2>6, <2>7 DEF LinkInv, LedgerType
<1>3. CASE UNCHANGED <<vars, rollbackVars>>
  BY <1>3 DEF vars, rowVars, LinkInv, LedgerType, UndosAreLinked
<1>4. QED
  BY <1>1, <1>2, <1>3 DEF RollbackNext

-----------------------------------------------------------------------------
(* What was sent can be undone.  SendsCanBeUndone is not inductive: a      *)
(* caller at work may end its attempt without a receipt that helps, but    *)
(* then it has not sent anything, and none of its sends is counted.        *)

\* Callers at work on a row whose attempt has sent nothing so far.
Unsent(a) ==
  {p \in AtWork(a) : \/ pc[p] \in {"claimed", "effect"}
                     \/ pc[p] = "settle" /\ outcome[p] \in {"blocked", "noop"}}

Covered(a) ==
  sends[a] + Cardinality(Unsent(a))
    <= Cardinality(Undoable(a)) + Cardinality(Lost(a)) + orphans[a]
       + Cardinality(AtWork(a))

CoverInv == \A a \in Recognised : Covered(a)

LEMMA PartFinite ==
  ASSUME NEW n \in Nat, NEW S \in SUBSET (1 .. n)
  PROVE  IsFiniteSet(S) /\ Cardinality(S) \in Nat
<1>1. IsFiniteSet(1 .. n)
  BY FS_Interval
<1>2. IsFiniteSet(S)
  BY <1>1, FS_Subset
<1>3. QED
  BY <1>2, FS_CardinalityType

LEMMA CoverFinite ==
  ASSUME LedgerType, NEW a \in Actions
  PROVE  /\ IsFiniteSet(Unsent(a)) /\ Cardinality(Unsent(a)) \in Nat
         /\ IsFiniteSet(Undoable(a)) /\ Cardinality(Undoable(a)) \in Nat
         /\ IsFiniteSet(Lost(a)) /\ Cardinality(Lost(a)) \in Nat
<1>1. Unsent(a) \subseteq AtWork(a)
  BY DEF Unsent
<1>2. Undoable(a) \subseteq 1 .. Len(ledger) /\ Lost(a) \subseteq 1 .. Len(ledger)
  BY DEF Undoable, Lost, LedgerType
<1>3. IsFiniteSet(Unsent(a)) /\ Cardinality(Unsent(a)) \in Nat
  BY <1>1, AtWorkFinite, FS_Subset, FS_CardinalityType
<1>4. Len(ledger) \in Nat
  BY DEF LedgerType
<1>5. QED
  BY <1>2, <1>3, <1>4, PartFinite

LEMMA CoverFiniteNext ==
  ASSUME LedgerType', NEW a \in Actions
  PROVE  /\ IsFiniteSet(Undoable(a)') /\ Cardinality(Undoable(a)') \in Nat
         /\ IsFiniteSet(Lost(a)') /\ Cardinality(Lost(a)') \in Nat
<1>1. /\ Len(ledger') \in Nat
      /\ Undoable(a)' \subseteq 1 .. Len(ledger')
      /\ Lost(a)' \subseteq 1 .. Len(ledger')
  BY DEF LedgerType, Undoable, Lost
<1>2. QED
  BY <1>1, PartFinite

\* The ledger grows, and what it covers stays covered.
LEMMA LedgerGrows ==
  ASSUME TypeOK, LedgerType, LedgerType', NEW a \in Actions,
         \/ ledger' = ledger
         \/ \E b \in Actions : ledger' = Append(ledger, Receipt(b))
         \/ \E i \in DOMAIN ledger, u \in Undos :
              ledger' = [ledger EXCEPT ![i].undo = u]
  PROVE  /\ Cardinality(Undoable(a)) <= Cardinality(Undoable(a)')
         /\ Cardinality(Lost(a)) <= Cardinality(Lost(a)')
<1> DEFINE Kept(i) == /\ i \in DOMAIN ledger'
                      /\ ledger'[i].action = ledger[i].action
                      /\ ledger'[i].final = ledger[i].final
                      /\ ledger'[i].inverse = ledger[i].inverse
<1>1. \A k \in DOMAIN ledger : Kept(k)
  <2>1. CASE ledger' = ledger
    BY <2>1
  <2>2. ASSUME NEW b \in Actions, ledger' = Append(ledger, Receipt(b))
        PROVE  \A k \in DOMAIN ledger : Kept(k)
    BY <2>2 DEF LedgerType
  <2>3. ASSUME NEW i \in DOMAIN ledger, NEW u \in Undos,
               ledger' = [ledger EXCEPT ![i].undo = u]
        PROVE  \A k \in DOMAIN ledger : Kept(k)
    <3>1. ledger' = [ledger EXCEPT ![i] = [ledger[i] EXCEPT !.undo = u]]
      BY <2>3
    <3>2. ledger[i] \in Record
      BY DEF LedgerType
    <3>3. /\ [ledger[i] EXCEPT !.undo = u].action = ledger[i].action
          /\ [ledger[i] EXCEPT !.undo = u].final = ledger[i].final
          /\ [ledger[i] EXCEPT !.undo = u].inverse = ledger[i].inverse
      BY <3>2, Linked
    <3>4. QED
      BY <3>1, <3>3 DEF LedgerType
  <2>4. QED
    BY <2>1, <2>2, <2>3
<1>2. Undoable(a) \subseteq Undoable(a)' /\ Lost(a) \subseteq Lost(a)'
  BY <1>1 DEF Undoable, Lost
<1>3. IsFiniteSet(Undoable(a)') /\ IsFiniteSet(Lost(a)')
  BY CoverFiniteNext
<1>4. QED
  BY <1>2, <1>3, FS_Subset

\* A receipt that says executed or failed covers one more.
LEMMA ReceiptCovers ==
  ASSUME TypeOK, LedgerType, NEW a \in Recognised,
         status'[a] \in {"executed", "failed"},
         ledger' = Append(ledger, Receipt(a))
  PROVE  Cardinality(Undoable(a)') + Cardinality(Lost(a)')
           >= Cardinality(Undoable(a)) + Cardinality(Lost(a)) + 1
<1> DEFINE n == Len(ledger) + 1
<1>0. a \in Actions
  BY RollbackAssumption
<1>1. /\ Len(ledger) \in Nat
      /\ DOMAIN ledger = 1 .. Len(ledger) /\ DOMAIN ledger' = 1 .. n
      /\ ledger'[n] = Receipt(a)
      /\ \A i \in DOMAIN ledger : ledger'[i] = ledger[i]
  BY DEF LedgerType
<1>2. n \notin Undoable(a) /\ n \notin Lost(a)
  BY <1>1 DEF Undoable, Lost
<1>3. CASE status'[a] = "executed"
  <2>0. Receipt(a) = [action |-> a, final |-> "executed", inverse |-> TRUE,
                      undo |-> NoUndo]
    BY <1>3 DEF Receipt, HasInverse
  <2>1. ledger'[n].action = a /\ ledger'[n].inverse /\ ledger'[n].final = "executed"
    BY <1>1, <2>0
  <2>2. Undoable(a)' = Undoable(a) \cup {n} /\ Lost(a)' = Lost(a)
    BY <1>1, <2>1 DEF Undoable, Lost
  <2>3. Cardinality(Undoable(a)') = Cardinality(Undoable(a)) + 1
    BY <1>0, <1>2, <2>2, CoverFinite, FS_AddElement
  <2>4. Cardinality(Lost(a)') = Cardinality(Lost(a))
    BY <2>2
  <2>5. QED
    BY <1>0, <2>3, <2>4, CoverFinite
<1>4. CASE status'[a] = "failed"
  <2>0. Receipt(a) = [action |-> a, final |-> "failed", inverse |-> FALSE,
                      undo |-> NoUndo]
    BY <1>4 DEF Receipt, HasInverse
  <2>1. ledger'[n].action = a /\ ~ledger'[n].inverse /\ ledger'[n].final = "failed"
    BY <1>1, <2>0
  <2>2. Lost(a)' = Lost(a) \cup {n} /\ Undoable(a)' = Undoable(a)
    BY <1>1, <2>1 DEF Undoable, Lost
  <2>3. Cardinality(Lost(a)') = Cardinality(Lost(a)) + 1
    BY <1>0, <1>2, <2>2, CoverFinite, FS_AddElement
  <2>4. Cardinality(Undoable(a)') = Cardinality(Undoable(a))
    BY <2>2
  <2>5. QED
    BY <1>0, <2>3, <2>4, CoverFinite
<1>5. QED
  BY <1>3, <1>4

\* Steps that end no attempt and send nothing.
LEMMA CoverKept ==
  ASSUME TypeOK, TypeOK', LedgerType, LedgerType', CoverInv, sends' = sends,
         \A b \in Actions : orphans'[b] >= orphans[b],
         \A b \in Actions :
           /\ Cardinality(Undoable(b)) <= Cardinality(Undoable(b)')
           /\ Cardinality(Lost(b)) <= Cardinality(Lost(b)'),
         \A b \in Actions : /\ Unsent(b)' \subseteq Unsent(b)
                            /\ AtWork(b)' = AtWork(b)
  PROVE  CoverInv'
<1>1. ASSUME NEW a \in Recognised
      PROVE  Covered(a)'
  <2>1. a \in Actions
    BY RollbackAssumption
  <2>2. Cardinality(Unsent(a)') <= Cardinality(Unsent(a))
        /\ Cardinality(Unsent(a)') \in Nat
    BY <2>1, CoverFinite, FS_Subset, FS_CardinalityType
  <2>3. Cardinality(AtWork(a)') = Cardinality(AtWork(a))
    BY <2>1
  <2>4. /\ Cardinality(Undoable(a)') \in Nat
        /\ Cardinality(Lost(a)') \in Nat
    BY <2>1, CoverFiniteNext
  <2>5. sends[a] \in Nat /\ orphans[a] \in Nat /\ orphans'[a] \in Nat
    BY <2>1 DEF TypeOK
  <2>6. Covered(a)
    BY DEF CoverInv
  <2>7. QED
    BY <2>1, <2>2, <2>3, <2>4, <2>5, <2>6, CoverFinite, AtWorkFinite
       DEF Covered
<1>2. QED
  BY <1>1 DEF CoverInv

\* An attempt on row b that ends takes its caller out of AtWork.
LEMMA CoverEnds ==
  ASSUME TypeOK, TypeOK', LedgerType, LedgerType', CoverInv, sends' = sends,
         NEW p \in Callers, Leave(p), Running(p), NEW b \in Actions,
         b = call[p].action,
         \A a \in Actions :
           /\ Cardinality(Undoable(a)) <= Cardinality(Undoable(a)')
           /\ Cardinality(Lost(a)) <= Cardinality(Lost(a)'),
         \A a \in Actions : orphans'[a] >= orphans[a],
         b \in Recognised =>
           \/ p \in Unsent(b)
           \/ orphans'[b] = orphans[b] + 1
           \/ Cardinality(Undoable(b)') + Cardinality(Lost(b)')
                >= Cardinality(Undoable(b)) + Cardinality(Lost(b)) + 1
  PROVE  CoverInv'
<1>1. ASSUME NEW a \in Recognised
      PROVE  Covered(a)'
  <2>1. a \in Actions
    BY RollbackAssumption
  <2>2. /\ AtWork(a)' = AtWork(a) \ {p}
        /\ a = b <=> p \in AtWork(a)
    BY <2>1, LeaveAtWork DEF AtWork
  <2>3. Unsent(a)' = Unsent(a) \ {p}
    BY <2>2 DEF Unsent, Leave, Goto, TypeOK
  <2>4. /\ Cardinality(Undoable(a)') \in Nat
        /\ Cardinality(Lost(a)') \in Nat
    BY <2>1, CoverFiniteNext
  <2>5. sends[a] \in Nat /\ orphans[a] \in Nat /\ orphans'[a] \in Nat
    BY <2>1 DEF TypeOK
  <2>6. sends[a] + Cardinality(Unsent(a))
          <= Cardinality(Undoable(a)) + Cardinality(Lost(a)) + orphans[a]
             + Cardinality(AtWork(a))
    BY DEF CoverInv, Covered
  <2>7. /\ Cardinality(Unsent(a)') \in Nat
        /\ Cardinality(Unsent(a)') <= Cardinality(Unsent(a))
        /\ p \in Unsent(a) => Cardinality(Unsent(a)') = Cardinality(Unsent(a)) - 1
    <3>1. IsFiniteSet(Unsent(a)) /\ Unsent(a)' \subseteq Unsent(a)
      BY <2>1, <2>3, CoverFinite
    <3>2. IsFiniteSet(Unsent(a)') /\ Cardinality(Unsent(a)') <= Cardinality(Unsent(a))
      BY <3>1, FS_Subset
    <3>3. p \in Unsent(a) => Cardinality(Unsent(a)') = Cardinality(Unsent(a)) - 1
      BY <2>3, <3>1, OneLess
    <3>4. QED
      BY <3>2, <3>3, FS_CardinalityType
  <2>8. CASE a # b
    <3>1. Cardinality(AtWork(a)') = Cardinality(AtWork(a))
      BY <2>2, <2>8
    <3>2. QED
      BY <2>1, <2>4, <2>5, <2>6, <2>7, <3>1, CoverFinite, AtWorkFinite DEF Covered
  <2>9. CASE a = b
    <3>1. Cardinality(AtWork(a)') = Cardinality(AtWork(a)) - 1
      BY <2>1, <2>2, <2>9, AtWorkFinite, OneLess
    <3>2. \/ Cardinality(Unsent(a)') = Cardinality(Unsent(a)) - 1
          \/ orphans'[a] = orphans[a] + 1
          \/ Cardinality(Undoable(a)') + Cardinality(Lost(a)')
               >= Cardinality(Undoable(a)) + Cardinality(Lost(a)) + 1
      BY <2>7, <2>9
    <3>3. QED
      BY <2>1, <2>4, <2>5, <2>6, <2>7, <3>1, <3>2, CoverFinite, AtWorkFinite
         DEF Covered
  <2>10. QED
    BY <2>8, <2>9
<1>2. QED
  BY <1>1 DEF CoverInv

LEMMA CoverLifecycle ==
  ASSUME TypeOK, TypeOK', LedgerType, LedgerType', CoverInv, [Next]_vars,
         Recorded
  PROVE  CoverInv'
<1> USE DEF rowVars, localVars, envVars, history
<1>0. ASSUME NEW p \in Callers
      PROVE  call[p].action \in Actions
  BY DEF TypeOK, Calls
<1>a. \A b \in Actions :
        /\ Cardinality(Undoable(b)) <= Cardinality(Undoable(b)')
        /\ Cardinality(Lost(b)) <= Cardinality(Lost(b)')
  BY LedgerNext, LedgerGrows
<1>b. \A b \in Actions : orphans[b] \in Nat
  BY DEF TypeOK
<1>1. ASSUME NEW p \in Callers,
             \/ PersonaBlock(p) \/ Return(p) \/ Refuse(p)
             \/ (Claim(p) /\ ~ClaimWins(p)) \/ (Crash(p) /\ ~Running(p))
      PROVE  CoverInv'
  <2>1. Leave(p) /\ ~Running(p) /\ UNCHANGED <<sends, orphans>>
    BY <1>1 DEF PersonaBlock, Return, Refuse, Claim, Crash, AtGate, Running
  <2>2. \A b \in Actions : AtWork(b)' = AtWork(b)
    BY <2>1, LeaveAtWork
  <2>3. \A b \in Actions : Unsent(b)' \subseteq Unsent(b)
    BY <2>1, <2>2 DEF Unsent, Leave, Goto, TypeOK
  <2>4. QED
    BY <1>a, <1>b, <2>1, <2>2, <2>3, CoverKept
<1>2. ASSUME NEW p \in Callers,
             \/ Approve(p) \/ Reread(p) \/ Verify(p) \/ Start(p)
             \/ NoDelivery(p)
      PROVE  CoverInv'
  <2>1. UNCHANGED <<sends, orphans, call>>
    BY <1>2 DEF Approve, Reread, Verify, Start, NoDelivery
  <2>2. /\ Running(p)' <=> Running(p)
        /\ pc'[p] \in {"claimed", "effect"} => pc[p] \in {"claimed", "effect"}
        /\ pc'[p] = "settle" => pc[p] \in {"claimed", "effect"}
        /\ \A q \in Callers : q # p => pc'[q] = pc[q] /\ outcome'[q] = outcome[q]
    BY <1>2 DEF Approve, Reread, Verify, Start, NoDelivery, AtGate, Goto, TypeOK,
                Running
  <2>3. \A b \in Actions : AtWork(b)' = AtWork(b)
    BY <2>1, <2>2 DEF AtWork, Running
  <2>4. \A b \in Actions : Unsent(b)' \subseteq Unsent(b)
    <3>1. \A b \in Actions : AtWork(b) \subseteq Callers
      BY DEF AtWork
    <3>2. QED
      BY <2>2, <2>3, <3>1 DEF Unsent
  <2>5. QED
    BY <1>a, <1>b, <2>1, <2>3, <2>4, CoverKept
<1>3. ASSUME NEW p \in Callers, Claim(p), ClaimWins(p)
      PROVE  CoverInv'
  <2>0. PICK b \in Actions : b = call[p].action
    BY <1>0
  <2>1. /\ UNCHANGED <<sends, orphans, call, outcome>>
        /\ pc[p] = "verified" /\ pc' = [pc EXCEPT ![p] = "claimed"]
    BY <1>3 DEF Claim, Goto
  <2>2. \A a \in Actions :
          /\ a = b => /\ AtWork(a)' = AtWork(a) \cup {p} /\ p \notin AtWork(a)
                      /\ Unsent(a)' = Unsent(a) \cup {p} /\ p \notin Unsent(a)
          /\ a # b => AtWork(a)' = AtWork(a) /\ Unsent(a)' = Unsent(a)
    BY <2>0, <2>1 DEF AtWork, Unsent, Running, TypeOK
  <2>3. ASSUME NEW a \in Recognised
        PROVE  Covered(a)'
    <3>1. a \in Actions
      BY RollbackAssumption
    <3>2. /\ Cardinality(Undoable(a)') \in Nat
          /\ Cardinality(Lost(a)') \in Nat
      BY <3>1, CoverFiniteNext
    <3>3. sends[a] \in Nat /\ orphans[a] \in Nat
      BY <3>1 DEF TypeOK
    <3>4. sends[a] + Cardinality(Unsent(a))
            <= Cardinality(Undoable(a)) + Cardinality(Lost(a)) + orphans[a]
               + Cardinality(AtWork(a))
      BY DEF CoverInv, Covered
    <3>5. \/ /\ Cardinality(Unsent(a)') = Cardinality(Unsent(a)) + 1
             /\ Cardinality(AtWork(a)') = Cardinality(AtWork(a)) + 1
          \/ /\ Cardinality(Unsent(a)') = Cardinality(Unsent(a))
             /\ Cardinality(AtWork(a)') = Cardinality(AtWork(a))
      <4>1. CASE a = b
        <5>1. Cardinality(AtWork(a)') = Cardinality(AtWork(a)) + 1
          BY <2>2, <3>1, <4>1, AtWorkFinite, FS_AddElement
        <5>2. Cardinality(Unsent(a)') = Cardinality(Unsent(a)) + 1
          BY <2>2, <3>1, <4>1, CoverFinite, FS_AddElement
        <5>3. QED
          BY <5>1, <5>2
      <4>2. CASE a # b
        BY <2>2, <3>1, <4>2
      <4>3. QED
        BY <4>1, <4>2
    <3>6. QED
      BY <1>a, <2>1, <3>1, <3>2, <3>3, <3>4, <3>5, CoverFinite, AtWorkFinite
         DEF Covered
  <2>4. QED
    BY <2>3 DEF CoverInv
<1>4. ASSUME NEW p \in Callers, Deliver(p)
      PROVE  CoverInv'
  <2>0. PICK b \in Actions : b = call[p].action
    BY <1>0
  <2>1. /\ sends' = [sends EXCEPT ![b] = @ + 1]
        /\ UNCHANGED <<orphans, call>>
        /\ pc[p] = "effect" /\ pc' = [pc EXCEPT ![p] = "settle"]
        /\ outcome'[p] \notin {"blocked", "noop"}
        /\ \A q \in Callers : q # p => outcome'[q] = outcome[q]
    BY <1>4, <2>0 DEF Deliver, Goto, TypeOK
  <2>2. \A a \in Actions :
          /\ AtWork(a)' = AtWork(a)
          /\ a = b => Unsent(a)' = Unsent(a) \ {p} /\ p \in Unsent(a)
          /\ a # b => Unsent(a)' = Unsent(a)
    BY <2>0, <2>1 DEF AtWork, Unsent, Running, TypeOK
  <2>3. ASSUME NEW a \in Recognised
        PROVE  Covered(a)'
    <3>1. a \in Actions
      BY RollbackAssumption
    <3>2. /\ Cardinality(Undoable(a)') \in Nat
          /\ Cardinality(Lost(a)') \in Nat
      BY <3>1, CoverFiniteNext
    <3>3. sends[a] \in Nat /\ orphans[a] \in Nat
      BY <3>1 DEF TypeOK
    <3>4. sends[a] + Cardinality(Unsent(a))
            <= Cardinality(Undoable(a)) + Cardinality(Lost(a)) + orphans[a]
               + Cardinality(AtWork(a))
      BY DEF CoverInv, Covered
    <3>5. /\ Cardinality(AtWork(a)') = Cardinality(AtWork(a))
          /\ \/ /\ Cardinality(Unsent(a)') = Cardinality(Unsent(a)) - 1
                /\ sends'[a] = sends[a] + 1
             \/ /\ Cardinality(Unsent(a)') = Cardinality(Unsent(a))
                /\ sends'[a] = sends[a]
      <4>0. Cardinality(AtWork(a)') = Cardinality(AtWork(a))
        BY <2>2, <3>1
      <4>1. CASE a = b
        <5>1. sends'[a] = sends[a] + 1
          BY <2>1, <3>1, <4>1 DEF TypeOK
        <5>2. Cardinality(Unsent(a)') = Cardinality(Unsent(a)) - 1
          BY <2>2, <3>1, <4>1, CoverFinite, OneLess
        <5>3. QED
          BY <4>0, <5>1, <5>2
      <4>2. CASE a # b
        <5>1. sends'[a] = sends[a]
          BY <2>1, <3>1, <4>2 DEF TypeOK
        <5>2. Cardinality(Unsent(a)') = Cardinality(Unsent(a))
          BY <2>2, <3>1, <4>2
        <5>3. QED
          BY <4>0, <5>1, <5>2
      <4>3. QED
        BY <4>1, <4>2
    <3>6. QED
      BY <1>a, <2>1, <3>1, <3>2, <3>3, <3>4, <3>5, CoverFinite, AtWorkFinite
         DEF Covered
  <2>4. QED
    BY <2>3 DEF CoverInv
<1>5. ASSUME NEW p \in Callers, Settle(p)
      PROVE  CoverInv'
  <2>0. PICK b \in Actions : b = call[p].action
    BY <1>0
  <2>1. /\ Leave(p) /\ Running(p) /\ UNCHANGED <<sends, orphans>>
        /\ pc[p] = "settle" /\ WriteReceipt(b)
        /\ status'[b] = outcome[p] /\ outcome[p] \in Outcomes
    BY <1>5, <2>0 DEF Settle, Running, SetStatus, TypeOK
  <2>2. CASE outcome[p] \in {"blocked", "noop"}
    <3>1. p \in Unsent(b)
      BY <2>0, <2>1, <2>2 DEF Unsent, AtWork
    <3>2. QED
      BY <1>a, <1>b, <2>0, <2>1, <3>1, CoverEnds
  <2>3. CASE outcome[p] \notin {"blocked", "noop"}
    <3>1. ledger' = Append(ledger, Receipt(b))
      BY <2>1, OneRecorded
    <3>2. b \in Recognised =>
            Cardinality(Undoable(b)') + Cardinality(Lost(b)')
              >= Cardinality(Undoable(b)) + Cardinality(Lost(b)) + 1
      BY <2>1, <2>3, <3>1, ReceiptCovers DEF Outcomes
    <3>3. QED
      BY <1>a, <1>b, <2>0, <2>1, <3>2, CoverEnds
  <2>4. QED
    BY <2>2, <2>3
<1>6. ASSUME NEW p \in Callers, Crash(p), Running(p)
      PROVE  CoverInv'
  <2>0. PICK b \in Actions : b = call[p].action
    BY <1>0
  <2>1. /\ Leave(p) /\ sends' = sends
        /\ orphans'[b] = orphans[b] + 1
        /\ \A a \in Actions : orphans'[a] >= orphans[a]
    <3>1. Leave(p) /\ sends' = sends /\ orphans' = [orphans EXCEPT ![b] = @ + 1]
      BY <1>6, <2>0 DEF Crash
    <3>2. orphans \in [Actions -> Nat]
      BY DEF TypeOK
    <3>3. \A a \in Actions : orphans'[a] = IF a = b THEN orphans[a] + 1
                                                    ELSE orphans[a]
      BY <3>1, <3>2
    <3>4. QED
      BY <1>b, <3>1, <3>3
  <2>2. QED
    BY <1>6, <1>a, <2>0, <2>1, CoverEnds
<1>7. ASSUME NEW p \in Callers, NEW a \in Actions,
             NEW approve \in BOOLEAN, NEW execute \in BOOLEAN,
             Call(p, a, approve, execute)
      PROVE  CoverInv'
  <2>1. UNCHANGED <<sends, orphans, outcome>>
    BY <1>7 DEF Call
  <2>2. /\ ~Running(p) /\ ~Running(p)'
        /\ \A q \in Callers : q # p => pc'[q] = pc[q] /\ call'[q] = call[q]
    BY <1>7 DEF Call, Goto, TypeOK, Running
  <2>3. \A b \in Actions : AtWork(b)' = AtWork(b)
    BY <2>2 DEF AtWork, Running
  <2>4. \A b \in Actions : Unsent(b)' \subseteq Unsent(b)
    BY <2>1, <2>2, <2>3 DEF Unsent, AtWork
  <2>5. QED
    BY <1>a, <1>b, <2>1, <2>3, <2>4, CoverKept
<1>8. ASSUME \/ \E a \in Actions : Propose(a) \/ StandingRuleBlock(a)
             \/ \E a \in Actions, n \in Notes : Triage(a, n)
             \/ \E a \in Actions, d \in Payloads : EditPayload(a, d)
             \/ Tick
             \/ UNCHANGED vars
      PROVE  CoverInv'
  <2>1. UNCHANGED <<sends, orphans, pc, call, outcome>>
    BY <1>8 DEF Propose, EnqueueProposal, AutopilotInsert, AutopilotRun,
                LoopCycle, Insert, StandingRuleBlock, Triage, EditPayload,
                Tick, vars
  <2>2. \A b \in Actions : AtWork(b)' = AtWork(b)
    BY <2>1 DEF AtWork, Running
  <2>3. \A b \in Actions : Unsent(b)' \subseteq Unsent(b)
    BY <2>1, <2>2 DEF Unsent
  <2>4. QED
    BY <1>a, <1>b, <2>1, <2>2, <2>3, CoverKept
<1>9. QED
  BY <1>1, <1>2, <1>3, <1>4, <1>5, <1>6, <1>7, <1>8 DEF Next, Step

LEMMA CoverStep ==
  ASSUME TypeOK, TypeOK', LedgerType, LedgerType', CoverInv,
         [RollbackNext]_<<vars, rollbackVars>>
  PROVE  CoverInv'
<1> USE DEF rollbackVars
<1>1. CASE Lifecycle
  BY <1>1, CoverLifecycle DEF Lifecycle
<1>2. ASSUME UNCHANGED <<sends, orphans, pc, call, outcome>>,
             \/ ledger' = ledger
             \/ \E i \in DOMAIN ledger, u \in Undos :
                  ledger' = [ledger EXCEPT ![i].undo = u]
      PROVE  CoverInv'
  <2>1. \A b \in Actions : AtWork(b)' = AtWork(b)
    BY <1>2 DEF AtWork, Running
  <2>2. \A b \in Actions : Unsent(b)' \subseteq Unsent(b)
    BY <1>2, <2>1 DEF Unsent
  <2>3. \A b \in Actions :
          /\ Cardinality(Undoable(b)) <= Cardinality(Undoable(b)')
          /\ Cardinality(Lost(b)) <= Cardinality(Lost(b)')
    BY <1>2, LedgerGrows
  <2>4. \A b \in Actions : orphans'[b] >= orphans[b]
    BY <1>2 DEF TypeOK
  <2>5. QED
    BY <1>2, <2>1, <2>2, <2>3, <2>4, CoverKept
<1>3. ASSUME NEW i \in DOMAIN ledger, NEW u \in Undos, ProposeRollback(i, u)
      PROVE  CoverInv'
  <2>1. /\ UNCHANGED <<sends, orphans, pc, call, outcome>>
        /\ ledger' = [ledger EXCEPT ![i].undo = u]
    BY <1>3 DEF ProposeRollback, Insert, localVars, history
  <2>2. QED
    BY <1>2, <2>1
<1>4. CASE UNCHANGED <<vars, rollbackVars>>
  BY <1>2, <1>4 DEF vars, localVars, history
<1>5. QED
  BY <1>1, <1>3, <1>4 DEF RollbackNext

LEMMA CoverInit == RollbackInit => CoverInv
<1> SUFFICES ASSUME RollbackInit, NEW a \in Recognised
             PROVE  Covered(a)
  BY DEF CoverInv
<1>1. /\ AtWork(a) = {} /\ sends[a] = 0 /\ orphans[a] = 0
      /\ ledger = <<>>
  BY RollbackAssumption DEF RollbackInit, Init, AtWork, Running
<1>2. Unsent(a) = {} /\ Undoable(a) = {} /\ Lost(a) = {}
  BY <1>1 DEF Unsent, Undoable, Lost
<1>3. Cardinality({}) = 0
  BY FS_EmptySet
<1>4. QED
  BY <1>1, <1>2, <1>3 DEF Covered

\* Every effect that left the machine has a receipt to roll it back with, or
\* is known to have none; no rollback runs unapproved; and a receipt always
\* links to the latest rollback proposed for it.
THEOREM RollbacksCover == RollbackSpec => []UndoCoversSends
<1>1. RollbackInit => LinkInv /\ CoverInv
  BY LinkInit, CoverInit
<1>2. /\ TypeOK /\ TypeOK' /\ LinkInv /\ CoverInv
      /\ [RollbackNext]_<<vars, rollbackVars>>
      => LinkInv' /\ CoverInv'
  BY LinkStep, CoverStep DEF LinkInv
<1>3. TypeOK /\ LinkInv /\ CoverInv => SendsCanBeUndone /\ UndosAreLinked
  <2> SUFFICES ASSUME TypeOK, LinkInv, CoverInv, NEW a \in Recognised
               PROVE  sends[a] <= Cardinality(Undoable(a)) + Cardinality(Lost(a))
                                  + orphans[a] + Cardinality(AtWork(a))
    BY DEF SendsCanBeUndone, LinkInv
  <2>1. a \in Actions
    BY RollbackAssumption
  <2>2. sends[a] \in Nat /\ orphans[a] \in Nat
    BY <2>1 DEF TypeOK
  <2>3. QED
    BY <2>1, <2>2, CoverFinite, AtWorkFinite DEF CoverInv, Covered, LinkInv
<1>4. RollbackSpec => []TypeOK
  BY RollbackIsLifecycle, TypeCorrect, PTL
<1>5. RollbackSpec => [](LinkInv /\ CoverInv)
  BY <1>1, <1>2, <1>4, PTL DEF RollbackSpec
<1>6. QED
  BY <1>3, <1>4, <1>5, UndosWaitForApproval, PTL DEF UndoCoversSends
=============================================================================
