------------------------------ MODULE Rollback ------------------------------
(***************************************************************************)
(* rollback.py beside the execution core: every receipt gets a record of   *)
(* how its effect could be undone, and `myos rollback --receipt N` puts    *)
(* the undoing into the approval queue as a row of its own.  That row goes *)
(* through approve_and_execute like any other; it is a draft (its payload  *)
(* says dry_run), gets a receipt, and can itself be rolled back.           *)
(*                                                                         *)
(* The preview (--dry-run) writes nothing and is left out, as are the      *)
(* texts of notes and preconditions, and receipts from before the column   *)
(* compensating_action_json existed.                                       *)
(***************************************************************************)
EXTENDS ActionLifecycle, SequencesExt

CONSTANTS
  Undos,       \* the rows that proposals of rollbacks will take
  Recognised,  \* rows of draft_external_update whose provider and operation
               \* _connector_compensation knows
  NoUndo       \* rollback_action_id IS NULL

ASSUME RollbackAssumption ==
  /\ Undos \subseteq Recognised /\ Recognised \subseteq Actions
  /\ \A a \in Recognised : Kind[a] \in {"draft", "live"}
  /\ \A u \in Undos : Kind[u] = "draft"
  /\ NoUndo \notin Actions

VARIABLES
  ledger,  \* action_execution_receipts, by id: [action, final, inverse, undo]
  undoOf   \* the receipt in the rollback_context of each row of Undos, or 0

rollbackVars == <<ledger, undoOf>>

-----------------------------------------------------------------------------
\* derive_compensation has more than a no_op to offer only for what ended
\* executed, and of that only for what it knows the inverse of.
HasInverse(a, final) == final = "executed" /\ a \in Recognised

\* record_compensation, within _record_execution_receipt: with each receipt
\* that ActionLifecycle counts goes the record.
Recorded ==
  LET new == {a \in Actions : receipts'[a] # receipts[a]}
  IN  ledger' = ledger \o SetToSeq(
        {[action |-> a, final |-> status'[a],
          inverse |-> HasInverse(a, status'[a]), undo |-> NoUndo] : a \in new})

\* propose_rollback and the commit of cmd_rollback.  The receipt is read before
\* the transaction, but what is read of it never changes; whether it has a
\* proposal already is not asked, and the newer one takes the link.
ProposeRollback(i, u) ==
  /\ i \in DOMAIN ledger /\ ledger[i].inverse
  /\ writer = NoCaller
  /\ Insert(u, TRUE)
  /\ SetStatus(u, "proposed")
  /\ undoOf' = [undoOf EXCEPT ![u] = i]
  /\ ledger' = [ledger EXCEPT ![i].undo = u]
  /\ UNCHANGED autoQueue

-----------------------------------------------------------------------------
RollbackInit == Init /\ ledger = <<>> /\ undoOf = [u \in Undos |-> 0]

\* A step of the execution core.  The rows of Undos are left to rollbacks.
Lifecycle ==
  /\ Next
  /\ \A u \in Undos : status[u] = "absent" => status'[u] = "absent"
  /\ Recorded
  /\ UNCHANGED undoOf

RollbackNext ==
  \/ Lifecycle
  \/ \E i \in DOMAIN ledger, u \in Undos : ProposeRollback(i, u)

RollbackSpec ==
  /\ RollbackInit
  /\ [][RollbackNext]_<<vars, rollbackVars>>
  /\ \A p \in Callers : WF_vars(Step(p))

-----------------------------------------------------------------------------
(* Properties.                                                             *)

\* What left the machine can be undone by way of a receipt, or it is known not
\* to: an answer was lost and the receipt says failed, the caller died, or it
\* is still at work.
Undoable(a) ==
  {i \in DOMAIN ledger : ledger[i].action = a /\ ledger[i].inverse}
Lost(a) ==
  {i \in DOMAIN ledger : ledger[i].action = a /\ ledger[i].final = "failed"}
SendsCanBeUndone ==
  \A a \in Recognised :
    sends[a] <= Cardinality(Undoable(a)) + Cardinality(Lost(a)) + orphans[a]
                + Cardinality(AtWork(a))

\* A rollback is never carried out unasked, however many are proposed for one
\* receipt, and a rollback of a rollback no less.
UndosAreApproved ==
  \A u \in Undos : status[u] \in {"approved", "executing", "executed"} =>
                    grants[u] > 0

\* A receipt links to the latest of its proposals.
UndosAreLinked ==
  \A i \in DOMAIN ledger :
    /\ (ledger[i].undo = NoUndo) <=> (\A u \in Undos : undoOf[u] # i)
    /\ ledger[i].undo # NoUndo => undoOf[ledger[i].undo] = i

UndoCoversSends == SendsCanBeUndone /\ UndosAreApproved /\ UndosAreLinked
=============================================================================
