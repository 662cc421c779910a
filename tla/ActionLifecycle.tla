-------------------------- MODULE ActionLifecycle --------------------------
(***************************************************************************)
(* The life of the rows of `agent_actions`: proposal, approval, integrity  *)
(* check, claim, effect, receipt.  The centre is approve_and_execute of    *)
(* execution.py, run by several processes at once (the CLI, a chat         *)
(* session, a factory run), next to the two background executors           *)
(* (autopilot.py, autonomy_loop.py) that run safe rows on their own.       *)
(*                                                                         *)
(* A step of a caller ends where the code commits, or where it reads the   *)
(* row again: between two such points any other process may write.  SQLite *)
(* has one writer at a time, so a caller whose transaction is open across  *)
(* a slow call (the POST of a connector) holds `writer`.                   *)
(***************************************************************************)
EXTENDS Naturals, FiniteSets

CONSTANTS
  Callers,          \* processes that may call approve_and_execute
  Actions,          \* rows of agent_actions
  Payloads,         \* values of payload_json, up to canonical JSON
  Notes,            \* error texts a failing action may report
  Kind,             \* Kind[a]: what _execute_agent_action does for a
  PersonaAllows,    \* PersonaAllows[a]: whether the task's persona lists the type;
                    \* both, if that persona is created in between
  RuleBlocks,       \* RuleBlocks[a]: a standing rule of tier "block" matches
  ApprovalTTL,      \* MYOS_APPROVAL_TTL_SECONDS, in ticks; 0 switches it off
  NoPin,            \* payload_hash IS NULL
  NoCaller,         \* nobody holds the write lock
  MaxCalls,         \* bound: calls of approve_and_execute in a behaviour
  MaxClock,         \* bound: ticks of the clock
  MaxEdits          \* bound: outside edits of payload_json

Kinds == {"capture",      \* create_inbox_item: local and idempotent
          "draft",        \* draft_*, or a connector mutation with dry_run
          "live",         \* connector mutation with dry_run = false
          "command",      \* MYOS_ACTION_COMMAND, a child process
          "patch",        \* apply_patch on a working tree
          "other",        \* no adapter for the type
          "destructive"}  \* tier BLOCKED of autonomy.classify_action

External == {"live", "command", "patch"}

ASSUME ActionLifecycleAssumption ==
  /\ Kind \in [Actions -> Kinds]
  /\ PersonaAllows \in [Actions -> SUBSET BOOLEAN \ {{}}]
  /\ RuleBlocks \in [Actions -> BOOLEAN]
  /\ ApprovalTTL \in Nat
  /\ MaxCalls \in Nat /\ MaxClock \in Nat /\ MaxEdits \in Nat
  /\ Actions # {} /\ Payloads # {}
  /\ NoPin \notin Payloads
  /\ NoCaller \notin Callers
  /\ IsFiniteSet(Callers)

VARIABLES
  status,      \* agent_actions.status, "absent" before the INSERT
  payload,     \* agent_actions.payload_json
  pin,         \* agent_actions.payload_hash
  approvedAt,  \* agent_actions.approved_at, read only when pin # NoPin
  gated,       \* agent_actions.requires_approval
  autoQueue,   \* rows an autopilot cycle inserted and has not come back to
  inbox,       \* inbox[a][n]: the follow-up row for note n of action a
  clock,       \* wall clock, in ticks
  writer,      \* the caller whose write transaction is open across a call
  pc,          \* where each caller stands in approve_and_execute
  call,        \* its arguments, and the clock when it was called
  snap,        \* the row as the caller last verified it
  runs,        \* the payload the caller's effect uses
  outcome,     \* the status _status_from_result will give
  started,     \* calls so far
  edits,       \* outside edits so far
  grants,      \* history: approval commits of each row
  sends,       \* history: external effects of each row
  attempts,    \* history: claims and integrity refusals of each row
  receipts,    \* rows of action_execution_receipts for each row
  orphans,     \* history: claims whose caller died before settling
  raced        \* history: the row was edited after the caller read it

rowVars   == <<status, payload, pin, approvedAt, gated>>
localVars == <<pc, call, snap, runs, outcome, raced>>
envVars   == <<clock, edits, started>>
history   == <<grants, sends, attempts, receipts, orphans>>
vars      == <<rowVars, localVars, envVars, history, autoQueue, inbox, writer>>

Statuses == {"absent", "proposed", "approved", "executing", "executed",
             "failed", "blocked", "noop"}
Outcomes == {"executed", "failed", "blocked", "noop"}
Points   == {"idle", "read", "reread", "gate", "verified", "refused",
             "claimed", "effect", "settle"}
Rows     == [status : Statuses, payload : Payloads, pin : Payloads \cup {NoPin},
             at : Nat, gated : BOOLEAN]
Calls    == [action : Actions, approve : BOOLEAN, execute : BOOLEAN, at : Nat]

Row(a) == [status |-> status[a], payload |-> payload[a], pin |-> pin[a],
           at |-> approvedAt[a], gated |-> gated[a]]

\* Mutant: the caller's own open transaction keeps it out too.
CanWriteAlone(p) == writer = NoCaller

\* A transaction can write: nobody else has one open.
CanWrite(p) == writer \in {NoCaller, p}

Goto(p, to) == pc' = [pc EXCEPT ![p] = to]

\* The call returns or the process dies: its local variables are gone.
BlankCall == [action |-> CHOOSE a \in Actions : TRUE, approve |-> FALSE,
              execute |-> FALSE, at |-> 0]
BlankRow  == [status |-> "absent", payload |-> CHOOSE d \in Payloads : TRUE,
              pin |-> NoPin, at |-> 0, gated |-> TRUE]
Leave(p) ==
  /\ Goto(p, "idle")
  /\ call' = [call EXCEPT ![p] = BlankCall]
  /\ snap' = [snap EXCEPT ![p] = BlankRow]
  /\ runs' = [runs EXCEPT ![p] = BlankRow.payload]
  /\ outcome' = [outcome EXCEPT ![p] = "noop"]
  /\ raced' = [raced EXCEPT ![p] = FALSE]

SetStatus(a, s) == status' = [status EXCEPT ![a] = s]

-----------------------------------------------------------------------------
(* Proposals.                                                              *)

\* Mutant: the proposer's own flag is believed.
TrustProposer(a, wanted) == wanted

\* Only create_inbox_item may run without approval, whatever the proposer
\* asked for.
ForcedApproval(a, wanted) == wanted \/ Kind[a] # "capture"

Insert(a, g) ==
  /\ status[a] = "absent"
  /\ gated' = [gated EXCEPT ![a] = ForcedApproval(a, g)]
  /\ UNCHANGED <<payload, pin, approvedAt, localVars, envVars, history, inbox,
                 writer>>

\* A chat turn, a loop or the factory queues a proposal.
EnqueueProposal(a) ==
  /\ writer = NoCaller
  /\ \E g \in BOOLEAN : Insert(a, g)
  /\ SetStatus(a, "proposed")
  /\ UNCHANGED autoQueue

\* An autopilot cycle inserts the row; it executes safe rows later, in a
\* transaction of its own when a factory step has committed in between.
AutopilotInsert(a) ==
  /\ writer = NoCaller
  /\ \E g \in BOOLEAN : Insert(a, g)
  /\ SetStatus(a, "proposed")
  /\ autoQueue' = autoQueue \cup {a}

\* The cycle comes back: claim and execution are one transaction, and no
\* receipt is written.
AutopilotRun(a) ==
  /\ a \in autoQueue
  /\ writer = NoCaller
  /\ autoQueue' = autoQueue \ {a}
  /\ IF status[a] = "proposed" /\ ~gated[a]
     THEN \E s \in {"executed", "blocked"} : SetStatus(a, s)
     ELSE UNCHANGED status
  /\ UNCHANGED <<payload, pin, approvedAt, gated, localVars, envVars, history,
                 inbox, writer>>

\* A cycle of the autonomy loop inserts the row and, in the same
\* transaction, runs it if it is safe: the reviewer model may send it to the
\* approval queue or block it.  No receipt here either.
LoopCycle(a) ==
  /\ writer = NoCaller
  /\ \/ \E g \in BOOLEAN : Insert(a, g) /\ gated'[a] /\ SetStatus(a, "proposed")
     \/ /\ Insert(a, FALSE)
        /\ ~gated'[a]
        /\ \E s \in {"executed", "blocked"} : SetStatus(a, s)
  /\ UNCHANGED autoQueue

-----------------------------------------------------------------------------
(* approve_and_execute.                                                    *)

\* The call begins with a SELECT of the row.
Call(p, a, approve, execute) ==
  /\ pc[p] = "idle" /\ started < MaxCalls
  /\ status[a] # "absent"
  /\ started' = started + 1
  /\ call' = [call EXCEPT ![p] = [action |-> a, approve |-> approve,
                                  execute |-> execute, at |-> clock]]
  /\ snap' = [snap EXCEPT ![p] = Row(a)]
  /\ raced' = [raced EXCEPT ![p] = FALSE]
  /\ Goto(p, "read")
  /\ UNCHANGED <<rowVars, runs, outcome, clock, edits, history, autoQueue,
                 inbox, writer>>

\* The persona guard comes before anything else, and overwrites whatever
\* status the row has by now.
PersonaBlock(p) ==
  LET a == call[p].action IN
  /\ pc[p] = "read" /\ FALSE \in PersonaAllows[a]
  /\ CanWrite(p)
  /\ SetStatus(a, "blocked")
  /\ Leave(p)
  /\ UNCHANGED <<payload, pin, approvedAt, gated, envVars, history, autoQueue,
                 inbox, writer>>

Approving(p) == call[p].approve /\ snap[p].status \in {"proposed", "failed"}

\* Approval: the hash of the payload that was read, the time of the commit.
\* The UPDATE names the row only by id.
Approve(p) ==
  LET a == call[p].action IN
  /\ pc[p] = "read" /\ TRUE \in PersonaAllows[a]
  /\ Approving(p)
  /\ CanWrite(p)
  /\ SetStatus(a, "approved")
  /\ pin' = [pin EXCEPT ![a] = snap[p].payload]
  /\ approvedAt' = [approvedAt EXCEPT ![a] = clock]
  /\ grants' = [grants EXCEPT ![a] = @ + 1]
  /\ Goto(p, "reread")
  /\ UNCHANGED <<payload, gated, call, snap, runs, outcome, raced, envVars,
                 sends, attempts, receipts, orphans, autoQueue, inbox,
                 writer>>

Reread(p) ==
  /\ pc[p] = "reread"
  /\ snap' = [snap EXCEPT ![p] = Row(call[p].action)]
  /\ raced' = [raced EXCEPT ![p] = FALSE]
  /\ Goto(p, "gate")
  /\ UNCHANGED <<rowVars, call, runs, outcome, envVars, history, autoQueue,
                 inbox, writer>>

AtGate(p) ==
  \/ pc[p] = "gate"
  \/ pc[p] = "read" /\ TRUE \in PersonaAllows[call[p].action] /\ ~Approving(p)

\* Mutant: requires_approval is not looked at.
MayRunUngated(p) == call[p].execute /\ snap[p].status # "executed"

\* What the snapshot lets the call go on to.
MayRun(p) ==
  /\ call[p].execute
  /\ snap[p].gated => snap[p].status \in {"approved", "executed"}
  /\ snap[p].status # "executed"

\* approved_only, noop, needs_approval or already_executed.
Return(p) ==
  /\ AtGate(p) /\ ~MayRun(p)
  /\ Leave(p)
  /\ UNCHANGED <<rowVars, envVars, history, autoQueue, inbox, writer>>

\* Mutant: the hash is not compared.
IntactWithoutHash(r) ==
  r.pin # NoPin => ApprovalTTL = 0 \/ clock <= r.at + ApprovalTTL

\* A row without a pinned hash skips both checks.
Intact(r) ==
  r.pin # NoPin => /\ r.payload = r.pin
                   /\ ApprovalTTL = 0 \/ clock <= r.at + ApprovalTTL

Verify(p) ==
  /\ AtGate(p) /\ MayRun(p)
  /\ Goto(p, IF Intact(snap[p]) THEN "verified" ELSE "refused")
  /\ UNCHANGED <<rowVars, call, snap, runs, outcome, raced, envVars, history,
                 autoQueue, inbox, writer>>

\* Mutant: the existing row is looked up and none is inserted.
FollowUpOnlyLinks(a, n) ==
  inbox' = [inbox EXCEPT ![a][n] = IF @ = "none" THEN "none" ELSE "new"]

\* A follow-up is inserted once for each text: a row that is there already,
\* triaged or not, is linked and left as it is.
FollowUp(a, n) ==
  inbox' = [inbox EXCEPT ![a][n] = IF @ = "none" THEN "new" ELSE @]

\* Mutant: one receipt row for each action, overwritten by the next.
ReplaceReceipt(a) == receipts' = [receipts EXCEPT ![a] = 1]

WriteReceipt(a) == receipts' = [receipts EXCEPT ![a] = @ + 1]

\* The integrity check failed: status, receipt and follow-up in one commit.
Refuse(p) ==
  LET a == call[p].action IN
  /\ pc[p] = "refused"
  /\ CanWrite(p)
  /\ SetStatus(a, "failed")
  /\ attempts' = [attempts EXCEPT ![a] = @ + 1]
  /\ WriteReceipt(a)
  /\ \E n \in Notes : FollowUp(a, n)
  /\ Leave(p)
  /\ UNCHANGED <<payload, pin, approvedAt, gated, envVars, grants, sends,
                 orphans, autoQueue, writer>>

\* The claim is a compare-and-swap on the status that was read.
ClaimWins(p) == status[call[p].action] = snap[p].status

Claim(p) ==
  LET a == call[p].action IN
  /\ pc[p] = "verified"
  /\ CanWrite(p)
  /\ IF ClaimWins(p)
     THEN /\ SetStatus(a, "executing")
          /\ attempts' = [attempts EXCEPT ![a] = @ + 1]
          /\ Goto(p, "claimed")
          /\ UNCHANGED <<call, snap, runs, outcome, raced>>
     ELSE /\ Leave(p)
          /\ UNCHANGED <<status, attempts>>
  /\ UNCHANGED <<payload, pin, approvedAt, gated, envVars, grants, sends,
                 receipts, orphans, autoQueue, inbox, writer>>

\* What a local action, or an external one that never leaves, ends as.
LocalOutcomes(a) ==
  CASE Kind[a] = "capture"     -> {"executed", "blocked"}
    [] Kind[a] = "draft"       -> {"executed", "blocked"}
    [] Kind[a] = "other"       -> {"noop"}
    [] Kind[a] = "destructive" -> {"blocked"}
    [] Kind[a] = "live"        -> {"failed", "blocked"}
    [] Kind[a] = "command"     -> {"failed"}
    [] Kind[a] = "patch"       -> {"failed", "blocked", "noop"}

\* A live connector mutation looks at the status of the row once more.
MaySend(a) ==
  /\ Kind[a] \in External
  /\ Kind[a] = "live" => status[a] \in {"approved", "executing"}

\* The row is read again after the claim, and this time nothing is verified.
\* A connector writes its outbox row before the POST, so it holds the write
\* lock until the call settles.
Start(p) ==
  LET a == call[p].action IN
  /\ pc[p] = "claimed"
  /\ runs' = [runs EXCEPT ![p] = payload[a]]
  /\ \/ /\ MaySend(a)
        /\ Kind[a] = "live" => CanWrite(p)
        /\ writer' = IF Kind[a] = "live" THEN p ELSE writer
        /\ Goto(p, "effect")
        /\ UNCHANGED outcome
     \/ /\ \E s \in LocalOutcomes(a) : outcome' = [outcome EXCEPT ![p] = s]
        /\ Goto(p, "settle")
        /\ UNCHANGED writer
  /\ UNCHANGED <<rowVars, call, snap, raced, envVars, history, autoQueue,
                 inbox>>

\* The message leaves the machine.  The answer may still be lost: a timeout
\* after delivery is recorded as a failure.
Deliver(p) ==
  LET a == call[p].action IN
  /\ pc[p] = "effect"
  /\ sends' = [sends EXCEPT ![a] = @ + 1]
  /\ \E s \in {"executed", "failed"} : outcome' = [outcome EXCEPT ![p] = s]
  /\ Goto(p, "settle")
  /\ UNCHANGED <<rowVars, call, snap, runs, raced, envVars, grants, attempts,
                 receipts, orphans, autoQueue, inbox, writer>>

\* The adapter fails before anything leaves.
NoDelivery(p) ==
  /\ pc[p] = "effect"
  /\ outcome' = [outcome EXCEPT ![p] = "failed"]
  /\ Goto(p, "settle")
  /\ UNCHANGED <<rowVars, call, snap, runs, raced, envVars, history,
                 autoQueue, inbox, writer>>

\* Status, observation, receipt and follow-up are committed together.
Settle(p) ==
  LET a == call[p].action IN
  /\ pc[p] = "settle"
  /\ CanWrite(p)
  /\ SetStatus(a, outcome[p])
  /\ WriteReceipt(a)
  /\ IF outcome[p] \in {"failed", "blocked"}
     THEN \E n \in Notes : FollowUp(a, n)
     ELSE UNCHANGED inbox
  /\ writer' = NoCaller
  /\ Leave(p)
  /\ UNCHANGED <<payload, pin, approvedAt, gated, envVars, grants, sends,
                 attempts, orphans, autoQueue>>

Running(p) == pc[p] \in {"claimed", "effect", "settle"}

\* The process dies, or SQLite gives up on the write lock after its busy
\* timeout and the exception ends the command.  An open transaction is
\* rolled back; what was committed, a claim among it, stays.
Crash(p) ==
  /\ pc[p] # "idle"
  /\ IF Running(p)
     THEN orphans' = [orphans EXCEPT ![call[p].action] = @ + 1]
     ELSE UNCHANGED orphans
  /\ writer' = IF writer = p THEN NoCaller ELSE writer
  /\ Leave(p)
  /\ UNCHANGED <<rowVars, envVars, grants, sends, attempts, receipts,
                 autoQueue, inbox>>

-----------------------------------------------------------------------------
(* The rest of the program, and the world.                                 *)

\* _handle_proposals: a standing rule blocks the row, whatever its status.
StandingRuleBlock(a) ==
  /\ status[a] # "absent" /\ RuleBlocks[a]
  /\ Kind[a] # "destructive"
  /\ writer = NoCaller
  /\ SetStatus(a, "blocked")
  /\ UNCHANGED <<payload, pin, approvedAt, gated, localVars, envVars, history,
                 autoQueue, inbox, writer>>

\* Triage closes a follow-up; the row stays in inbox_items.
Triage(a, n) ==
  /\ inbox[a][n] = "new"
  /\ writer = NoCaller
  /\ inbox' = [inbox EXCEPT ![a][n] = "triaged"]
  /\ UNCHANGED <<rowVars, localVars, envVars, history, autoQueue, writer>>

HasRead(p, a) == pc[p] # "idle" /\ call[p].action = a

\* Somebody edits payload_json outside the program.
EditPayload(a, d) ==
  /\ status[a] # "absent" /\ edits < MaxEdits
  /\ d # payload[a]
  /\ writer = NoCaller
  /\ edits' = edits + 1
  /\ payload' = [payload EXCEPT ![a] = d]
  /\ raced' = [p \in Callers |-> raced[p] \/ HasRead(p, a)]
  /\ UNCHANGED <<status, pin, approvedAt, gated, pc, call, snap, runs,
                 outcome, clock, started, history, autoQueue, inbox, writer>>

Tick ==
  /\ clock < MaxClock
  /\ clock' = clock + 1
  /\ UNCHANGED <<rowVars, localVars, edits, started, history, autoQueue,
                 inbox, writer>>

-----------------------------------------------------------------------------
Init ==
  /\ status     = [a \in Actions |-> "absent"]
  /\ payload    \in [Actions -> Payloads]   \* what each proposal will carry
  /\ pin        = [a \in Actions |-> NoPin]
  /\ approvedAt = [a \in Actions |-> 0]
  /\ gated      = [a \in Actions |-> TRUE]
  /\ autoQueue  = {}
  /\ inbox      = [a \in Actions |-> [n \in Notes |-> "none"]]
  /\ clock = 0 /\ edits = 0 /\ started = 0
  /\ writer  = NoCaller
  /\ pc      = [p \in Callers |-> "idle"]
  /\ call    = [p \in Callers |-> BlankCall]
  /\ snap    = [p \in Callers |-> BlankRow]
  /\ runs    = [p \in Callers |-> BlankRow.payload]
  /\ outcome  = [p \in Callers |-> "noop"]
  /\ raced    = [p \in Callers |-> FALSE]
  /\ grants   = [a \in Actions |-> 0]
  /\ sends    = [a \in Actions |-> 0]
  /\ attempts = [a \in Actions |-> 0]
  /\ receipts = [a \in Actions |-> 0]
  /\ orphans  = [a \in Actions |-> 0]

\* What a caller does on its own once it has been called.
Step(p) == \/ PersonaBlock(p) \/ Approve(p) \/ Reread(p) \/ Return(p)
           \/ Verify(p) \/ Refuse(p) \/ Claim(p) \/ Start(p)
           \/ Deliver(p) \/ NoDelivery(p) \/ Settle(p)

Propose(a) == \/ EnqueueProposal(a) \/ AutopilotInsert(a)
              \/ AutopilotRun(a) \/ LoopCycle(a)

Next ==
  \/ \E p \in Callers : Step(p) \/ Crash(p)
  \/ \E p \in Callers, a \in Actions, approve, execute \in BOOLEAN :
        Call(p, a, approve, execute)
  \/ \E a \in Actions : Propose(a) \/ StandingRuleBlock(a)
  \/ \E a \in Actions, n \in Notes : Triage(a, n)
  \/ \E a \in Actions, d \in Payloads : EditPayload(a, d)
  \/ Tick

Spec == Init /\ [][Next]_vars

\* A process that runs keeps running: each caller takes its next step, or
\* crashes.  Nothing obliges anybody to call, to propose or to triage.
FairSpec == Spec /\ \A p \in Callers : WF_vars(Step(p))

-----------------------------------------------------------------------------
(* Properties.                                                             *)

TypeOK ==
  /\ status \in [Actions -> Statuses]
  /\ payload \in [Actions -> Payloads]
  /\ pin \in [Actions -> Payloads \cup {NoPin}]
  /\ approvedAt \in [Actions -> Nat]
  /\ gated \in [Actions -> BOOLEAN]
  /\ autoQueue \subseteq Actions
  /\ inbox \in [Actions -> [Notes -> {"none", "new", "triaged"}]]
  /\ clock \in Nat /\ edits \in Nat /\ started \in Nat
  /\ writer \in Callers \cup {NoCaller}
  /\ pc \in [Callers -> Points]
  /\ call \in [Callers -> Calls]
  /\ snap \in [Callers -> Rows]
  /\ runs \in [Callers -> Payloads]
  /\ outcome \in [Callers -> Outcomes]
  /\ raced \in [Callers -> BOOLEAN]
  /\ grants \in [Actions -> Nat]
  /\ sends \in [Actions -> Nat]
  /\ attempts \in [Actions -> Nat]
  /\ receipts \in [Actions -> Nat]
  /\ orphans \in [Actions -> Nat]

\* No message leaves the machine that an approval of its own did not pay
\* for, however many callers approve, retry, race or die: the claim uses an
\* approval up, and only create_inbox_item can be claimed without one.
SendsWithinApprovals == \A a \in Actions : sends[a] <= grants[a]

\* Why it holds: what was sent, what is about to be sent and what is approved
\* and not yet claimed never exceed the approvals given.  Two callers that
\* approve the same row both commit, and still share its one 'approved'.
Spending(a) ==
  {p \in Callers : pc[p] \in {"claimed", "effect"} /\ call[p].action = a}
Unclaimed(a) == IF status[a] = "approved" THEN 1 ELSE 0
ApprovalBudget ==
  \A a \in Actions : Kind[a] # "capture" =>
    sends[a] + Cardinality(Spending(a)) + Unclaimed(a) <= grants[a]

\* The execution core implements the gate: an approval commit is a Grant, a
\* delivery a Send, and every other step of the program leaves the gate alone.
Gate == INSTANCE ApprovalGate WITH granted <- grants, sent <- sends
ImplementsGate == Gate!GateSpec

\* Every attempt that got past the gates is accounted for: a receipt, a
\* caller still at work, or a caller that died.  No claim is settled twice
\* and none is dropped.  And a row in status 'executing' has somebody
\* executing it: nothing but a crash can strand a row there.
AtWork(a) == {p \in Callers : Running(p) /\ call[p].action = a}
LedgerBalances ==
  \A a \in Actions :
    /\ attempts[a] = receipts[a] + orphans[a] + Cardinality(AtWork(a))
    /\ status[a] = "executing" => AtWork(a) # {} \/ orphans[a] > 0

\* What runs is what was approved, unless the payload was edited in the
\* window between the last look at the row and the effect: an edit made
\* before that is always caught by the pinned hash.  Nor does an approval run
\* in a call that began after it had expired: the TTL is measured from the
\* approval the claim relies on, and a new approval starts it again.
ApprovalsHold ==
  \A p \in Callers : snap[p].gated =>
    /\ pc[p] \in {"effect", "settle"} => raced[p] \/ runs[p] = snap[p].pin
    /\ Running(p) /\ ApprovalTTL > 0 => call[p].at <= snap[p].at + ApprovalTTL

\* A row that ended as 'failed' has a follow-up in the inbox table, whichever
\* of the paths to 'failed' it took and whoever overwrote it in between.
FailureHasFollowUp ==
  \A a \in Actions :
    status[a] = "failed" => \E n \in Notes : inbox[a][n] # "none"

\* A caller gets out of approve_and_execute, also when another one holds the
\* write lock across a POST.
EveryCallReturns == \A p \in Callers : pc[p] # "idle" ~> pc[p] = "idle"
=============================================================================
