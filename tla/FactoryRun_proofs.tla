-------------------------- MODULE FactoryRun_proofs --------------------------
(***************************************************************************)
(* What holds of factory runs for any number of users, autopilots, runs    *)
(* and intents.  First the helpers, then types, then who may act on a run, *)
(* and then what a run's stages say of its actions.                        *)
(***************************************************************************)
EXTENDS FactoryRun, TLAPS, WellFoundedInduction

-----------------------------------------------------------------------------
(* Helpers.                                                                *)

\* A set of numbers that is not empty has a least one.
LEMMA OldestIsThere ==
  ASSUME NEW S, S \subseteq Nat, S # {}
  PROVE  Oldest(S) \in S
<1>1. PICK x \in S : \A y \in S : ~ (<<y, x>> \in OpToRel(<, Nat))
  BY WFMin, NatLessThanWellFounded, Zenon
<1>2. ASSUME NEW y \in S
      PROVE  x <= y
  <2>1. y \in Nat /\ x \in Nat
    OBVIOUS
  <2>2. y < x => <<y, x>> \in OpToRel(<, Nat)
    BY <2>1 DEF OpToRel
  <2>3. ~ (y < x)
    BY <1>1, <2>2, Zenon
  <2>4. QED
    BY <2>1, <2>3
<1>3. QED
  BY <1>2 DEF Oldest

Stage  == [name : StageNames, status : StageStatus]
Action == [kind : {"capture", "draft"}, status : ActionStatus]

\* _stage writes one row and keeps the others.
LEMMA SetStageRows ==
  ASSUME NEW s \in Seq(Stage), NEW n \in StageNames, NEW st \in StageStatus
  PROVE  /\ SetStage(s, n, st) \in Seq(Stage)
         /\ \A j \in DOMAIN SetStage(s, n, st) :
              \/ SetStage(s, n, st)[j] = [name |-> n, status |-> st]
              \/ j \in DOMAIN s /\ SetStage(s, n, st)[j] = s[j] /\ s[j].name # n
<1>1. CASE \E i \in DOMAIN s : s[i].name = n
  BY <1>1 DEF SetStage, Stage
<1>2. CASE ~ \E i \in DOMAIN s : s[i].name = n
  BY <1>2 DEF SetStage, Stage
<1>3. QED
  BY <1>1, <1>2

\* An action gets another status; nothing else of it changes, nor of others.
LEMMA SetActionRows ==
  ASSUME actions \in [Runs -> Seq(Action)],
         NEW r \in Runs, NEW i \in Nat, NEW st \in ActionStatus,
         SetAction(r, i, st)
  PROVE  /\ actions' \in [Runs -> Seq(Action)]
         /\ \A q \in Runs :
              /\ Len(actions'[q]) = Len(actions[q])
              /\ \A j \in DOMAIN actions[q] :
                   /\ actions'[q][j].kind = actions[q][j].kind
                   /\ actions'[q][j].status = IF q = r /\ j = i THEN st
                                              ELSE actions[q][j].status
<1> DEFINE new == [actions[r] EXCEPT ![i].status = st]
<1>1. actions[r] \in Seq(Action)
  OBVIOUS
<1>2. /\ new \in Seq(Action) /\ Len(new) = Len(actions[r])
      /\ \A j \in DOMAIN actions[r] :
           /\ new[j].kind = actions[r][j].kind
           /\ new[j].status = IF j = i THEN st ELSE actions[r][j].status
  <2>1. CASE i \in DOMAIN actions[r]
    <3>1. actions[r][i] \in Action
      BY <1>1, <2>1
    <3>2. [actions[r][i] EXCEPT !.status = st] \in Action
      BY <3>1 DEF Action
    <3>3. QED
      BY <1>1, <2>1, <3>1, <3>2 DEF Action
  <2>2. CASE i \notin DOMAIN actions[r]
    <3>1. new = actions[r]
      BY <1>1, <2>2
    <3>2. QED
      BY <1>1, <2>2, <3>1
  <2>3. QED
    BY <2>1, <2>2
<1>3. actions' = [actions EXCEPT ![r] = new]
  BY DEF SetAction
<1> HIDE DEF new
<1>4. \A q \in Runs : actions'[q] = IF q = r THEN new ELSE actions[q]
  BY <1>3
<1>5. QED
  BY <1>2, <1>3, <1>4

-----------------------------------------------------------------------------
(* The invariant.                                                          *)

AtActions == OnTheWay \cup {"work"}
Advancing == {"look", "prepare"} \cup AtActions

\* A process is on a run that was begun, and approves only what is approved.
Located ==
  \A p \in Procs :
    /\ job[p].run = None <=> job[p].pc \in {"idle", "start"}
    /\ job[p].run # None => status[job[p].run] # "absent"
    /\ job[p].approve => job[p].run \in approved

\* A run that was not begun is empty.
Untouched ==
  \A r \in Runs : status[r] = "absent" => stages[r] = <<>> /\ actions[r] = <<>>

\* Nothing is prepared for a review-first run that is not approved, and nobody
\* advances it.
Consented(r) == mode[r] # "review_first" \/ r \in approved

\* An execution stage that was entered; "blocked" is how it begins there.
Reached(s) == \E i \in DOMAIN s : s[i].name = "execution" /\ s[i].status # "blocked"

\* Who is to prepare a run's actions holds the database since it, or the one
\* who began or approved the run, has found none.  `continue` records no
\* execution stage.
Holds(p) ==
  LET r == job[p].run IN
  /\ job[p].pc \in Advancing => Consented(r)
  /\ job[p].pc = "look"    => held = p \/ actions[r] # <<>>
  /\ job[p].pc = "prepare" => held = p /\ actions[r] = <<>>
  /\ job[p].pc \in AtActions => actions[r] # <<>>
  /\ job[p].pc = "record" => job[p].stage # "execution"

InHand ==
  /\ \A r \in Runs : actions[r] # <<>> => Consented(r)
  /\ \A r \in Runs : Reached(stages[r]) => actions[r] # <<>>
  /\ \A p \in Procs : Holds(p)

\* A process at work goes through all the actions of its run.  What it has not
\* counted as pending has left the queue, and what it has not counted at all
\* was carried out.
Counts(p) ==
  LET r == job[p].run IN
  job[p].pc \in AtActions =>
    /\ job[p].pc = "advance" => job[p].last # 0
    /\ job[p].pc # "advance" => job[p].at \in DOMAIN actions[r]
    /\ job[p].last # 0 =>
         /\ job[p].last = Len(actions[r]) /\ job[p].at > 0
         /\ \A i \in DOMAIN actions[r] : i < job[p].at =>
              /\ "pending" \notin job[p].tally => actions[r][i].status # "proposed"
              /\ job[p].tally = {} => <<r, i>> \in carried

\* So it is with a run's status.
NonePending(r) ==
  actions[r] # <<>> /\ \A i \in DOMAIN actions[r] : actions[r][i].status # "proposed"

AllCarried(r) == \A i \in DOMAIN actions[r] : <<r, i>> \in carried

AtWork ==
  /\ \A p \in Procs : Counts(p)
  /\ \A r \in Runs : status[r] = "execution_completed" => NonePending(r)
  /\ CompletedWasCarriedOut

Whole == \A r \in Runs : Len(actions[r]) <= Len(Pack[r])

\* The action a process is at is there, and a draft it has asked about may be
\* sent.
Placed(p) ==
  LET r == job[p].run IN
  job[p].pc \in AtActions =>
    /\ job[p].at > 0 /\ job[p].last <= Len(actions[r])
    /\ job[p].pc # "advance" => job[p].at <= Len(actions[r])

MaySend(p) ==
  LET r == job[p].run
      i == job[p].at
  IN  /\ job[p].pc = "advance" /\ policy => job[p].granted
      /\ job[p].pc \in OnTheWay \ {"advance"} /\ actions[r][i].kind = "draft"
         => \/ r \in approved \/ <<r, i>> \in accepted
            \/ mode[r] = "full_autonomous" /\ job[p].granted

Cleared == \A p \in Procs : Placed(p) /\ MaySend(p)

\* All of it; the second half is about runs by the book.
Inv == /\ TypeOK /\ Located /\ Untouched /\ Cleared
       /\ ByTheBook => Whole /\ InHand /\ AtWork

-----------------------------------------------------------------------------
(* Types.                                                                  *)

\* What a process gets to do has a type of its own.
LEMMA JobStep ==
  ASSUME TypeOK, NEW p \in Procs, NEW j \in Jobs, job' = [job EXCEPT ![p] = j]
  PROVE  job' \in [Procs -> Jobs]
BY DEF TypeOK

\* A process without a job is well typed.
LEMMA NoJobIsOne == NoJob \in Jobs
BY DEF NoJob, Jobs, None, StageNames, ActionStatus

\* The rows SetStage leaves are well typed.
LEMMA StagesStep ==
  ASSUME TypeOK, NEW r \in Runs, NEW s \in Seq(Stage),
         stages' = [stages EXCEPT ![r] = s]
  PROVE  stages' \in [Runs -> Seq(Stage)]
BY DEF TypeOK, Stage

\* A start leaves the types.
LEMMA TypeOfInsert ==
  ASSUME TypeOK, NEW p \in Procs, NEW i \in Intents \cup {None},
         NEW m \in Modes \cup {"review_first"}, Insert(p, i, m),
         UNCHANGED <<stages, actions, policy, bounds, history>>
  PROVE  TypeOK'
<1>1. PICK r \in Runs :
        /\ status' = [status EXCEPT ![r] = "running"]
        /\ intent' = [intent EXCEPT ![r] = i]
        /\ mode' = [mode EXCEPT ![r] = m]
        /\ recent' = recent \cup {r}
        /\ job' = [job EXCEPT ![p] = [NoJob EXCEPT !.pc = "roles", !.run = r,
                                                   !.start = TRUE]]
        /\ held' = IF RoleBackend THEN Nobody ELSE p
  BY DEF Insert
<1>2. [NoJob EXCEPT !.pc = "roles", !.run = r, !.start = TRUE] \in Jobs
  BY NoJobIsOne DEF Jobs
<1>3. job' \in [Procs -> Jobs]
  BY <1>1, <1>2, JobStep
<1>4. status' \in [Runs -> Active \cup {"absent", "approved",
                                       "execution_completed", "learned"}]
  BY <1>1 DEF TypeOK, Active
<1>5. QED
  BY <1>1, <1>3, <1>4 DEF TypeOK, bounds, history

\* A job that goes on to the next action.
LEMMA JobMoves ==
  ASSUME NEW j \in Jobs, NEW tally \in SUBSET {"pending", "blocked"}, NEW g \in BOOLEAN
  PROVE  [j EXCEPT !.pc = "advance", !.at = @ + 1, !.seen = "proposed",
                   !.tally = tally, !.granted = g] \in Jobs
<1>1. j.at + 1 \in Nat
  BY DEF Jobs
<1>2. \A n \in Nat : [j EXCEPT !.pc = "advance", !.at = n, !.seen = "proposed",
                              !.tally = tally, !.granted = g] \in Jobs
  BY DEF Jobs, ActionStatus
<1>3. QED
  BY <1>1, <1>2

\* A job that begins with some action.
LEMMA JobAdvances ==
  ASSUME NEW j \in Jobs, NEW m \in Nat, NEW n \in Nat, NEW g \in BOOLEAN
  PROVE  [j EXCEPT !.pc = "advance", !.at = m, !.last = n, !.granted = g] \in Jobs
BY DEF Jobs

\* A process that is through with an action comes to the next, or ends.
LEMMA PassedOn ==
  ASSUME TypeOK, NEW p \in Procs, NEW more \in SUBSET {"pending", "blocked"},
         Passed(p, more)
  PROVE  /\ job' \in [Procs -> Jobs]
         /\ \A q \in Procs \ {p} : job'[q] = job[q]
         /\ job[p].last = 0 => job'[p] = NoJob
         /\ job[p].last # 0 =>
              /\ job'[p].pc = "advance" /\ job'[p].run = job[p].run
              /\ job'[p].at = job[p].at + 1 /\ job'[p].last = job[p].last
              /\ job'[p].approve = job[p].approve
              /\ job'[p].tally = job[p].tally \cup more /\ job'[p].granted = policy
<1> DEFINE all  == job[p].tally \cup more
           next == [job[p] EXCEPT !.pc = "advance", !.at = @ + 1, !.seen = "proposed",
                                  !.tally = all, !.granted = policy]
<1>1. job[p] \in Jobs /\ policy \in BOOLEAN /\ NoJob \in Jobs
  BY NoJobIsOne DEF TypeOK
<1>2. all \in SUBSET {"pending", "blocked"}
  BY <1>1 DEF Jobs
<1>3. job' = [job EXCEPT ![p] = IF job[p].last = 0 THEN NoJob ELSE next]
  BY DEF Passed, Done, GoOn
<1> HIDE DEF all
<1>4. next \in Jobs
  BY <1>1, <1>2, JobMoves
<1>5. job[p].last # 0 => job'[p] = next
  BY <1>3 DEF TypeOK
<1>6. /\ next.pc = "advance" /\ next.run = job[p].run /\ next.at = job[p].at + 1
      /\ next.last = job[p].last /\ next.approve = job[p].approve /\ next.tally = all
      /\ next.granted = policy
  BY <1>1 DEF Jobs
<1> HIDE DEF next
<1>7. /\ job' \in [Procs -> Jobs] /\ \A q \in Procs \ {p} : job'[q] = job[q]
      /\ job[p].last = 0 => job'[p] = NoJob
  BY <1>1, <1>3, <1>4 DEF TypeOK
<1>8. QED
  BY <1>5, <1>6, <1>7 DEF all

\* What is prepared for a run is as long as its pack.
LEMMA BatchIsFresh ==
  ASSUME NEW r \in Runs
  PROVE  LET fresh == [i \in DOMAIN Pack[r] |-> [kind |-> Pack[r][i], status |-> "proposed"]]
         IN  fresh \in Seq(Action) /\ Len(fresh) = Len(Pack[r]) /\ Len(Pack[r]) \in Nat \ {0}
<1> DEFINE fresh == [i \in DOMAIN Pack[r] |-> [kind |-> Pack[r][i], status |-> "proposed"]]
<1>1. /\ Len(Pack[r]) \in Nat \ {0} /\ DOMAIN Pack[r] = 1 .. Len(Pack[r])
      /\ \A i \in DOMAIN Pack[r] : Pack[r][i] \in {"capture", "draft"}
  <2>1. CASE Pack[r] = <<"capture">>
    BY <2>1
  <2>2. CASE Pack[r] = <<"capture", "draft">>
    BY <2>2
  <2>3. QED
    BY <2>1, <2>2, FactoryAssumption
<1>2. fresh \in [1 .. Len(Pack[r]) -> Action]
  BY <1>1 DEF Action, ActionStatus
<1>3. QED
  BY <1>1, <1>2

\* So does the stop before the approval.
LEMMA StopIsStages ==
  ASSUME NEW s \in Seq(Stage)
  PROVE  StopBeforeApproval(s) \in Seq(Stage)
BY SetStageRows DEF StopBeforeApproval, StageNames, StageStatus

\* A process that is under way is on one of the runs.
LEMMA OnARun ==
  ASSUME TypeOK, Located, NEW p \in Procs, job[p].pc \notin {"idle", "start"}
  PROVE  job[p].run \in Runs /\ job[p] \in Jobs
BY DEF TypeOK, Located, Jobs

\* Steps of a command under way.
LEMMA TypeOfGoesOn ==
  ASSUME TypeOK, Located, Cleared, NEW p \in Procs, GoesOn(p)
  PROVE  TypeOK'
<1> DEFINE r == job[p].run
<1>0. /\ job[p] \in Jobs /\ NoJob \in Jobs /\ policy \in BOOLEAN
      /\ actions \in [Runs -> Seq(Action)] /\ stages \in [Runs -> Seq(Stage)]
  BY NoJobIsOne DEF TypeOK, Action, Stage
<1>1. CASE FinishRoles(p)
  <2>1. r \in Runs
    BY <1>1, OnARun DEF FinishRoles, At
  <2>2. StopBeforeApproval(stages[r]) \in Seq(Stage)
    BY <1>0, <2>1, StopIsStages
  <2>3. stages' \in [Runs -> Seq(Stage)]
    BY <1>0, <1>1, <2>1, <2>2 DEF FinishRoles
  <2>4. [job[p] EXCEPT !.pc = "look"] \in Jobs
    BY <1>0 DEF Jobs
  <2>5. job' \in [Procs -> Jobs]
    BY <1>0, <1>1, <2>4 DEF FinishRoles, Done, Goto, TypeOK
  <2>6. QED
    BY <1>1, <2>1, <2>3, <2>5 DEF FinishRoles, TypeOK, Stage, Active, bounds, history
<1>2. CASE ProactiveStart(p)
  <2>1. job[p].intent \in Intents \cup {None} /\ job[p].mode \in Modes \cup {"review_first"}
    BY <1>0 DEF Jobs
  <2>2. QED
    BY <1>2, <2>1, TypeOfInsert DEF ProactiveStart
<1>3. CASE Look(p)
  <2>1. r \in Runs
    BY <1>3, OnARun DEF Look, At
  <2>2. Len(actions[r]) \in Nat
    BY <1>0, <2>1
  <2>3. /\ [job[p] EXCEPT !.pc = "advance", !.at = 1, !.last = Len(actions[r]),
                           !.granted = policy] \in Jobs
        /\ [job[p] EXCEPT !.pc = "prepare"] \in Jobs
    BY <1>0, <2>2 DEF Jobs
  <2>4. job' \in [Procs -> Jobs]
    BY <1>3, <2>3 DEF Look, TypeOK
  <2>5. QED
    BY <1>3, <2>4 DEF Look, TypeOK, rows, bounds, history
<1>4. CASE Prepare(p)
  <2> DEFINE fresh == [i \in DOMAIN Pack[r] |-> [kind |-> Pack[r][i], status |-> "proposed"]]
  <2>1. r \in Runs
    BY <1>4, OnARun DEF Prepare, At
  <2>2. fresh \in Seq(Action) /\ Len(Pack[r]) \in Nat
    BY <2>1, BatchIsFresh
  <2>3. actions[r] \o fresh \in Seq(Action) /\ Len(actions[r]) \in Nat
    BY <1>0, <2>1, <2>2
  <2>4. actions' = [actions EXCEPT ![r] = @ \o fresh]
    BY <1>4 DEF Prepare
  <2> HIDE DEF fresh
  <2>5. actions' \in [Runs -> Seq(Action)]
    BY <1>0, <2>1, <2>3, <2>4
  <2>6. [job[p] EXCEPT !.pc = "advance", !.at = Len(actions[r]) + 1,
                       !.last = Len(actions[r]) + Len(Pack[r]),
                       !.granted = policy] \in Jobs
    <3>1. \A m, n \in Nat : m + 1 \in Nat /\ m + n \in Nat
      OBVIOUS
    <3>2. QED
      BY <1>0, <2>2, <2>3, <3>1, JobAdvances
  <2>7. job' \in [Procs -> Jobs]
    BY <1>4, <2>6 DEF Prepare, TypeOK
  <2>8. QED
    BY <1>4, <2>5, <2>7 DEF Prepare, TypeOK, Action, bounds, history
<1>5. CASE Ask(p) \/ ReadRow(p)
  <2>1. \A s \in OnTheWay : [job[p] EXCEPT !.pc = s] \in Jobs
    BY <1>0 DEF Jobs, OnTheWay
  <2>2. r \in Runs
    BY <1>5, OnARun DEF Ask, ReadRow, At
  <2>3. \A st : TurnedAway(st) \in SUBSET {"pending", "blocked"}
    BY DEF TurnedAway
  <2>4. job' \in [Procs -> Jobs]
    <3>1. CASE Ask(p)
      <4>1. CASE Goto(p, "read")
        BY <2>1, <4>1 DEF Goto, OnTheWay, TypeOK
      <4>2. CASE Passed(p, {"pending"})
        BY <4>2, PassedOn
      <4>3. QED
        BY <3>1, <4>1, <4>2 DEF Ask
    <3>2. CASE ReadRow(p)
      <4> DEFINE st == actions[r][job[p].at].status
      <4>1. CASE Goto(p, "approve")
        BY <2>1, <4>1 DEF Goto, OnTheWay, TypeOK
      <4>2. CASE Passed(p, TurnedAway(st))
        BY <2>3, <4>2, PassedOn
      <4>3. CASE job' = [job EXCEPT ![p].pc = "claim", ![p].seen = st]
                 /\ job[p].at \in DOMAIN actions[r]
        <5>1. st \in ActionStatus
          <6>1. actions[r] \in Seq(Action)
            BY <1>0, <2>2
          <6>2. actions[r][job[p].at] \in Action
            BY <4>3, <6>1
          <6>3. QED
            BY <6>2 DEF Action
        <5> HIDE DEF st
        <5>2. [job[p] EXCEPT !.pc = "claim", !.seen = st] \in Jobs
          BY <1>0, <5>1 DEF Jobs
        <5>3. QED
          BY <4>3, <5>2 DEF TypeOK
      <4>4. job[p].at \in DOMAIN actions[r]
        <5>1. job[p].pc \in AtActions /\ job[p].pc # "advance"
          BY <3>2 DEF ReadRow, At, AtActions, OnTheWay
        <5>2. job[p].at > 0 /\ job[p].at <= Len(actions[r]) /\ job[p].at \in Nat
          BY <1>0, <5>1 DEF Cleared, Placed, Jobs
        <5>3. QED
          BY <1>0, <2>2, <5>2
      <4>5. QED
        BY <3>2, <4>1, <4>2, <4>3, <4>4 DEF ReadRow
    <3>3. QED
      BY <1>5, <3>1, <3>2
  <2>5. QED
    BY <1>5, <2>4 DEF Ask, ReadRow, TypeOK, rows, bounds, history
<1>6. CASE ApproveRow(p) \/ Claim(p)
  <2>1. r \in Runs /\ job[p].at \in Nat
    BY <1>0, <1>6, OnARun DEF ApproveRow, Claim, At, Jobs
  <2>2. actions' \in [Runs -> Seq(Action)]
    <3>1. \/ \E st \in ActionStatus : SetAction(r, job[p].at, st)
          \/ actions' = actions
      BY <1>6 DEF ApproveRow, Claim, ActionStatus
    <3>2. QED
      BY <1>0, <2>1, <3>1, SetActionRows
  <2>3. /\ [job[p] EXCEPT !.pc = "reread"] \in Jobs
        /\ [job[p] EXCEPT !.pc = "work", !.seen = "proposed", !.granted = FALSE] \in Jobs
    BY <1>0 DEF Jobs, ActionStatus
  <2>4. job' \in [Procs -> Jobs]
    <3>1. CASE ApproveRow(p)
      BY <2>3, <3>1 DEF ApproveRow, Goto, TypeOK
    <3>2. CASE Claim(p)
      <4>1. CASE Passed(p, {"pending"})
        BY <4>1, PassedOn
      <4>2. CASE job' = [job EXCEPT ![p].pc = "work", ![p].seen = "proposed",
                                    ![p].granted = FALSE]
        BY <2>3, <4>2 DEF TypeOK
      <4>3. QED
        BY <3>2, <4>1, <4>2 DEF Claim
    <3>3. QED
      BY <1>6, <3>1, <3>2
  <2>5. held' = Nobody
    BY <1>6 DEF ApproveRow, Claim
  <2>6. QED
    BY <1>6, <2>2, <2>4, <2>5 DEF ApproveRow, Claim, TypeOK, Action, bounds, history
<1>7. CASE Settle(p)
  <2>1. r \in Runs /\ job[p].at \in Nat
    BY <1>0, <1>7, OnARun DEF Settle, At, Jobs
  <2>2. PICK res \in Results(actions[r][job[p].at].kind) :
          /\ SetAction(r, job[p].at, res)
          /\ carried' = IF res = "failed" THEN carried ELSE carried \cup {<<r, job[p].at>>}
          /\ Passed(p, IF res = "failed" THEN {"blocked"} ELSE {})
    BY <1>7 DEF Settle
  <2>3. actions' \in [Runs -> Seq(Action)]
    BY <1>0, <2>1, <2>2, SetActionRows DEF Results, ActionStatus
  <2>4. job' \in [Procs -> Jobs]
    BY <2>2, PassedOn
  <2>5. carried' \subseteq Runs \X Nat
    BY <2>1, <2>2 DEF TypeOK
  <2>6. QED
    BY <1>7, <2>3, <2>4, <2>5 DEF Settle, TypeOK, Action, bounds
<1>8. CASE FinishAdvance(p)
  <2> DEFINE out  == Outcome(job[p].tally)
             ran  == SetStage(stages[r], "execution", out)
             gate == IF mode[r] = "full_autonomous" THEN "completed" ELSE "waiting"
             all  == SetStage(SetStage(ran, "approval", gate), "learning", "pending")
  <2>1. r \in Runs
    BY <1>8, OnARun DEF FinishAdvance, At
  <2>2. /\ out \in StageStatus /\ gate \in StageStatus /\ "pending" \in StageStatus
        /\ {"approval", "execution", "learning"} \subseteq StageNames
    BY DEF Outcome, StageStatus, StageNames
  <2>3. ran \in Seq(Stage)
    BY <1>0, <2>1, <2>2, SetStageRows
  <2>4. all \in Seq(Stage)
    BY <2>2, <2>3, SetStageRows
  <2>5. \/ stages' = [stages EXCEPT ![r] = all]
        \/ stages' = [stages EXCEPT ![r] = ran]
    BY <1>8 DEF FinishAdvance
  <2> HIDE DEF out, ran, gate, all
  <2>6. stages' \in [Runs -> Seq(Stage)]
    BY <1>0, <2>1, <2>3, <2>4, <2>5
  <2>7. status' \in [Runs -> Active \cup {"absent", "approved",
                                         "execution_completed", "learned"}]
    BY <1>8, <2>1 DEF FinishAdvance, Started, TypeOK, Active
  <2>8. job' \in [Procs -> Jobs]
    BY <1>0, <1>8, JobStep DEF FinishAdvance, Done
  <2>9. QED
    BY <1>8, <2>6, <2>7, <2>8 DEF FinishAdvance, TypeOK, Stage, bounds, history
<1>9. CASE RecordStage(p)
  <2>1. r \in Runs /\ job[p].stage \in StageNames
    BY <1>0, <1>9, OnARun DEF RecordStage, At, Jobs
  <2>2. SetStage(stages[r], job[p].stage, "completed") \in Seq(Stage)
    BY <1>0, <2>1, SetStageRows DEF StageStatus
  <2>3. stages' \in [Runs -> Seq(Stage)]
    BY <1>0, <1>9, <2>1, <2>2 DEF RecordStage
  <2>4. job' \in [Procs -> Jobs]
    BY <1>0, <1>9, JobStep DEF RecordStage, Done
  <2>5. QED
    BY <1>9, <2>3, <2>4 DEF RecordStage, TypeOK, Stage, bounds, history
<1>10. QED
  BY <1>1, <1>2, <1>3, <1>4, <1>5, <1>6, <1>7, <1>8, <1>9 DEF GoesOn

\* The stage that `continue` takes is one of the run's, and open.
LEMMA FirstOpen ==
  ASSUME stages \in [Runs -> Seq(Stage)], NEW r \in Runs, Open(r) # {}
  PROVE  LET i == Oldest(Open(r)) IN
           /\ i \in DOMAIN stages[r]
           /\ stages[r][i].status \in {"pending", "waiting"}
           /\ stages[r][i].name \in StageNames
<1>1. stages[r] \in Seq(Stage) /\ DOMAIN stages[r] \subseteq Nat
  OBVIOUS
<1>2. Open(r) \subseteq Nat
  BY <1>1 DEF Open
<1>3. Oldest(Open(r)) \in Open(r)
  BY <1>2, OldestIsThere
<1>4. \A i \in Open(r) : /\ i \in DOMAIN stages[r] /\ stages[r][i] \in Stage
                        /\ stages[r][i].status \in {"pending", "waiting"}
  BY <1>1 DEF Open
<1>5. QED
  BY <1>3, <1>4 DEF Stage

\* The oldest active run is active.
LEMMA OldestActive ==
  ASSUME ActiveRuns # {}
  PROVE  Oldest(ActiveRuns) \in Runs /\ status[Oldest(ActiveRuns)] \in Active
<1>1. ActiveRuns \subseteq Nat
  BY FactoryAssumption DEF ActiveRuns
<1>2. Oldest(ActiveRuns) \in ActiveRuns
  BY <1>1, OldestIsThere
<1>3. QED
  BY <1>2 DEF ActiveRuns

\* What autopilots choose to do.
LEMMA TypeOfCycle ==
  ASSUME TypeOK, NEW p \in Procs, Cycle(p)
  PROVE  TypeOK'
<1>1. CASE ProactiveContinue(p)
  <2>1. Oldest(ActiveRuns) \in Runs
    BY <1>1, OldestActive DEF ProactiveContinue
  <2>2. [NoJob EXCEPT !.pc = "look", !.run = Oldest(ActiveRuns)] \in Jobs
    BY <2>1, NoJobIsOne DEF Jobs
  <2>3. job' \in [Procs -> Jobs]
    BY <1>1, <2>2, JobStep DEF ProactiveContinue
  <2>4. QED
    BY <1>1, <2>3 DEF ProactiveContinue, TypeOK, rows, bounds, history
<1>2. CASE ProactivePick(p)
  <2>1. DueIntents \subseteq Nat /\ DueIntents # {}
    BY <1>2, FactoryAssumption DEF ProactivePick, DueIntents
  <2>2. Oldest(DueIntents) \in Intents
    BY <2>1, OldestIsThere DEF DueIntents
  <2>3. \A m \in Modes : [NoJob EXCEPT !.pc = "start", !.mode = m,
                                     !.intent = Oldest(DueIntents)] \in Jobs
    BY <2>2, NoJobIsOne DEF Jobs
  <2>4. job' \in [Procs -> Jobs]
    BY <1>2, <2>3, JobStep DEF ProactivePick
  <2>5. QED
    BY <1>2, <2>4 DEF ProactivePick, TypeOK, rows, bounds, history
<1>3. QED
  BY <1>1, <1>2 DEF Cycle

\* A policy that is set moves nobody.
LEMMA PolicyOnJobs ==
  ASSUME TypeOK, NEW p \in Procs, SetPolicy(p)
  PROVE  /\ job' \in [Procs -> Jobs]
         /\ \A q \in Procs :
              /\ job'[q].pc = job[q].pc /\ job'[q].run = job[q].run
              /\ job'[q].at = job[q].at /\ job'[q].last = job[q].last
              /\ job'[q].tally = job[q].tally /\ job'[q].stage = job[q].stage
              /\ job'[q].approve = job[q].approve
              /\ job[q].granted => job'[q].granted
              /\ policy' /\ job[q].pc \in OnTheWay => job'[q].granted
<1>1. ASSUME NEW q \in Procs
      PROVE  /\ job'[q] \in Jobs
             /\ job'[q].pc = job[q].pc /\ job'[q].run = job[q].run
             /\ job'[q].at = job[q].at /\ job'[q].last = job[q].last
             /\ job'[q].tally = job[q].tally /\ job'[q].stage = job[q].stage
             /\ job'[q].approve = job[q].approve
             /\ job[q].granted => job'[q].granted
             /\ policy' /\ job[q].pc \in OnTheWay => job'[q].granted
  <2> DEFINE g == job[q].granted \/ (policy' /\ job[q].pc \in OnTheWay)
  <2>1. /\ g \in BOOLEAN /\ (job[q].granted => g)
        /\ policy' /\ job[q].pc \in OnTheWay => g
    OBVIOUS
  <2>2. job'[q] = [job[q] EXCEPT !.granted = g]
    BY DEF SetPolicy
  <2>3. job[q] \in Jobs
    BY DEF TypeOK
  <2> HIDE DEF g
  <2>4. /\ job'[q] \in Jobs /\ job'[q].granted = g
        /\ job'[q].pc = job[q].pc /\ job'[q].run = job[q].run
        /\ job'[q].at = job[q].at /\ job'[q].last = job[q].last
        /\ job'[q].tally = job[q].tally /\ job'[q].stage = job[q].stage
        /\ job'[q].approve = job[q].approve
    BY <2>1, <2>2, <2>3 DEF Jobs
  <2>5. QED
    BY <2>1, <2>4
<1>2. DOMAIN job' = Procs /\ job' = [q \in Procs |-> job'[q]]
  BY DEF SetPolicy
<1>3. QED
  BY <1>1, <1>2

\* What users do.
LEMMA TypeOfCommand ==
  ASSUME TypeOK, NEW p \in Procs, Command(p)
  PROVE  TypeOK'
<1>0. /\ NoJob \in Jobs
      /\ actions \in [Runs -> Seq(Action)] /\ stages \in [Runs -> Seq(Stage)]
      /\ Existing \subseteq Runs
      /\ {"approval", "execution", "learning"} \subseteq StageNames
      /\ {"pending", "waiting", "completed", "blocked"} \subseteq StageStatus
  BY NoJobIsOne DEF TypeOK, Action, Stage, Existing, StageNames, StageStatus
<1>1. CASE Start(p)
  BY <1>1, TypeOfInsert DEF Start
<1>2. CASE Continue(p)
  <2>1. PICK r \in Runs :
          /\ Open(r) # {}
          /\ job' = [job EXCEPT ![p] =
                       ContinueWith(r, stages[r][Oldest(Open(r))].name)]
    BY <1>0, <1>2 DEF Continue
  <2>2. stages[r][Oldest(Open(r))].name \in StageNames
    BY <1>0, <2>1, FirstOpen
  <2>3. ContinueWith(r, stages[r][Oldest(Open(r))].name) \in Jobs
    BY <1>0, <2>2 DEF ContinueWith, Jobs
  <2>4. job' \in [Procs -> Jobs]
    BY <2>1, <2>3, JobStep
  <2>5. QED
    BY <1>2, <2>4 DEF Continue, TypeOK, rows, bounds, history
<1>3. ASSUME NEW execute \in BOOLEAN, Approve(p, execute)
      PROVE  TypeOK'
  <2>1. PICK r \in Runs :
          /\ status' = [status EXCEPT ![r] = IF execute THEN "approved_for_execution"
                                             ELSE "approved"]
          /\ stages' = [stages EXCEPT ![r] = SetStage(@, "approval", "completed")]
          /\ IF execute
             THEN /\ job' = [job EXCEPT ![p] = [NoJob EXCEPT !.pc = "look",
                                                  !.run = r, !.approve = TRUE]]
                  /\ held' = HolderAfterApproval(p)
                  /\ approved' = approved \cup {r}
             ELSE UNCHANGED <<job, held, approved>>
    BY <1>0, <1>3 DEF Approve
  <2>2. SetStage(stages[r], "approval", "completed") \in Seq(Stage)
    BY <1>0, SetStageRows
  <2>3. stages' \in [Runs -> Seq(Stage)]
    BY <1>0, <2>1, <2>2
  <2>4. [NoJob EXCEPT !.pc = "look", !.run = r, !.approve = TRUE] \in Jobs
    BY <1>0 DEF Jobs
  <2>5. job' \in [Procs -> Jobs] /\ held' \in Procs \cup {Nobody}
    BY <2>1, <2>4, JobStep DEF HolderAfterApproval, TypeOK
  <2>6. status' \in [Runs -> Active \cup {"absent", "approved",
                                         "execution_completed", "learned"}]
    BY <2>1 DEF TypeOK, Active
  <2>7. approved' \subseteq Runs
    BY <2>1 DEF TypeOK
  <2>8. QED
    BY <1>3, <2>3, <2>5, <2>6, <2>7 DEF Approve, TypeOK, Stage, bounds
<1>4. CASE ApproveAction(p)
  <2>1. PICK r \in Runs : \E i \in DOMAIN actions[r] :
          /\ accepted' = accepted \cup {<<r, i>>}
          /\ job' = [job EXCEPT ![p] = [NoJob EXCEPT !.pc = "read", !.run = r,
                                                     !.at = i]]
    BY <1>0, <1>4 DEF ApproveAction
  <2>2. PICK i \in DOMAIN actions[r] :
          /\ accepted' = accepted \cup {<<r, i>>}
          /\ job' = [job EXCEPT ![p] = [NoJob EXCEPT !.pc = "read", !.run = r,
                                                     !.at = i]]
    BY <2>1
  <2>3. i \in Nat
    BY <1>0
  <2>4. [NoJob EXCEPT !.pc = "read", !.run = r, !.at = i] \in Jobs
    BY <1>0, <2>3 DEF Jobs
  <2>5. job' \in [Procs -> Jobs] /\ accepted' \subseteq Runs \X Nat
    BY <2>2, <2>3, <2>4, JobStep DEF TypeOK
  <2>6. QED
    BY <1>4, <2>5 DEF ApproveAction, TypeOK, rows, bounds
<1>5. CASE Learn(p)
  <2>1. PICK r \in Runs :
          /\ status' = [status EXCEPT ![r] = "learned"]
          /\ stages' = [stages EXCEPT ![r] = SetStage(@, "learning", "completed")]
    BY <1>0, <1>5 DEF Learn
  <2>2. SetStage(stages[r], "learning", "completed") \in Seq(Stage)
    BY <1>0, SetStageRows
  <2>3. stages' \in [Runs -> Seq(Stage)]
    BY <1>0, <2>1, <2>2
  <2>4. QED
    BY <1>5, <2>1, <2>3 DEF Learn, TypeOK, Stage, bounds, history
<1>6. CASE RunStage(p)
  <2>1. PICK r \in Runs, by \in ByHand :
          stages' = [stages EXCEPT ![r] = SetStage(@, by[1], by[2])]
    BY <1>0, <1>6 DEF RunStage
  <2>2. SetStage(stages[r], by[1], by[2]) \in Seq(Stage)
    <3>1. by[1] \in StageNames /\ by[2] \in StageStatus
      BY FactoryAssumption DEF StageNames, StageStatus
    <3>2. QED
      BY <1>0, <3>1, SetStageRows
  <2>3. stages' \in [Runs -> Seq(Stage)]
    BY <1>0, <2>1, <2>2
  <2>4. edits' \in Nat /\ edits' + crashes <= MaxMishaps
    BY <1>6, FactoryAssumption DEF RunStage, TypeOK
  <2>5. QED
    BY <1>6, <2>3, <2>4 DEF RunStage, TypeOK, Stage, history
<1>7. CASE SetPolicy(p)
  <2>1. job' \in [Procs -> Jobs] /\ policy' \in BOOLEAN
    BY <1>7, PolicyOnJobs DEF TypeOK, SetPolicy
  <2>2. QED
    BY <1>7, <2>1 DEF SetPolicy, TypeOK, rows, bounds, history
<1>8. QED
  BY <1>1, <1>2, <1>3, <1>4, <1>5, <1>6, <1>7 DEF Command

\* And what nobody does on purpose.
LEMMA TypeOfMishap ==
  ASSUME TypeOK, DayPasses \/ \E p \in Procs : Crash(p)
  PROVE  TypeOK'
<1>1. CASE DayPasses
  <2>1. days' \in 0 .. MaxDays
    BY <1>1, FactoryAssumption DEF DayPasses, TypeOK
  <2>2. recent' \subseteq Runs
    BY <1>1 DEF DayPasses, TypeOK
  <2>3. QED
    BY <1>1, <2>1, <2>2 DEF DayPasses, TypeOK, rows, history
<1>2. ASSUME NEW p \in Procs, Crash(p)
      PROVE  TypeOK'
  <2>1. job' \in [Procs -> Jobs]
    BY <1>2, JobStep, NoJobIsOne DEF Crash, Done
  <2>2. crashes' \in Nat /\ edits + crashes' <= MaxMishaps
    BY <1>2, FactoryAssumption DEF Crash, TypeOK
  <2>3. QED
    BY <1>2, <2>1, <2>2 DEF Crash, TypeOK, rows, history
<1>3. QED
  BY <1>1, <1>2

\* Every step keeps the types.
LEMMA TypeStep ==
  ASSUME TypeOK, Located, Cleared, [Next]_vars
  PROVE  TypeOK'
<1>1. CASE UNCHANGED vars
  BY <1>1 DEF TypeOK, vars, rows, bounds, history
<1>2. QED
  BY <1>1, TypeOfGoesOn, TypeOfCycle, TypeOfCommand, TypeOfMishap DEF Next, Procs

\* They hold at first.
LEMMA TypeFirst ==
  ASSUME Init
  PROVE  TypeOK
<1>1. job \in [Procs -> Jobs]
  BY NoJobIsOne DEF Init
<1>2. QED
  <2>1. 0 \in 0 .. MaxDays /\ 0 + 0 <= MaxMishaps
    BY FactoryAssumption
  <2>2. /\ \A S : <<>> \in Seq(S)
        /\ stages = [r \in Runs |-> <<>>] /\ actions = [r \in Runs |-> <<>>]
    BY DEF Init
  <2>3. /\ stages \in [Runs -> Seq([name : StageNames, status : StageStatus])]
        /\ actions \in [Runs -> Seq([kind : {"capture", "draft"}, status : ActionStatus])]
    BY <2>2
  <2>4. /\ status \in [Runs -> Active \cup {"absent", "approved",
                                            "execution_completed", "learned"}]
        /\ intent \in [Runs -> Intents \cup {None}]
        /\ mode \in [Runs -> Modes \cup {"review_first"}]
    BY DEF Init
  <2>5. edits \in Nat /\ crashes \in Nat /\ edits + crashes <= MaxMishaps /\ days \in 0 .. MaxDays
    BY <2>1 DEF Init
  <2>6. QED
    BY <1>1, <2>3, <2>4, <2>5 DEF Init, TypeOK

-----------------------------------------------------------------------------
(* Who is where.                                                           *)

\* A step that moves one process, and begins a run or writes to one that was
\* begun.
LEMMA PlacesKept ==
  ASSUME TypeOK, Located, Untouched, NEW p \in Procs, NEW r \in Runs,
         \A q \in Procs \ {p} : job'[q] = job[q],
         /\ job'[p].run = None <=> job'[p].pc \in {"idle", "start"}
         /\ job'[p].run # None => status'[job'[p].run] # "absent"
         /\ job'[p].approve => job'[p].run \in approved',
         approved \subseteq approved', status'[r] # "absent",
         \A q \in Runs \ {r} : /\ status'[q] = status[q]
                               /\ stages'[q] = stages[q] /\ actions'[q] = actions[q]
  PROVE  Located' /\ Untouched'
<1>1. \A q \in Runs : status[q] # "absent" => status'[q] # "absent"
  OBVIOUS
<1>2. \A q \in Procs : job[q].run \in Runs \cup {None}
  BY DEF TypeOK, Jobs
<1>3. Located'
  BY <1>1, <1>2 DEF Located
<1>4. QED
  BY <1>3 DEF Untouched

\* A step that writes to no run.
LEMMA PlacesKeptIdle ==
  ASSUME Located, Untouched, NEW p \in Procs,
         \A q \in Procs \ {p} : job'[q] = job[q],
         /\ job'[p].run = None <=> job'[p].pc \in {"idle", "start"}
         /\ job'[p].run # None => status[job'[p].run] # "absent"
         /\ job'[p].approve => job'[p].run \in approved,
         UNCHANGED <<status, stages, actions, approved>>
  PROVE  Located' /\ Untouched'
BY DEF Located, Untouched

\* A start puts its process on the run it began.
LEMMA PlacesOfInsert ==
  ASSUME TypeOK, Located, Untouched, NEW p \in Procs, NEW i, NEW m, Insert(p, i, m),
         UNCHANGED <<stages, actions, approved>>
  PROVE  Located' /\ Untouched'
<1>1. PICK r \in Runs :
        /\ status' = [status EXCEPT ![r] = "running"]
        /\ job' = [job EXCEPT ![p] = [NoJob EXCEPT !.pc = "roles", !.run = r,
                                                   !.start = TRUE]]
  BY DEF Insert
<1>2. r # None
  BY FactoryAssumption DEF None
<1>3. /\ job'[p].run = r /\ job'[p].pc = "roles" /\ job'[p].approve = FALSE
      /\ \A q \in Procs \ {p} : job'[q] = job[q]
      /\ status'[r] = "running" /\ \A q \in Runs \ {r} : status'[q] = status[q]
  BY <1>1 DEF TypeOK, NoJob
<1>4. QED
  BY <1>2, <1>3, PlacesKept

\* A process at an action stays on its run, and with its approval, or ends.
LEMMA OnTheSameRun ==
  ASSUME TypeOK, NEW p \in Procs,
         Ask(p) \/ ReadRow(p) \/ ApproveRow(p) \/ Claim(p) \/ Settle(p)
  PROVE  /\ \A q \in Procs \ {p} : job'[q] = job[q]
         /\ \/ job'[p] = NoJob
            \/ /\ job'[p].run = job[p].run /\ job'[p].approve = job[p].approve
               /\ job'[p].pc \in AtActions
<1>0. job[p] \in Jobs
  BY DEF TypeOK
<1>1. CASE \E more \in SUBSET {"pending", "blocked"} : Passed(p, more)
  <2>1. PICK more \in SUBSET {"pending", "blocked"} : Passed(p, more)
    BY <1>1
  <2>2. QED
    BY <2>1, PassedOn DEF AtActions, OnTheWay
<1>2. CASE \E s \in OnTheWay : Goto(p, s)
  BY <1>0, <1>2 DEF Goto, AtActions, TypeOK, Jobs
<1>3. CASE \E s : job' = [job EXCEPT ![p].pc = "claim", ![p].seen = s]
  BY <1>0, <1>3 DEF AtActions, OnTheWay, TypeOK, Jobs
<1>4. CASE job' = [job EXCEPT ![p].pc = "work", ![p].seen = "proposed",
                              ![p].granted = FALSE]
  BY <1>0, <1>4 DEF AtActions, TypeOK, Jobs
<1>5. QED
  <2>1. \A st : TurnedAway(st) \in SUBSET {"pending", "blocked"}
    BY DEF TurnedAway
  <2>2. CASE Ask(p)
    BY <1>1, <1>2, <2>2 DEF Ask, OnTheWay
  <2>3. CASE ReadRow(p)
    BY <1>1, <1>2, <1>3, <2>1, <2>3 DEF ReadRow, OnTheWay
  <2>4. CASE ApproveRow(p)
    BY <1>2, <2>4 DEF ApproveRow, OnTheWay
  <2>5. CASE Claim(p)
    BY <1>1, <1>4, <2>5 DEF Claim
  <2>6. CASE Settle(p)
    <3>1. {"blocked"} \in SUBSET {"pending", "blocked"} /\ {} \in SUBSET {"pending", "blocked"}
      OBVIOUS
    <3>2. \E more \in SUBSET {"pending", "blocked"} : Passed(p, more)
      BY <2>6, <3>1 DEF Settle
    <3>3. QED
      BY <1>1, <3>2
  <2>7. QED
    BY <2>2, <2>3, <2>4, <2>5, <2>6

\* Every step keeps the places.
LEMMA PlacesStep ==
  ASSUME TypeOK, Located, Untouched, [Next]_vars
  PROVE  Located' /\ Untouched'
<1>0. None \notin Runs
  BY FactoryAssumption DEF None
<1>1. ASSUME NEW p \in Procs, FinishRoles(p) \/ FinishAdvance(p) \/ RecordStage(p)
      PROVE  Located' /\ Untouched'
  <2>1. job[p].run \in Runs /\ status[job[p].run] # "absent"
    BY <1>0, <1>1, OnARun DEF FinishRoles, FinishAdvance, RecordStage, At, Located
  <2>2. status'[job[p].run] # "absent"
    BY <1>1, <2>1 DEF FinishRoles, FinishAdvance, RecordStage, TypeOK, Started
  <2>3. job'[p] = NoJob \/ (job'[p] = [job[p] EXCEPT !.pc = "look"] /\ FinishRoles(p))
    BY <1>1 DEF FinishRoles, FinishAdvance, RecordStage, Done, Goto, TypeOK
  <2>4. /\ job'[p].run = None <=> job'[p].pc \in {"idle", "start"}
        /\ job'[p].run # None => status'[job'[p].run] # "absent"
        /\ job'[p].approve => job'[p].run \in approved'
    <3>1. approved' = approved
      BY <1>1 DEF FinishRoles, FinishAdvance, RecordStage, history
    <3>2. CASE job'[p] = NoJob
      BY <3>2 DEF NoJob
    <3>3. CASE job'[p] = [job[p] EXCEPT !.pc = "look"]
      <4>1. /\ job'[p].run = job[p].run /\ job'[p].pc = "look"
            /\ job'[p].approve = job[p].approve
        BY <3>3 DEF TypeOK, Jobs
      <4>2. QED
        BY <1>0, <2>1, <2>2, <3>1, <4>1 DEF Located
    <3>4. QED
      BY <2>3, <3>2, <3>3
  <2>5. \A q \in Procs \ {p} : job'[q] = job[q]
    BY <1>1 DEF FinishRoles, FinishAdvance, RecordStage, Done, Goto, TypeOK
  <2>6. /\ approved \subseteq approved'
        /\ \A q \in Runs \ {job[p].run} :
             /\ status'[q] = status[q]
             /\ stages'[q] = stages[q] /\ actions'[q] = actions[q]
    BY <1>1 DEF FinishRoles, FinishAdvance, RecordStage, TypeOK, history
  <2>7. QED
    BY <2>1, <2>2, <2>4, <2>5, <2>6, PlacesKept
<1>2. ASSUME NEW p \in Procs, Prepare(p) \/ ApproveRow(p) \/ Claim(p) \/ Settle(p)
      PROVE  Located' /\ Untouched'
  <2>1. job[p].run \in Runs /\ status[job[p].run] # "absent"
    BY <1>0, <1>2, OnARun DEF Prepare, ApproveRow, Claim, Settle, At, Located
  <2>2. /\ \A q \in Procs \ {p} : job'[q] = job[q]
        /\ \/ job'[p] = NoJob
           \/ /\ job'[p].run = job[p].run /\ job'[p].approve = job[p].approve
              /\ job'[p].pc \in AtActions
    <3>1. CASE Prepare(p)
      BY <3>1 DEF Prepare, TypeOK, Jobs, AtActions, OnTheWay
    <3>2. QED
      BY <1>2, <3>1, OnTheSameRun
  <2>3. /\ job'[p].run = None <=> job'[p].pc \in {"idle", "start"}
        /\ job'[p].run # None => status'[job'[p].run] # "absent"
        /\ job'[p].approve => job'[p].run \in approved'
    <3>1. approved' = approved /\ status' = status
      BY <1>2 DEF Prepare, ApproveRow, Claim, Settle, history
    <3>2. CASE job'[p] = NoJob
      BY <3>2 DEF NoJob
    <3>3. QED
      BY <1>0, <2>1, <2>2, <3>1, <3>2 DEF Located, AtActions, OnTheWay
  <2>4. /\ UNCHANGED <<status, stages, approved>>
        /\ \A q \in Runs \ {job[p].run} : actions'[q] = actions[q]
    BY <1>2 DEF Prepare, ApproveRow, Claim, Settle, SetAction, TypeOK, history
  <2>5. QED
    BY <2>1, <2>2, <2>3, <2>4, PlacesKept
<1>3. ASSUME NEW p \in Procs, Look(p) \/ Ask(p) \/ ReadRow(p)
      PROVE  Located' /\ Untouched'
  <2>1. job[p].run \in Runs /\ job[p].run # None
    BY <1>0, <1>3, OnARun DEF Look, Ask, ReadRow, At
  <2>2. /\ \A q \in Procs \ {p} : job'[q] = job[q]
        /\ \/ job'[p] = NoJob
           \/ /\ job'[p].run = job[p].run /\ job'[p].approve = job[p].approve
              /\ job'[p].pc \in AtActions \cup {"prepare"}
    <3>1. CASE Look(p)
      BY <3>1 DEF Look, TypeOK, Jobs, AtActions, OnTheWay
    <3>2. QED
      BY <1>3, <3>1, OnTheSameRun
  <2>3. /\ job'[p].run = None <=> job'[p].pc \in {"idle", "start"}
        /\ job'[p].run # None => status[job'[p].run] # "absent"
        /\ job'[p].approve => job'[p].run \in approved
    <3>1. CASE job'[p] = NoJob
      BY <3>1 DEF NoJob
    <3>2. QED
      BY <2>1, <2>2, <3>1 DEF Located, AtActions, OnTheWay
  <2>4. QED
    BY <1>3, <2>2, <2>3, PlacesKeptIdle DEF Look, Ask, ReadRow, rows, history
<1>4. ASSUME NEW p \in Procs, ProactiveStart(p) \/ Start(p)
      PROVE  Located' /\ Untouched'
  BY <1>4, PlacesOfInsert DEF ProactiveStart, Start, history
<1>5. ASSUME NEW p \in Procs, ProactiveContinue(p)
      PROVE  Located' /\ Untouched'
  <2>1. job'[p] = [NoJob EXCEPT !.pc = "look", !.run = Oldest(ActiveRuns)]
    BY <1>5 DEF ProactiveContinue, TypeOK
  <2>2. Oldest(ActiveRuns) \in Runs /\ status[Oldest(ActiveRuns)] # "absent"
    BY <1>5, OldestActive DEF ProactiveContinue, Active
  <2>3. \A q \in Procs \ {p} : job'[q] = job[q]
    BY <1>5 DEF ProactiveContinue, TypeOK
  <2>4. /\ job'[p].run = Oldest(ActiveRuns) /\ job'[p].pc = "look"
        /\ job'[p].approve = FALSE
    BY <2>1 DEF NoJob
  <2>5. QED
    BY <1>0, <1>5, <2>2, <2>3, <2>4, PlacesKeptIdle
       DEF ProactiveContinue, rows, history
<1>6. ASSUME NEW p \in Procs, ProactivePick(p)
      PROVE  Located' /\ Untouched'
  <2>1. job'[p].run = None /\ job'[p].pc = "start" /\ job'[p].approve = FALSE
    BY <1>6 DEF ProactivePick, TypeOK, NoJob
  <2>2. \A q \in Procs \ {p} : job'[q] = job[q]
    BY <1>6 DEF ProactivePick, TypeOK
  <2>3. QED
    BY <1>6, <2>1, <2>2, PlacesKeptIdle DEF ProactivePick, rows, history
<1>7. ASSUME NEW p \in Procs, Continue(p)
      PROVE  Located' /\ Untouched'
  <2>1. PICK r \in Existing : \E name \in {stages[r][Oldest(Open(r))].name} :
          job' = [job EXCEPT ![p] = ContinueWith(r, name)]
    BY <1>7 DEF Continue
  <2>2. /\ job'[p].run = r /\ job'[p].pc \in {"look", "record"} /\ job'[p].approve = FALSE
        /\ \A q \in Procs \ {p} : job'[q] = job[q]
    BY <2>1 DEF ContinueWith, NoJob, TypeOK
  <2>3. QED
    BY <1>0, <1>7, <2>2, PlacesKeptIdle DEF Continue, Existing, rows, history
<1>8. ASSUME NEW p \in Procs, NEW execute \in BOOLEAN, Approve(p, execute)
      PROVE  Located' /\ Untouched'
  <2>1. PICK r \in Existing :
          /\ status' = [status EXCEPT ![r] = IF execute THEN "approved_for_execution"
                                             ELSE "approved"]
          /\ stages' = [stages EXCEPT ![r] = SetStage(@, "approval", "completed")]
          /\ IF execute
             THEN /\ job' = [job EXCEPT ![p] = [NoJob EXCEPT !.pc = "look",
                                                  !.run = r, !.approve = TRUE]]
                  /\ approved' = approved \cup {r}
             ELSE UNCHANGED <<job, approved>>
    BY <1>8 DEF Approve
  <2>2. r \in Runs /\ status'[r] # "absent" /\ \A q \in Runs \ {r} :
          status'[q] = status[q] /\ stages'[q] = stages[q]
    BY <2>1 DEF Existing, TypeOK
  <2>3. CASE execute
    <3>1. /\ job'[p].run = r /\ job'[p].pc = "look" /\ job'[p].approve
          /\ \A q \in Procs \ {p} : job'[q] = job[q]
      BY <2>1, <2>3 DEF NoJob, TypeOK
    <3>2. QED
      BY <1>0, <1>8, <2>1, <2>2, <2>3, <3>1, PlacesKept DEF Approve
  <2>4. CASE ~execute
    <3>1. /\ job'[p].run = None <=> job'[p].pc \in {"idle", "start"}
          /\ job'[p].run # None => status'[job'[p].run] # "absent"
          /\ job'[p].approve => job'[p].run \in approved'
      BY <2>1, <2>2, <2>4 DEF Located, TypeOK, Jobs
    <3>2. QED
      BY <1>8, <2>1, <2>2, <2>4, <3>1, PlacesKept DEF Approve
  <2>5. QED
    BY <2>3, <2>4
<1>9. ASSUME NEW p \in Procs, ApproveAction(p)
      PROVE  Located' /\ Untouched'
  <2>1. PICK r \in Existing : \E i \in DOMAIN actions[r] :
          job' = [job EXCEPT ![p] = [NoJob EXCEPT !.pc = "read", !.run = r, !.at = i]]
    BY <1>9 DEF ApproveAction
  <2>2. /\ r \in Runs /\ status[r] # "absent"
        /\ job'[p].run = r /\ job'[p].pc = "read" /\ job'[p].approve = FALSE
        /\ \A q \in Procs \ {p} : job'[q] = job[q]
    BY <2>1 DEF Existing, NoJob, TypeOK
  <2>3. QED
    BY <1>0, <1>9, <2>2, PlacesKeptIdle DEF ApproveAction, rows
<1>10. ASSUME NEW p \in Procs, Learn(p) \/ RunStage(p)
       PROVE  Located' /\ Untouched'
  <2>1. PICK r \in Existing :
          /\ status' = [status EXCEPT ![r] = "learned"] \/ status' = status
          /\ \E n, st : stages' = [stages EXCEPT ![r] = SetStage(@, n, st)]
    BY <1>10 DEF Learn, RunStage
  <2>2. r \in Runs /\ status'[r] # "absent" /\ \A q \in Runs \ {r} :
          status'[q] = status[q] /\ stages'[q] = stages[q]
    BY <2>1 DEF Existing, TypeOK
  <2>3. UNCHANGED <<job, actions, approved>>
    BY <1>10 DEF Learn, RunStage, history
  <2>4. \A q \in Runs : status[q] # "absent" => status'[q] # "absent"
    BY <2>2
  <2>5. QED
    BY <2>2, <2>3, <2>4 DEF Located, Untouched, TypeOK, Jobs
<1>11. ASSUME NEW p \in Procs, Crash(p)
       PROVE  Located' /\ Untouched'
  <2>1. job'[p] = NoJob /\ \A q \in Procs \ {p} : job'[q] = job[q]
    BY <1>11 DEF Crash, Done, TypeOK
  <2>2. QED
    BY <1>11, <2>1, PlacesKeptIdle DEF Crash, NoJob, rows, history
<1>12. CASE DayPasses
  BY <1>12 DEF DayPasses, rows, history, Located, Untouched
<1>13. ASSUME NEW p \in Procs, SetPolicy(p)
       PROVE  Located' /\ Untouched'
  <2>1. \A q \in Procs : /\ job'[q].run = job[q].run /\ job'[q].pc = job[q].pc
                         /\ job'[q].approve = job[q].approve
    BY <1>13, PolicyOnJobs
  <2>2. QED
    BY <1>13, <2>1 DEF SetPolicy, rows, history, Located, Untouched
<1>14. CASE UNCHANGED vars
  BY <1>14 DEF vars, rows, history, Located, Untouched
<1>15. QED
  BY <1>1, <1>2, <1>3, <1>4, <1>5, <1>6, <1>7, <1>8, <1>9, <1>10, <1>11, <1>12,
     <1>13, <1>14 DEF Next, GoesOn, Cycle, Command, Procs

-----------------------------------------------------------------------------
(* Runs by the book.  First what a step may do to them.                    *)

\* Writing a stage enters the execution only if it says so, and completes it
\* only if it says that.
LEMMA ReachedBySet ==
  ASSUME NEW s \in Seq(Stage), NEW n \in StageNames, NEW st \in StageStatus,
         Reached(SetStage(s, n, st))
  PROVE  Reached(s) \/ (n = "execution" /\ st # "blocked")
BY SetStageRows DEF Reached

\* A stage that says the execution is completed.
Finished(s) == \E i \in DOMAIN s : s[i] = [name |-> "execution", status |-> "completed"]

\* Nor does it complete it otherwise.
LEMMA FinishedBySet ==
  ASSUME NEW s \in Seq(Stage), NEW n \in StageNames, NEW st \in StageStatus,
         Finished(SetStage(s, n, st))
  PROVE  Finished(s) \/ (n = "execution" /\ st = "completed")
<1>1. PICK i \in DOMAIN SetStage(s, n, st) :
        SetStage(s, n, st)[i] = [name |-> "execution", status |-> "completed"]
  BY DEF Finished
<1>2. CASE SetStage(s, n, st)[i] = [name |-> n, status |-> st]
  BY <1>1, <1>2
<1>3. CASE i \in DOMAIN s /\ SetStage(s, n, st)[i] = s[i]
  BY <1>1, <1>3 DEF Finished
<1>4. QED
  BY <1>2, <1>3, SetStageRows

\* A finished stage was reached.
LEMMA FinishedIsReached ==
  ASSUME NEW s, Finished(s)
  PROVE  Reached(s)
BY DEF Finished, Reached

\* What a step of p leaves of InHand: it approves nothing less, empties no run,
\* and prepares one only while nobody else holds the database.
LEMMA HandKept ==
  ASSUME TypeOK, Located, Untouched, InHand, NEW p \in Procs,
         \A q \in Procs \ {p} : job'[q] = job[q] /\ (held = q => held' = q),
         \A r \in Runs : status[r] # "absent" => mode'[r] = mode[r],
         approved \subseteq approved',
         \A r \in Runs : actions[r] # <<>> => actions'[r] # <<>>,
         \A r \in Runs : actions'[r] # <<>> /\ actions[r] = <<>> =>
           status[r] # "absent" /\ Consented(r) /\ held \in {p, Nobody},
         \A r \in Runs : Reached(stages'[r]) =>
           Reached(stages[r]) \/ actions'[r] # <<>>,
         Holds(p)'
  PROVE  InHand'
<1>1. \A r \in Runs : status[r] # "absent" /\ Consented(r) => Consented(r)'
  BY DEF Consented
<1>2. \A r \in Runs : actions'[r] # <<>> => Consented(r)'
  BY <1>1 DEF InHand, Untouched
<1>3. \A r \in Runs : Reached(stages'[r]) => actions'[r] # <<>>
  BY DEF InHand
<1>4. ASSUME NEW q \in Procs \ {p}
      PROVE  Holds(q)'
  <2>1. CASE job[q].pc \in Advancing
    <3>1. job[q].run \in Runs /\ status[job[q].run] # "absent"
      BY <2>1, OnARun DEF Located, Advancing, AtActions, OnTheWay
    <3>2. held = q => held \notin {p, Nobody}
      BY FactoryAssumption DEF Procs
    <3>3. Holds(q)
      BY DEF InHand
    <3>4. QED
      BY <1>1, <2>1, <3>1, <3>2, <3>3 DEF Holds
  <2>2. CASE job[q].pc \notin Advancing
    <3>1. Holds(q)
      BY DEF InHand
    <3>2. QED
      BY <2>2, <3>1 DEF Holds, Advancing, AtActions, OnTheWay
  <2>3. QED
    BY <2>1, <2>2
<1>5. QED
  BY <1>2, <1>3, <1>4 DEF InHand

\* What a step of p leaves of AtWork: where there are actions there are as
\* many as before, none is proposed again, and what was carried out stays so.
LEMMA WorkKept ==
  ASSUME TypeOK, TypeOK', Located, InHand, AtWork, NEW p \in Procs,
         \A q \in Procs \ {p} : job'[q] = job[q],
         \A r \in Runs : actions[r] # <<>> =>
           /\ Len(actions'[r]) = Len(actions[r])
           /\ \A i \in DOMAIN actions[r] :
                actions'[r][i].status = "proposed" => actions[r][i].status = "proposed",
         carried \subseteq carried',
         \A r \in Runs : status'[r] = "execution_completed" =>
           status[r] = "execution_completed" \/ NonePending(r),
         \A r \in Runs : Finished(stages'[r]) =>
           Finished(stages[r]) \/ (actions[r] # <<>> /\ AllCarried(r)),
         Counts(p)'
  PROVE  AtWork'
<1>0. /\ \A r \in Runs : actions[r] \in Seq(Action) /\ actions'[r] \in Seq(Action)
      /\ \A r \in Runs : actions[r] # <<>> => DOMAIN actions'[r] = DOMAIN actions[r]
      /\ \A r \in Runs : actions[r] # <<>> => actions'[r] # <<>>
  <2>1. \A r \in Runs : actions[r] \in Seq(Action) /\ actions'[r] \in Seq(Action)
    BY DEF TypeOK, Action
  <2>2. ASSUME NEW r \in Runs, actions[r] # <<>>
        PROVE  DOMAIN actions'[r] = DOMAIN actions[r] /\ actions'[r] # <<>>
    <3>1. Len(actions[r]) # 0 /\ Len(actions'[r]) = Len(actions[r])
      BY <2>1, <2>2
    <3>2. QED
      BY <2>1, <3>1
  <2>3. QED
    BY <2>1, <2>2
<1>1. ASSUME NEW q \in Procs \ {p}
      PROVE  Counts(q)'
  <2>1. CASE job[q].pc \in AtActions
    <3>1. job[q].run \in Runs
      BY <2>1, OnARun DEF AtActions, OnTheWay
    <3>2. actions[job[q].run] # <<>>
      BY <2>1 DEF InHand, Holds
    <3>3. Counts(q)
      BY DEF AtWork
    <3>4. QED
      BY <1>0, <2>1, <3>1, <3>2, <3>3 DEF Counts
  <2>2. CASE job[q].pc \notin AtActions
    BY <2>2 DEF Counts
  <2>3. QED
    BY <2>1, <2>2
<1>2. ASSUME NEW r \in Runs, status'[r] = "execution_completed"
      PROVE  NonePending(r)'
  <2>1. NonePending(r)
    BY <1>2 DEF AtWork
  <2>2. QED
    BY <1>0, <2>1 DEF NonePending
<1>3. ASSUME NEW r \in Runs, Finished(stages'[r])
      PROVE  AllCarried(r)'
  <2>1. actions[r] # <<>> /\ AllCarried(r)
    <3>1. CASE Finished(stages[r])
      BY <3>1, FinishedIsReached
         DEF InHand, AtWork, CompletedWasCarriedOut, StageIs, Finished, AllCarried
    <3>2. QED
      BY <1>3, <3>1
  <2>2. QED
    BY <1>0, <2>1 DEF AllCarried
<1>4. CompletedWasCarriedOut'
  BY <1>3 DEF CompletedWasCarriedOut, StageIs, Finished, AllCarried
<1>5. QED
  BY <1>1, <1>2, <1>4 DEF AtWork

\* What holds of runs by the book, together.
Good == Whole /\ InHand /\ AtWork

\* Steps that write no row: only p's own place can be wrong.
LEMMA GoodKept ==
  ASSUME TypeOK, TypeOK', Located, Untouched, Good, NEW p \in Procs,
         \A q \in Procs \ {p} : job'[q] = job[q] /\ (held = q => held' = q),
         UNCHANGED <<status, mode, stages, actions, approved, carried>>,
         Holds(p)', Counts(p)'
  PROVE  Good'
<1>1. InHand'
  BY HandKept DEF Good
<1>2. AtWork'
  BY WorkKept DEF Good
<1>3. QED
  BY <1>1, <1>2 DEF Good, Whole

\* Steps that change no action, but stages and statuses.
LEMMA GoodKeptStages ==
  ASSUME TypeOK, TypeOK', Located, Untouched, Good, NEW p \in Procs,
         \A q \in Procs \ {p} : job'[q] = job[q] /\ (held = q => held' = q),
         UNCHANGED <<mode, actions, carried>>, approved \subseteq approved',
         \A r \in Runs : Reached(stages'[r]) => Reached(stages[r]) \/ actions[r] # <<>>,
         \A r \in Runs : status'[r] = "execution_completed" =>
           status[r] = "execution_completed" \/ NonePending(r),
         \A r \in Runs : Finished(stages'[r]) =>
           Finished(stages[r]) \/ (actions[r] # <<>> /\ AllCarried(r)),
         Holds(p)', Counts(p)'
  PROVE  Good'
<1>1. InHand'
  BY HandKept DEF Good
<1>2. AtWork'
  BY WorkKept DEF Good
<1>3. QED
  BY <1>1, <1>2 DEF Good, Whole

\* Steps that give an action of a run another status, and not "proposed".
LEMMA GoodKeptActions ==
  ASSUME TypeOK, TypeOK', Located, Untouched, Good, NEW p \in Procs,
         \A q \in Procs \ {p} : job'[q] = job[q] /\ (held = q => held' = q),
         NEW r \in Runs, NEW i \in Nat, NEW st \in ActionStatus \ {"proposed"},
         SetAction(r, i, st),
         UNCHANGED <<status, mode, stages, approved>>, carried \subseteq carried',
         Holds(p)', Counts(p)'
  PROVE  Good'
<1>0. actions \in [Runs -> Seq(Action)] /\ actions' \in [Runs -> Seq(Action)]
  BY DEF TypeOK, Action
<1>1. \A q \in Runs :
        /\ Len(actions'[q]) = Len(actions[q])
        /\ \A j \in DOMAIN actions[q] :
             actions'[q][j].status = "proposed" => actions[q][j].status = "proposed"
  <2>1. \A q \in Runs :
          /\ Len(actions'[q]) = Len(actions[q])
          /\ \A j \in DOMAIN actions[q] :
               actions'[q][j].status = IF q = r /\ j = i THEN st ELSE actions[q][j].status
    BY <1>0, SetActionRows
  <2>2. QED
    BY <2>1
<1>2. \A q \in Runs : actions'[q] = <<>> <=> actions[q] = <<>>
  <2>1. ASSUME NEW s \in Seq(Action)
        PROVE  s = <<>> <=> Len(s) = 0
    OBVIOUS
  <2>2. QED
    BY <1>0, <1>1, <2>1
<1>3. InHand'
  BY <1>2, HandKept DEF Good
<1>4. AtWork'
  BY <1>1, WorkKept DEF Good
<1>5. QED
  BY <1>1, <1>3, <1>4 DEF Good, Whole

\* A step of a process that is free to write takes the database from nobody
\* else.
LEMMA NobodyRobbed ==
  ASSUME NEW p \in Procs, Free(p), held' \in {p, Nobody, held}
  PROVE  \A q \in Procs \ {p} : held = q => held' = q
BY FactoryAssumption DEF Free, Procs

\* A run that is begun has nothing that could be wrong.
LEMMA GoodInsert ==
  ASSUME TypeOK, TypeOK', Located, Untouched, Good, NEW p \in Procs, Free(p),
         NEW i, NEW m, Insert(p, i, m), UNCHANGED <<stages, actions, approved, carried>>
  PROVE  Good'
<1>1. PICK r \in Runs :
        /\ status[r] = "absent"
        /\ status' = [status EXCEPT ![r] = "running"]
        /\ mode' = [mode EXCEPT ![r] = m]
        /\ job' = [job EXCEPT ![p] = [NoJob EXCEPT !.pc = "roles", !.run = r,
                                                   !.start = TRUE]]
        /\ held' = IF RoleBackend THEN Nobody ELSE p
  BY DEF Insert
<1>2. \A q \in Procs \ {p} : job'[q] = job[q] /\ (held = q => held' = q)
  BY <1>1, NobodyRobbed DEF TypeOK
<1>3. job'[p].pc = "roles"
  BY <1>1 DEF NoJob, TypeOK
<1>4. Holds(p)' /\ Counts(p)'
  BY <1>3 DEF Holds, Counts, Advancing, AtActions, OnTheWay
<1>5. \A q \in Runs : status[q] # "absent" => mode'[q] = mode[q]
  BY <1>1 DEF TypeOK
<1>6. \A q \in Runs : status'[q] = "execution_completed" => status[q] = "execution_completed"
  BY <1>1 DEF TypeOK
<1>7. InHand'
  BY <1>2, <1>4, <1>5, HandKept DEF Good
<1>8. AtWork'
  BY <1>2, <1>4, <1>6, WorkKept DEF Good
<1>9. QED
  BY <1>7, <1>8 DEF Good, Whole

-----------------------------------------------------------------------------
(* Then the steps, one by one.                                             *)

\* What is known of a process at work on a run.
LEMMA AtHand ==
  ASSUME TypeOK, Located, Good, NEW p \in Procs, job[p].pc \in Advancing
  PROVE  /\ job[p].run \in Runs /\ job[p] \in Jobs
         /\ Consented(job[p].run) /\ status[job[p].run] # "absent"
         /\ Holds(p) /\ Counts(p)
         /\ actions[job[p].run] \in Seq(Action)
         /\ stages[job[p].run] \in Seq(Stage)
<1>1. job[p].run \in Runs /\ job[p] \in Jobs
  BY OnARun DEF Advancing, AtActions, OnTheWay
<1>2. status[job[p].run] # "absent"
  BY <1>1, FactoryAssumption DEF Located, None
<1>3. Holds(p) /\ Counts(p)
  BY DEF Good, InHand, AtWork
<1>4. QED
  BY <1>1, <1>2, <1>3 DEF Holds, TypeOK, Action, Stage

\* Roles end with the execution blocked, or go on with the database held.
LEMMA GoodFinishRoles ==
  ASSUME TypeOK, TypeOK', Located, Untouched, Good, NEW p \in Procs, FinishRoles(p)
  PROVE  Good'
<1> DEFINE r == job[p].run
           s1 == SetStage(stages[r], "approval", "waiting")
           s2 == SetStage(s1, "execution", "blocked")
           s3 == SetStage(s2, "learning", "pending")
<1>1. r \in Runs /\ stages[r] \in Seq(Stage)
  BY OnARun DEF FinishRoles, At, TypeOK, Stage
<1>2. /\ {"approval", "execution", "learning"} \subseteq StageNames
      /\ {"waiting", "blocked", "pending"} \subseteq StageStatus
  BY DEF StageNames, StageStatus
<1>3. s1 \in Seq(Stage) /\ (Reached(s1) => Reached(stages[r]))
                        /\ (Finished(s1) => Finished(stages[r]))
  BY <1>1, <1>2, SetStageRows, ReachedBySet, FinishedBySet
<1>4. s2 \in Seq(Stage) /\ (Reached(s2) => Reached(s1)) /\ (Finished(s2) => Finished(s1))
  <2> HIDE DEF s1
  <2>1. QED
    BY <1>2, <1>3, SetStageRows, ReachedBySet, FinishedBySet
<1>5. (Reached(s3) => Reached(s2)) /\ (Finished(s3) => Finished(s2))
  <2> HIDE DEF s2
  <2>1. QED
    BY <1>2, <1>4, ReachedBySet, FinishedBySet
<1>6. s3 = StopBeforeApproval(stages[r])
  BY DEF StopBeforeApproval
<1> HIDE DEF s1, s2, s3
<1>7. \A q \in Runs : /\ Reached(stages'[q]) => Reached(stages[q])
                      /\ Finished(stages'[q]) => Finished(stages[q])
  <2>1. stages' = stages \/ stages' = [stages EXCEPT ![r] = s3]
    BY <1>6 DEF FinishRoles
  <2>2. \A q \in Runs : stages'[q] = stages[q] \/ (q = r /\ stages'[q] = s3)
    BY <2>1 DEF TypeOK
  <2>3. QED
    BY <1>3, <1>4, <1>5, <2>2
<1>8. \A q \in Procs \ {p} : job'[q] = job[q] /\ (held = q => held' = q)
  BY NobodyRobbed DEF FinishRoles, At, Done, Goto, TypeOK
<1>9. Holds(p)' /\ Counts(p)'
  <2>1. CASE mode[r] = "review_first"
    <3>1. job'[p].pc = "idle"
      BY <2>1 DEF FinishRoles, Done, NoJob, TypeOK
    <3>2. QED
      BY <3>1 DEF Holds, Counts, Advancing, AtActions, OnTheWay
  <2>2. CASE mode[r] # "review_first"
    <3>1. job'[p].pc = "look" /\ job'[p].run = r /\ held' = p /\ mode' = mode
      BY <2>2 DEF FinishRoles, Goto, TypeOK, Jobs
    <3>2. QED
      BY <2>2, <3>1 DEF Holds, Counts, Consented, AtActions, OnTheWay
  <2>3. QED
    BY <2>1, <2>2
<1>10. \A q \in Runs : status'[q] = "execution_completed" => status[q] = "execution_completed"
  BY DEF FinishRoles, TypeOK
<1>11. QED
  BY <1>7, <1>8, <1>9, <1>10, GoodKeptStages DEF FinishRoles, history

\* What is looked at is all of the run, or nothing while the database is held.
LEMMA GoodLook ==
  ASSUME TypeOK, TypeOK', Located, Untouched, Good, NEW p \in Procs, Look(p)
  PROVE  Good'
<1> DEFINE r == job[p].run
<1>1. /\ r \in Runs /\ job[p] \in Jobs /\ Consented(r) /\ Holds(p)
      /\ actions[r] \in Seq(Action) /\ job[p].pc = "look"
  BY AtHand DEF Look, At, Advancing, AtActions, OnTheWay
<1>2. \A q \in Procs \ {p} : job'[q] = job[q] /\ (held = q => held' = q)
  BY DEF Look, TypeOK
<1>3. Holds(p)' /\ Counts(p)'
  <2>1. CASE actions[r] # <<>>
    <3>1. /\ job'[p].pc = "advance" /\ job'[p].run = r /\ job'[p].at = 1
          /\ job'[p].last = Len(actions[r])
      BY <1>1, <2>1 DEF Look, TypeOK, Jobs
    <3>2. Len(actions[r]) # 0 /\ DOMAIN actions[r] = 1 .. Len(actions[r])
          /\ Len(actions[r]) \in Nat
      BY <1>1, <2>1
    <3>3. Holds(p)'
      BY <1>1, <2>1, <3>1 DEF Look, Holds, Consented, rows, history
    <3>4. \A i \in DOMAIN actions[r] : ~(i < 1)
      BY <3>2
    <3>5. actions' = actions /\ 1 > 0
      BY DEF Look, rows
    <3>6. Counts(p)'
      BY <3>1, <3>2, <3>4, <3>5 DEF Counts
    <3>7. QED
      BY <3>3, <3>6
  <2>2. CASE actions[r] = <<>>
    <3>1. job'[p].pc = "prepare" /\ job'[p].run = r
      BY <1>1, <2>2 DEF Look, TypeOK, Jobs
    <3>2. QED
      BY <1>1, <2>2, <3>1
         DEF Look, Holds, Counts, Consented, AtActions, OnTheWay, rows, history
  <2>3. QED
    BY <2>1, <2>2
<1>4. QED
  BY <1>2, <1>3, GoodKept DEF Look, rows, history

\* Actions are prepared where there are none.
LEMMA GoodPrepare ==
  ASSUME TypeOK, TypeOK', Located, Untouched, Good, NEW p \in Procs, Prepare(p)
  PROVE  Good'
<1> DEFINE r == job[p].run
           fresh == [i \in DOMAIN Pack[r] |-> [kind |-> Pack[r][i], status |-> "proposed"]]
<1>1. /\ r \in Runs /\ job[p] \in Jobs /\ Consented(r) /\ status[r] # "absent"
      /\ actions[r] = <<>> /\ held = p
  BY AtHand DEF Prepare, At, Advancing, AtActions, OnTheWay, Holds
<1>2. fresh \in Seq(Action) /\ Len(fresh) = Len(Pack[r]) /\ Len(Pack[r]) \in Nat \ {0}
  BY <1>1, BatchIsFresh
<1>3. actions' = [actions EXCEPT ![r] = actions[r] \o fresh]
  BY DEF Prepare
<1> HIDE DEF fresh
<1>4. /\ actions'[r] = fresh
      /\ \A q \in Runs \ {r} : actions'[q] = actions[q]
  BY <1>1, <1>2, <1>3 DEF TypeOK
<1>5. fresh # <<>> /\ DOMAIN fresh = 1 .. Len(Pack[r])
  BY <1>2
<1>6. \A q \in Procs \ {p} : job'[q] = job[q] /\ (held = q => held' = q)
  BY NobodyRobbed DEF Prepare, At, TypeOK
<1>7. /\ job'[p].pc = "advance" /\ job'[p].run = r /\ job'[p].at = Len(actions[r]) + 1
      /\ job'[p].last = Len(actions[r]) + Len(Pack[r])
  BY <1>1 DEF Prepare, TypeOK, Jobs
<1>8. job'[p].at = 1 /\ job'[p].last = Len(Pack[r])
  BY <1>1, <1>2, <1>7
<1>9. Holds(p)'
  <2>1. approved' = approved /\ mode' = mode
    BY DEF Prepare, history
  <2>2. QED
    BY <1>1, <1>4, <1>5, <1>7, <2>1 DEF Holds, Consented
<1>10. Counts(p)'
  <2>1. \A i \in DOMAIN fresh : ~(i < 1)
    BY <1>2, <1>5
  <2>2. QED
    <3>1. DOMAIN actions'[r] = DOMAIN fresh /\ Len(actions'[r]) = Len(Pack[r]) /\ 1 > 0
      BY <1>2, <1>4
    <3>2. Len(Pack[r]) # 0
      BY <1>2
    <3>3. QED
      BY <1>7, <1>8, <2>1, <3>1, <3>2 DEF Counts
<1>11. InHand'
  BY <1>1, <1>4, <1>5, <1>6, <1>9, HandKept DEF Good, Prepare, history
<1>12. AtWork'
  BY <1>1, <1>4, <1>6, <1>10, WorkKept DEF Good, Prepare, history
<1>13. Whole'
  BY <1>2, <1>4 DEF Good, Whole
<1>14. QED
  BY <1>11, <1>12, <1>13 DEF Good

\* The action a process is at is one of its run's.
LEMMA AtIsAnAction ==
  ASSUME TypeOK, Located, Good, NEW p \in Procs, job[p].pc \in AtActions,
         job[p].pc = "advance" => job[p].at <= job[p].last
  PROVE  job[p].at \in DOMAIN actions[job[p].run] /\ job[p].at \in Nat
<1>1. /\ job[p].run \in Runs /\ job[p] \in Jobs /\ Counts(p)
      /\ actions[job[p].run] \in Seq(Action)
  BY AtHand DEF Advancing
<1>2. job[p].at \in Nat
  BY <1>1 DEF Jobs
<1>3. CASE job[p].pc = "advance"
  <2>1. job[p].last = Len(actions[job[p].run]) /\ job[p].at > 0
    BY <1>1, <1>3 DEF Counts
  <2>2. QED
    BY <1>1, <1>2, <1>3, <2>1
<1>4. CASE job[p].pc # "advance"
  BY <1>1, <1>2, <1>4 DEF Counts
<1>5. QED
  BY <1>3, <1>4

\* An action gets another status, and not "proposed": its run is as long, and
\* no more of it waits.
LEMMA NoMoreProposed ==
  ASSUME TypeOK, NEW r \in Runs, NEW i \in Nat, NEW st \in ActionStatus \ {"proposed"},
         SetAction(r, i, st)
  PROVE  /\ DOMAIN actions'[r] = DOMAIN actions[r] /\ Len(actions'[r]) = Len(actions[r])
         /\ actions[r] # <<>> => actions'[r] # <<>>
         /\ \A j \in DOMAIN actions[r] :
              actions'[r][j].status = "proposed" => actions[r][j].status = "proposed"
         /\ i \in DOMAIN actions[r] => actions'[r][i].status = st
<1>1. actions \in [Runs -> Seq(Action)]
  BY DEF TypeOK, Action
<1>2. /\ actions' \in [Runs -> Seq(Action)]
      /\ \A q \in Runs :
           /\ Len(actions'[q]) = Len(actions[q])
           /\ \A j \in DOMAIN actions[q] :
                actions'[q][j].status = IF q = r /\ j = i THEN st
                                        ELSE actions[q][j].status
  BY <1>1, SetActionRows
<1>3. \A s \in Seq(Action) : DOMAIN s = 1 .. Len(s) /\ (s = <<>> <=> Len(s) = 0)
  OBVIOUS
<1>4. actions[r] \in Seq(Action) /\ actions'[r] \in Seq(Action)
  BY <1>1, <1>2
<1>5. QED
  BY <1>2, <1>3, <1>4

\* A process at an action that goes on with it.
LEMMA StayKept ==
  ASSUME TypeOK, Located, Good, NEW p \in Procs, job[p].pc \in AtActions,
         job[p].at \in DOMAIN actions[job[p].run],
         /\ job'[p].pc \in AtActions \ {"advance"} /\ job'[p].run = job[p].run
         /\ job'[p].at = job[p].at /\ job'[p].last = job[p].last
         /\ job'[p].tally = job[p].tally,
         UNCHANGED <<mode, approved, carried>>,
         actions'[job[p].run] # <<>>,
         Len(actions'[job[p].run]) = Len(actions[job[p].run]),
         DOMAIN actions'[job[p].run] = DOMAIN actions[job[p].run],
         \A j \in DOMAIN actions[job[p].run] :
           actions'[job[p].run][j].status = "proposed" =>
             actions[job[p].run][j].status = "proposed"
  PROVE  Holds(p)' /\ Counts(p)'
<1>1. Consented(job[p].run) /\ Counts(p)
  BY AtHand DEF Advancing
<1>2. Holds(p)'
  BY <1>1 DEF Holds, Consented, AtActions, OnTheWay
<1>3. Counts(p)'
  BY <1>1 DEF Counts
<1>4. QED
  BY <1>2, <1>3

\* A process that is through with an action has counted what became of it.
LEMMA PassedKept ==
  ASSUME TypeOK, Located, Good, NEW p \in Procs, job[p].pc \in AtActions,
         job[p].at \in DOMAIN actions[job[p].run],
         NEW more \in SUBSET {"pending", "blocked"}, Passed(p, more),
         UNCHANGED <<mode, approved>>, carried \subseteq carried',
         actions'[job[p].run] # <<>>,
         Len(actions'[job[p].run]) = Len(actions[job[p].run]),
         DOMAIN actions'[job[p].run] = DOMAIN actions[job[p].run],
         \A j \in DOMAIN actions[job[p].run] :
           actions'[job[p].run][j].status = "proposed" =>
             actions[job[p].run][j].status = "proposed",
         "pending" \notin more => actions'[job[p].run][job[p].at].status # "proposed",
         more = {} => <<job[p].run, job[p].at>> \in carried'
  PROVE  Holds(p)' /\ Counts(p)'
<1> DEFINE r == job[p].run
           i == job[p].at
<1>1. /\ r \in Runs /\ job[p] \in Jobs /\ Consented(r) /\ Counts(p)
      /\ actions[r] \in Seq(Action)
  BY AtHand DEF Advancing
<1>2. CASE job[p].last = 0
  <2>1. job'[p].pc = "idle"
    BY <1>2, PassedOn DEF NoJob
  <2>2. QED
    BY <2>1 DEF Holds, Counts, Advancing, AtActions, OnTheWay
<1>3. CASE job[p].last # 0
  <2>1. /\ job'[p].pc = "advance" /\ job'[p].run = r /\ job'[p].at = i + 1
        /\ job'[p].last = job[p].last /\ job'[p].tally = job[p].tally \cup more
    BY <1>3, PassedOn
  <2>2. Holds(p)'
    BY <1>1, <2>1 DEF Holds, Consented
  <2>3. i \in Nat /\ DOMAIN actions[r] \subseteq Nat
    BY <1>1 DEF Jobs
  <2>4. i + 1 > 0 /\ \A j \in DOMAIN actions[r] : j < i + 1 => j < i \/ j = i
    BY <2>3
  <2>5. /\ "pending" \notin job'[p].tally => "pending" \notin job[p].tally
                                             /\ "pending" \notin more
        /\ job'[p].tally = {} => job[p].tally = {} /\ more = {}
    BY <2>1
  <2>6. \A j \in DOMAIN actions[r] : j < i + 1 =>
          /\ "pending" \notin job'[p].tally => actions'[r][j].status # "proposed"
          /\ job'[p].tally = {} => <<r, j>> \in carried'
    BY <1>1, <1>3, <2>4, <2>5 DEF Counts
  <2>7. Counts(p)'
    <3>1. job[p].last = Len(actions'[r])
      BY <1>1, <1>3 DEF Counts
    <3>2. QED
      BY <1>3, <2>1, <2>4, <2>6, <3>1 DEF Counts
  <2>8. QED
    BY <2>2, <2>7
<1>4. QED
  BY <1>2, <1>3

\* What may not be done, or does not need to be, is counted.
LEMMA GoodAsk ==
  ASSUME TypeOK, TypeOK', Located, Untouched, Good, NEW p \in Procs, Ask(p)
  PROVE  Good'
<1>1. job[p].pc \in AtActions /\ job[p] \in Jobs
  BY DEF Ask, At, AtActions, OnTheWay, TypeOK
<1>2. job[p].at \in DOMAIN actions[job[p].run] /\ actions[job[p].run] # <<>>
  BY <1>1, AtIsAnAction, AtHand DEF Ask, Advancing, Holds
<1>3. UNCHANGED <<status, mode, stages, actions, approved, carried, held>>
  BY DEF Ask, rows, history
<1>4. Holds(p)' /\ Counts(p)'
  <2>1. CASE Goto(p, "read")
    <3>1. /\ job'[p].pc = "read" /\ job'[p].run = job[p].run /\ job'[p].at = job[p].at
          /\ job'[p].last = job[p].last /\ job'[p].tally = job[p].tally
      BY <1>1, <2>1 DEF Goto, TypeOK, Jobs
    <3>2. job'[p].pc \in AtActions \ {"advance"}
      BY <3>1 DEF AtActions, OnTheWay
    <3>3. QED
      BY <1>1, <1>2, <1>3, <3>1, <3>2, StayKept
  <2>2. CASE Passed(p, {"pending"})
    BY <1>1, <1>2, <1>3, <2>2, PassedKept
  <2>3. QED
    BY <2>1, <2>2 DEF Ask
<1>5. \A q \in Procs \ {p} : job'[q] = job[q] /\ (held = q => held' = q)
  BY <1>3, OnTheSameRun
<1>6. QED
  BY <1>3, <1>4, <1>5, GoodKept

\* So is what the row turns away.
LEMMA GoodReadRow ==
  ASSUME TypeOK, TypeOK', Located, Untouched, Good, NEW p \in Procs, ReadRow(p)
  PROVE  Good'
<1> DEFINE st == actions[job[p].run][job[p].at].status
<1>1. job[p].pc \in AtActions /\ job[p].pc # "advance" /\ job[p] \in Jobs
  BY DEF ReadRow, At, AtActions, OnTheWay, TypeOK
<1>2. job[p].at \in DOMAIN actions[job[p].run] /\ actions[job[p].run] # <<>>
  BY <1>1, AtIsAnAction, AtHand DEF Advancing, Holds
<1>3. UNCHANGED <<status, mode, stages, actions, approved, carried, held>>
  BY DEF ReadRow, rows, history
<1>4. Holds(p)' /\ Counts(p)'
  <2>1. CASE \/ Goto(p, "approve")
             \/ job' = [job EXCEPT ![p].pc = "claim", ![p].seen = st]
    <3>1. /\ job'[p].pc \in {"approve", "claim"}
          /\ job'[p].run = job[p].run /\ job'[p].at = job[p].at
          /\ job'[p].last = job[p].last /\ job'[p].tally = job[p].tally
      <4> HIDE DEF st
      <4>1. CASE Goto(p, "approve")
        BY <1>1, <4>1 DEF Goto, TypeOK, Jobs
      <4>2. CASE job' = [job EXCEPT ![p].pc = "claim", ![p].seen = st]
        BY <1>1, <4>2 DEF TypeOK, Jobs
      <4>3. QED
        BY <2>1, <4>1, <4>2
    <3>2. job'[p].pc \in AtActions \ {"advance"}
      BY <3>1 DEF AtActions, OnTheWay
    <3>3. QED
      BY <1>1, <1>2, <1>3, <3>1, <3>2, StayKept
  <2>2. CASE Passed(p, TurnedAway(st))
    <3>1. /\ TurnedAway(st) \in SUBSET {"pending", "blocked"} /\ TurnedAway(st) # {}
          /\ "pending" \notin TurnedAway(st) => st # "proposed"
      BY DEF TurnedAway
    <3>2. QED
      BY <1>1, <1>2, <1>3, <2>2, <3>1, PassedKept
  <2>3. QED
    BY <2>1, <2>2 DEF ReadRow
<1>5. \A q \in Procs \ {p} : job'[q] = job[q] /\ (held = q => held' = q)
  BY <1>3, OnTheSameRun
<1>6. QED
  BY <1>3, <1>4, <1>5, GoodKept

\* An approval puts nothing back into the queue.
LEMMA GoodApproveRow ==
  ASSUME TypeOK, TypeOK', Located, Untouched, Good, NEW p \in Procs, ApproveRow(p)
  PROVE  Good'
<1>1. job[p].pc \in AtActions /\ job[p].pc # "advance" /\ job[p] \in Jobs
  BY DEF ApproveRow, At, AtActions, OnTheWay, TypeOK
<1>2. /\ job[p].at \in DOMAIN actions[job[p].run] /\ job[p].at \in Nat
      /\ actions[job[p].run] # <<>> /\ job[p].run \in Runs
  BY <1>1, AtIsAnAction, AtHand DEF Advancing, Holds
<1>3. SetAction(job[p].run, job[p].at, "approved") /\ "approved" \in ActionStatus \ {"proposed"}
  BY DEF ApproveRow, ActionStatus
<1>4. UNCHANGED <<status, mode, stages, approved, carried>>
  BY DEF ApproveRow, history
<1>5. Holds(p)' /\ Counts(p)'
  <2>1. /\ job'[p].pc = "reread" /\ job'[p].run = job[p].run /\ job'[p].at = job[p].at
        /\ job'[p].last = job[p].last /\ job'[p].tally = job[p].tally
    BY <1>1 DEF ApproveRow, Goto, TypeOK, Jobs
  <2>2. job'[p].pc \in AtActions \ {"advance"}
    BY <2>1 DEF AtActions, OnTheWay
  <2>3. QED
    BY <1>1, <1>2, <1>3, <1>4, <2>1, <2>2, NoMoreProposed, StayKept
<1>6. \A q \in Procs \ {p} : job'[q] = job[q] /\ (held = q => held' = q)
  BY OnTheSameRun, NobodyRobbed DEF ApproveRow, At
<1>7. QED
  BY <1>2, <1>3, <1>4, <1>5, <1>6, GoodKeptActions

\* A claim takes an action from the queue, or finds that another one has.
LEMMA GoodClaim ==
  ASSUME TypeOK, TypeOK', Located, Untouched, Good, NEW p \in Procs, Claim(p)
  PROVE  Good'
<1>1. job[p].pc \in AtActions /\ job[p].pc # "advance" /\ job[p] \in Jobs
  BY DEF Claim, At, AtActions, OnTheWay, TypeOK
<1>2. /\ job[p].at \in DOMAIN actions[job[p].run] /\ job[p].at \in Nat
      /\ actions[job[p].run] # <<>> /\ job[p].run \in Runs
  BY <1>1, AtIsAnAction, AtHand DEF Advancing, Holds
<1>3. UNCHANGED <<status, mode, stages, approved, carried>>
  BY DEF Claim, history
<1>4. \A q \in Procs \ {p} : job'[q] = job[q] /\ (held = q => held' = q)
  BY OnTheSameRun, NobodyRobbed DEF Claim, At
<1>5. CASE /\ SetAction(job[p].run, job[p].at, "executing")
           /\ job' = [job EXCEPT ![p].pc = "work", ![p].seen = "proposed",
                                 ![p].granted = FALSE]
  <2>1. "executing" \in ActionStatus \ {"proposed"}
    BY DEF ActionStatus
  <2>2. /\ job'[p].pc = "work" /\ job'[p].run = job[p].run /\ job'[p].at = job[p].at
        /\ job'[p].last = job[p].last /\ job'[p].tally = job[p].tally
    BY <1>1, <1>5 DEF TypeOK, Jobs
  <2>3. job'[p].pc \in AtActions \ {"advance"}
    BY <2>2 DEF AtActions
  <2>4. Holds(p)' /\ Counts(p)'
    BY <1>1, <1>2, <1>3, <1>5, <2>1, <2>2, <2>3, NoMoreProposed, StayKept
  <2>5. QED
    BY <1>2, <1>3, <1>4, <1>5, <2>1, <2>4, GoodKeptActions
<1>6. CASE Passed(p, {"pending"}) /\ UNCHANGED actions
  <2>1. Holds(p)' /\ Counts(p)'
    BY <1>1, <1>2, <1>3, <1>6, PassedKept
  <2>2. QED
    BY <1>3, <1>4, <1>6, <2>1, GoodKept
<1>7. QED
  BY <1>5, <1>6 DEF Claim

\* What is settled was carried out, or is counted as blocked.
LEMMA GoodSettle ==
  ASSUME TypeOK, TypeOK', Located, Untouched, Good, NEW p \in Procs, Settle(p)
  PROVE  Good'
<1> DEFINE r == job[p].run
           i == job[p].at
<1>1. job[p].pc \in AtActions /\ job[p].pc # "advance" /\ job[p] \in Jobs
  BY DEF Settle, At, AtActions, TypeOK
<1>2. i \in DOMAIN actions[r] /\ i \in Nat /\ actions[r] # <<>> /\ r \in Runs
  BY <1>1, AtIsAnAction, AtHand DEF Advancing, Holds
<1>3. PICK res \in {"executed", "failed", "blocked"} :
        /\ SetAction(r, i, res)
        /\ carried' = IF res = "failed" THEN carried ELSE carried \cup {<<r, i>>}
        /\ Passed(p, IF res = "failed" THEN {"blocked"} ELSE {})
  BY DEF Settle, Results
<1>4. res \in ActionStatus \ {"proposed"}
  BY <1>3 DEF ActionStatus
<1>5. UNCHANGED <<status, mode, stages, approved, held>> /\ carried \subseteq carried'
  BY <1>3 DEF Settle
<1>6. \A q \in Procs \ {p} : job'[q] = job[q] /\ (held = q => held' = q)
  BY <1>5, OnTheSameRun
<1>7. /\ DOMAIN actions'[r] = DOMAIN actions[r] /\ Len(actions'[r]) = Len(actions[r])
      /\ actions'[r] # <<>>
      /\ \A j \in DOMAIN actions[r] :
           actions'[r][j].status = "proposed" => actions[r][j].status = "proposed"
      /\ actions'[r][i].status # "proposed"
  BY <1>2, <1>3, <1>4, NoMoreProposed
<1>8. Holds(p)' /\ Counts(p)'
  <2>1. CASE res = "failed"
    BY <1>1, <1>2, <1>3, <1>5, <1>7, <2>1, PassedKept
  <2>2. CASE res # "failed"
    <3>1. Passed(p, {}) /\ <<r, i>> \in carried'
      BY <1>3, <2>2
    <3>2. QED
      BY <1>1, <1>2, <1>5, <1>7, <3>1, PassedKept
  <2>3. QED
    BY <2>1, <2>2
<1>9. QED
  BY <1>2, <1>3, <1>4, <1>5, <1>6, <1>8, GoodKeptActions

\* A stage says what was counted.
LEMMA GoodFinishAdvance ==
  ASSUME TypeOK, TypeOK', Located, Untouched, Good, NEW p \in Procs, FinishAdvance(p)
  PROVE  Good'
<1> DEFINE r    == job[p].run
           out  == Outcome(job[p].tally)
           ran  == SetStage(stages[r], "execution", out)
           gate == IF mode[r] = "full_autonomous" THEN "completed" ELSE "waiting"
           s2   == SetStage(ran, "approval", gate)
           s3   == SetStage(s2, "learning", "pending")
<1>1. /\ r \in Runs /\ job[p] \in Jobs /\ Holds(p) /\ Counts(p)
      /\ actions[r] \in Seq(Action) /\ stages[r] \in Seq(Stage)
      /\ job[p].pc = "advance" /\ job[p].at > job[p].last
  BY AtHand DEF FinishAdvance, At, Advancing, AtActions, OnTheWay
<1>2. actions[r] # <<>>
  BY <1>1 DEF Holds, AtActions, OnTheWay
<1>3. /\ "pending" \notin job[p].tally => NonePending(r)
      /\ job[p].tally = {} => AllCarried(r)
  <2>1. job[p].last = Len(actions[r]) /\ job[p].last \in Nat /\ job[p].at \in Nat
    BY <1>1 DEF Counts, Jobs, AtActions, OnTheWay
  <2>2. \A i \in DOMAIN actions[r] : i < job[p].at
    BY <1>1, <2>1
  <2>3. QED
    BY <1>1, <1>2, <2>2 DEF Counts, AtActions, OnTheWay, NonePending, AllCarried
<1>4. /\ out \in StageStatus /\ gate \in StageStatus /\ "pending" \in StageStatus
      /\ {"approval", "execution", "learning"} \subseteq StageNames
      /\ out = "completed" => job[p].tally = {}
  <2>1. job[p].tally \subseteq {"pending", "blocked"}
    BY <1>1 DEF Jobs
  <2>2. QED
    BY <2>1 DEF Outcome, StageStatus, StageNames
<1>5. \/ stages' = [stages EXCEPT ![r] = s3]
      \/ stages' = [stages EXCEPT ![r] = ran]
  BY DEF FinishAdvance
<1>6. status' = [status EXCEPT ![r] = status'[r]]
      /\ (status'[r] = "execution_completed" => "pending" \notin job[p].tally)
  BY <1>1, <1>4 DEF FinishAdvance, Started, TypeOK
<1> HIDE DEF out, gate
<1>7. ran \in Seq(Stage) /\ (Finished(ran) => Finished(stages[r]) \/ out = "completed")
  BY <1>1, <1>4, SetStageRows, FinishedBySet
<1> HIDE DEF ran
<1>8. s2 \in Seq(Stage) /\ (Finished(s2) => Finished(ran))
  BY <1>4, <1>7, SetStageRows, FinishedBySet
<1> HIDE DEF s2
<1>9. Finished(s3) => Finished(s2)
  BY <1>4, <1>8, FinishedBySet
<1> HIDE DEF s3
<1>10. \A q \in Runs : \/ stages'[q] = stages[q]
                       \/ q = r /\ (Finished(stages'[r]) => Finished(stages[r]) \/ AllCarried(r))
  BY <1>1, <1>3, <1>4, <1>5, <1>7, <1>8, <1>9 DEF TypeOK
<1>11. \A q \in Runs : Reached(stages'[q]) => Reached(stages[q]) \/ actions[q] # <<>>
  BY <1>2, <1>10
<1>12. \A q \in Runs : Finished(stages'[q]) =>
         Finished(stages[q]) \/ (actions[q] # <<>> /\ AllCarried(q))
  BY <1>2, <1>10
<1>13. \A q \in Runs : status'[q] = "execution_completed" =>
         status[q] = "execution_completed" \/ NonePending(q)
  BY <1>1, <1>3, <1>6 DEF TypeOK
<1>14. \A q \in Procs \ {p} : job'[q] = job[q] /\ (held = q => held' = q)
  BY NobodyRobbed DEF FinishAdvance, At, Done, TypeOK
<1>15. job'[p].pc = "idle"
  BY DEF FinishAdvance, Done, NoJob, TypeOK
<1>16. Holds(p)' /\ Counts(p)'
  BY <1>15 DEF Holds, Counts, Advancing, AtActions, OnTheWay
<1>17. QED
  BY <1>11, <1>12, <1>13, <1>14, <1>16, GoodKeptStages DEF FinishAdvance, history

\* A stage other than the execution is written, by hand or by a command.
LEMMA OtherStage ==
  ASSUME TypeOK, NEW r \in Runs, NEW n \in StageNames \ {"execution"}, NEW st \in StageStatus,
         stages' = [stages EXCEPT ![r] = SetStage(@, n, st)]
  PROVE  \A q \in Runs : /\ Reached(stages'[q]) => Reached(stages[q])
                         /\ Finished(stages'[q]) => Finished(stages[q])
<1>1. stages[r] \in Seq(Stage)
  BY DEF TypeOK, Stage
<1>2. /\ Reached(SetStage(stages[r], n, st)) => Reached(stages[r])
      /\ Finished(SetStage(stages[r], n, st)) => Finished(stages[r])
  BY <1>1, ReachedBySet, FinishedBySet
<1>3. \A q \in Runs : \/ stages'[q] = stages[q]
                      \/ q = r /\ stages'[q] = SetStage(stages[r], n, st)
  BY DEF TypeOK
<1>4. QED
  BY <1>2, <1>3

\* `continue` records other stages than the execution.
LEMMA GoodRecordStage ==
  ASSUME TypeOK, TypeOK', Located, Untouched, Good, NEW p \in Procs, RecordStage(p)
  PROVE  Good'
<1> DEFINE r == job[p].run
<1>1. r \in Runs /\ job[p].stage \in StageNames /\ job[p].pc = "record"
  BY OnARun DEF RecordStage, At, Jobs
<1>2. job[p].stage # "execution"
  BY <1>1 DEF Good, InHand, Holds
<1>3. \A q \in Runs : /\ Reached(stages'[q]) => Reached(stages[q])
                      /\ Finished(stages'[q]) => Finished(stages[q])
  BY <1>1, <1>2, OtherStage DEF RecordStage, StageStatus
<1>4. \A q \in Procs \ {p} : job'[q] = job[q] /\ (held = q => held' = q)
  BY DEF RecordStage, Done, TypeOK
<1>5. job'[p].pc = "idle"
  BY DEF RecordStage, Done, NoJob, TypeOK
<1>6. Holds(p)' /\ Counts(p)'
  BY <1>5 DEF Holds, Counts, Advancing, AtActions, OnTheWay
<1>7. QED
  BY <1>3, <1>4, <1>6, GoodKeptStages DEF RecordStage, history

\* A run that waits in its execution stage has its actions.
LEMMA GoodCycle ==
  ASSUME TypeOK, TypeOK', Located, Untouched, Good, NEW p \in Procs, Cycle(p)
  PROVE  Good'
<1>1. \A q \in Procs \ {p} : job'[q] = job[q] /\ (held = q => held' = q)
  BY DEF Cycle, ProactiveContinue, ProactivePick, TypeOK
<1>2. CASE ProactiveContinue(p)
  <2> DEFINE r == Oldest(ActiveRuns)
  <2>1. r \in Runs /\ StageIs(r, "execution", "waiting")
    BY <1>2, OldestActive DEF ProactiveContinue
  <2>2. Reached(stages[r])
    BY <2>1 DEF StageIs, Reached
  <2>3. actions[r] # <<>> /\ Consented(r)
    BY <2>1, <2>2 DEF Good, InHand
  <2>4. job'[p].pc = "look" /\ job'[p].run = r
    BY <1>2 DEF ProactiveContinue, NoJob, TypeOK
  <2>5. UNCHANGED <<mode, approved, actions>>
    BY <1>2 DEF ProactiveContinue, rows, history
  <2>6. Holds(p)' /\ Counts(p)'
    BY <2>3, <2>4, <2>5 DEF Holds, Counts, Consented, AtActions, OnTheWay
  <2>7. QED
    BY <1>1, <1>2, <2>6, GoodKept DEF ProactiveContinue, rows, history
<1>3. CASE ProactivePick(p)
  <2>1. job'[p].pc = "start"
    BY <1>3 DEF ProactivePick, NoJob, TypeOK
  <2>2. Holds(p)' /\ Counts(p)'
    BY <2>1 DEF Holds, Counts, Advancing, AtActions, OnTheWay
  <2>3. QED
    BY <1>1, <1>3, <2>2, GoodKept DEF ProactivePick, rows, history
<1>4. QED
  BY <1>2, <1>3 DEF Cycle

\* `continue` goes on with an execution that has its actions.
LEMMA GoodContinue ==
  ASSUME TypeOK, TypeOK', Located, Untouched, Good, NEW p \in Procs, Continue(p)
  PROVE  Good'
<1>1. PICK r \in Runs :
        /\ Open(r) # {}
        /\ job' = [job EXCEPT ![p] = ContinueWith(r, stages[r][Oldest(Open(r))].name)]
  BY DEF Continue, Existing
<1> DEFINE i == Oldest(Open(r))
           name == stages[r][i].name
<1>2. i \in DOMAIN stages[r] /\ stages[r][i].status \in {"pending", "waiting"}
  BY <1>1, FirstOpen DEF TypeOK, Stage
<1>3. job'[p] = ContinueWith(r, name) /\ \A q \in Procs \ {p} : job'[q] = job[q]
  BY <1>1 DEF TypeOK
<1>4. UNCHANGED <<held, mode, approved, actions>>
  BY DEF Continue, rows, history
<1>5. CASE name = "execution"
  <2>1. Reached(stages[r])
    BY <1>2, <1>5 DEF Reached
  <2>2. actions[r] # <<>> /\ Consented(r)
    BY <2>1 DEF Good, InHand
  <2>3. job'[p].pc = "look" /\ job'[p].run = r
    BY <1>3, <1>5 DEF ContinueWith, NoJob
  <2>4. Holds(p)' /\ Counts(p)'
    BY <1>4, <2>2, <2>3 DEF Holds, Counts, Consented, AtActions, OnTheWay
  <2>5. QED
    BY <1>3, <1>4, <2>4, GoodKept DEF Continue, rows, history
<1>6. CASE name # "execution"
  <2>1. job'[p].pc = "record" /\ job'[p].stage = name
    BY <1>3, <1>6 DEF ContinueWith, NoJob
  <2>2. Holds(p)' /\ Counts(p)'
    BY <1>6, <2>1 DEF Holds, Counts, Advancing, AtActions, OnTheWay
  <2>3. QED
    BY <1>3, <1>4, <2>2, GoodKept DEF Continue, rows, history
<1>7. QED
  BY <1>5, <1>6

\* `factory approve` enters the execution with the database held.
LEMMA GoodApprove ==
  ASSUME TypeOK, TypeOK', Located, Untouched, Good, NEW p \in Procs,
         NEW execute \in BOOLEAN, Approve(p, execute)
  PROVE  Good'
<1>1. PICK r \in Runs :
        /\ status' = [status EXCEPT ![r] = IF execute THEN "approved_for_execution"
                                           ELSE "approved"]
        /\ stages' = [stages EXCEPT ![r] = SetStage(@, "approval", "completed")]
        /\ IF execute
           THEN /\ job' = [job EXCEPT ![p] = [NoJob EXCEPT !.pc = "look",
                                                !.run = r, !.approve = TRUE]]
                /\ held' = p
                /\ approved' = approved \cup {r}
           ELSE UNCHANGED <<job, held, approved>>
  BY DEF Approve, Existing, HolderAfterApproval
<1>2. \A q \in Runs : /\ Reached(stages'[q]) => Reached(stages[q])
                      /\ Finished(stages'[q]) => Finished(stages[q])
  BY <1>1, OtherStage DEF StageNames, StageStatus
<1>3. \A q \in Runs : status'[q] = "execution_completed" => status[q] = "execution_completed"
  BY <1>1 DEF TypeOK
<1>4. \A q \in Procs \ {p} : job'[q] = job[q] /\ (held = q => held' = q)
  BY <1>1, NobodyRobbed DEF Approve, At, TypeOK
<1>5. Holds(p)' /\ Counts(p)'
  <2>1. CASE execute
    <3>1. job'[p].pc = "look" /\ job'[p].run = r /\ held' = p /\ r \in approved'
      <4>1. job' = [job EXCEPT ![p] = [NoJob EXCEPT !.pc = "look", !.run = r,
                                                    !.approve = TRUE]]
        BY <1>1, <2>1
      <4>2. held' = p /\ r \in approved'
        BY <1>1, <2>1
      <4>3. QED
        BY <4>1, <4>2 DEF NoJob, TypeOK
    <3>2. QED
      BY <3>1 DEF Holds, Counts, Consented, AtActions, OnTheWay
  <2>2. CASE ~execute
    <3>1. job'[p].pc = "idle"
      BY <1>1, <2>2 DEF Approve, At
    <3>2. QED
      BY <3>1 DEF Holds, Counts, Advancing, AtActions, OnTheWay
  <2>3. QED
    BY <2>1, <2>2
<1>6. UNCHANGED <<mode, actions, carried>> /\ approved \subseteq approved'
  BY <1>1 DEF Approve
<1>7. QED
  BY <1>2, <1>3, <1>4, <1>5, <1>6, GoodKeptStages

\* An action that is approved by itself is one of an approved run.
LEMMA GoodApproveAction ==
  ASSUME TypeOK, TypeOK', Located, Untouched, Good, NEW p \in Procs, ApproveAction(p)
  PROVE  Good'
<1>1. PICK r \in Runs : \E i \in DOMAIN actions[r] :
        job' = [job EXCEPT ![p] = [NoJob EXCEPT !.pc = "read", !.run = r, !.at = i]]
  BY DEF ApproveAction, Existing
<1>2. PICK i \in DOMAIN actions[r] :
        job' = [job EXCEPT ![p] = [NoJob EXCEPT !.pc = "read", !.run = r, !.at = i]]
  BY <1>1
<1>3. actions[r] # <<>> /\ Consented(r)
  <2>1. actions[r] # <<>>
    BY <1>2
  <2>2. QED
    BY <2>1 DEF Good, InHand
<1>4. /\ job'[p].pc = "read" /\ job'[p].run = r /\ job'[p].at = i /\ job'[p].last = 0
      /\ \A q \in Procs \ {p} : job'[q] = job[q]
  BY <1>2 DEF NoJob, TypeOK
<1>5. UNCHANGED <<status, mode, stages, actions, held, approved, carried>>
  BY DEF ApproveAction, rows
<1>6. Holds(p)' /\ Counts(p)'
  BY <1>2, <1>3, <1>4, <1>5 DEF Holds, Counts, Consented
<1>7. QED
  BY <1>4, <1>5, <1>6, GoodKept

\* Learning ends a run without a word about its execution.
LEMMA GoodLearn ==
  ASSUME TypeOK, TypeOK', Located, Untouched, Good, NEW p \in Procs, Learn(p)
  PROVE  Good'
<1>1. PICK r \in Runs :
        /\ status' = [status EXCEPT ![r] = "learned"]
        /\ stages' = [stages EXCEPT ![r] = SetStage(@, "learning", "completed")]
  BY DEF Learn, Existing
<1>2. \A q \in Runs : /\ Reached(stages'[q]) => Reached(stages[q])
                      /\ Finished(stages'[q]) => Finished(stages[q])
  BY <1>1, OtherStage DEF StageNames, StageStatus
<1>3. \A q \in Runs : status'[q] = "execution_completed" => status[q] = "execution_completed"
  BY <1>1 DEF TypeOK
<1>4. job'[p].pc = "idle" /\ UNCHANGED <<job, held, mode, actions, carried, approved>>
  BY DEF Learn, At, history
<1>5. Holds(p)' /\ Counts(p)'
  BY <1>4 DEF Holds, Counts, Advancing, AtActions, OnTheWay
<1>6. QED
  BY <1>2, <1>3, <1>4, <1>5, GoodKeptStages

\* A process that is killed held nothing.
LEMMA GoodCrash ==
  ASSUME TypeOK, TypeOK', Located, Untouched, Good, NEW p \in Procs, Crash(p)
  PROVE  Good'
<1>1. job'[p].pc = "idle" /\ \A q \in Procs \ {p} : job'[q] = job[q]
  BY DEF Crash, Done, NoJob, TypeOK
<1>2. Holds(p)' /\ Counts(p)'
  BY <1>1 DEF Holds, Counts, Advancing, AtActions, OnTheWay
<1>3. QED
  BY <1>1, <1>2, GoodKept DEF Crash, rows, history

\* A policy that is set says nothing of what was done.
LEMMA GoodSetPolicy ==
  ASSUME TypeOK, Good, NEW p \in Procs, SetPolicy(p)
  PROVE  Good'
<1>1. \A q \in Procs :
        /\ job'[q].pc = job[q].pc /\ job'[q].run = job[q].run /\ job'[q].at = job[q].at
        /\ job'[q].last = job[q].last /\ job'[q].tally = job[q].tally
        /\ job'[q].stage = job[q].stage
  BY PolicyOnJobs
<1>2. UNCHANGED <<rows, held, history>>
  BY DEF SetPolicy
<1>3. \A q \in Procs : Holds(q)' /\ Counts(q)'
  BY <1>1, <1>2 DEF Good, InHand, AtWork, Holds, Counts, Consented, rows, history
<1>4. QED
  BY <1>2, <1>3 DEF Good, Whole, InHand, AtWork, Consented, NonePending,
                    CompletedWasCarriedOut, StageIs, Reached, rows, history

\* Time writes no run.
LEMMA GoodUnchanged ==
  ASSUME Good, UNCHANGED <<rows, job, held, history>>
  PROVE  Good'
BY DEF Good, Whole, InHand, AtWork, Holds, Counts, Consented, NonePending,
       CompletedWasCarriedOut, StageIs, Reached, rows, history

\* Every step by the book keeps all of it.
LEMMA GoodStep ==
  ASSUME TypeOK, TypeOK', Located, Untouched, Good, [Next]_vars, edits' = 0
  PROVE  Good'
<1>1. ASSUME NEW p \in Procs, ProactiveStart(p) \/ Start(p)
      PROVE  Good'
  <2>1. Free(p) /\ UNCHANGED <<stages, actions, approved, carried>>
    BY <1>1 DEF ProactiveStart, Start, At, history
  <2>2. \E i, m : Insert(p, i, m)
    BY <1>1 DEF ProactiveStart, Start
  <2>3. QED
    BY <2>1, <2>2, GoodInsert
<1>2. ASSUME NEW p \in Procs, GoesOn(p)
      PROVE  Good'
  BY <1>1, <1>2, GoodFinishRoles, GoodLook, GoodPrepare, GoodAsk, GoodReadRow,
     GoodApproveRow, GoodClaim, GoodSettle, GoodFinishAdvance, GoodRecordStage DEF GoesOn
<1>3. ASSUME NEW p \in Procs, RunStage(p)
      PROVE  FALSE
  BY <1>3 DEF RunStage, TypeOK
<1>4. ASSUME NEW p \in Procs, SetPolicy(p)
      PROVE  Good'
  BY <1>4, GoodSetPolicy
<1>5. ASSUME NEW p \in Procs, Command(p)
      PROVE  Good'
  BY <1>1, <1>3, <1>4, <1>5, GoodContinue, GoodApprove, GoodApproveAction, GoodLearn
     DEF Command
<1>6. CASE DayPasses
  BY <1>6, GoodUnchanged DEF DayPasses
<1>7. CASE UNCHANGED vars
  BY <1>7, GoodUnchanged DEF vars
<1>8. QED
  BY <1>2, <1>5, <1>6, <1>7, GoodCycle, GoodCrash DEF Next, Procs

-----------------------------------------------------------------------------
(* What a process may send, whatever stages were edited by hand.           *)

\* A run gets no shorter, and its actions stay what they are.
LEMMA ActionsGrow ==
  ASSUME TypeOK, Located, [Next]_vars, NEW r \in Runs
  PROVE  /\ Len(actions'[r]) \in Nat /\ Len(actions[r]) \in Nat
         /\ Len(actions[r]) <= Len(actions'[r])
         /\ \A j \in 1 .. Len(actions[r]) : actions'[r][j].kind = actions[r][j].kind
<1>0. /\ actions \in [Runs -> Seq(Action)]
      /\ \A s \in Seq(Action) : DOMAIN s = 1 .. Len(s) /\ Len(s) \in Nat
  <2>1. actions \in [Runs -> Seq(Action)]
    BY DEF TypeOK, Action
  <2>2. QED
    BY <2>1
<1>1. CASE UNCHANGED actions
  BY <1>0, <1>1
<1>2. ASSUME NEW p \in Procs, ApproveRow(p) \/ Claim(p) \/ Settle(p), ~UNCHANGED actions
      PROVE  /\ Len(actions'[r]) \in Nat /\ Len(actions[r]) = Len(actions'[r])
             /\ \A j \in 1 .. Len(actions[r]) : actions'[r][j].kind = actions[r][j].kind
  <2>1. job[p].run \in Runs /\ job[p].at \in Nat
    BY <1>2, OnARun DEF ApproveRow, Claim, Settle, At, Jobs
  <2>2. PICK st \in ActionStatus : SetAction(job[p].run, job[p].at, st)
    BY <1>2 DEF ApproveRow, Claim, Settle, Results, ActionStatus
  <2>3. /\ actions' \in [Runs -> Seq(Action)] /\ Len(actions'[r]) = Len(actions[r])
        /\ \A j \in DOMAIN actions[r] : actions'[r][j].kind = actions[r][j].kind
    BY <1>0, <2>1, <2>2, SetActionRows
  <2>4. QED
    BY <1>0, <2>3
<1>3. ASSUME NEW p \in Procs, Prepare(p)
      PROVE  /\ Len(actions'[r]) \in Nat /\ Len(actions[r]) <= Len(actions'[r])
             /\ \A j \in 1 .. Len(actions[r]) : actions'[r][j].kind = actions[r][j].kind
  <2> DEFINE q == job[p].run
             fresh == [k \in DOMAIN Pack[q] |-> [kind |-> Pack[q][k], status |-> "proposed"]]
             new == actions[q] \o fresh
  <2>1. q \in Runs
    BY <1>3, OnARun DEF Prepare, At
  <2>2. fresh \in Seq(Action) /\ actions[q] \in Seq(Action)
    BY <1>0, <2>1, BatchIsFresh
  <2>3. actions' = [actions EXCEPT ![q] = new]
    BY <1>3 DEF Prepare
  <2> HIDE DEF fresh
  <2>4. /\ Len(new) \in Nat /\ Len(actions[q]) <= Len(new)
        /\ \A k \in 1 .. Len(actions[q]) : new[k] = actions[q][k]
    BY <2>2
  <2> HIDE DEF new
  <2>5. actions'[r] = IF r = q THEN new ELSE actions[r]
    BY <1>0, <2>3
  <2>6. Len(actions[r]) \in Nat
    BY <1>0
  <2>7. QED
    BY <2>4, <2>5, <2>6
<1>4. QED
  <2>1. \/ UNCHANGED actions
        \/ \E p \in Procs : ApproveRow(p) \/ Claim(p) \/ Settle(p) \/ Prepare(p)
    BY DEF Next, GoesOn, Cycle, Command, FinishRoles, ProactiveStart, Look, Ask, ReadRow,
           FinishAdvance, RecordStage, ProactiveContinue, ProactivePick, Start,
           Continue, Approve, ApproveAction, Learn, RunStage, SetPolicy, DayPasses,
           Crash, vars, rows
  <2>2. Len(actions[r]) \in Nat
    BY <1>0
  <2>3. QED
    BY <1>1, <1>2, <1>3, <2>1, <2>2

\* Nor is an approval taken back, or a run given another mode.
LEMMA ApprovalsStay ==
  ASSUME TypeOK, [Next]_vars
  PROVE  /\ approved \subseteq approved' /\ accepted \subseteq accepted'
         /\ \A r \in Runs : status[r] # "absent" => mode'[r] = mode[r]
<1>1. CASE \E p \in Procs : Start(p) \/ ProactiveStart(p)
  <2>1. PICK r \in Runs : status[r] = "absent" /\ \E m : mode' = [mode EXCEPT ![r] = m]
    BY <1>1 DEF Start, ProactiveStart, Insert
  <2>2. QED
    BY <1>1, <2>1 DEF Start, ProactiveStart, history, TypeOK
<1>2. CASE ~ \E p \in Procs : Start(p) \/ ProactiveStart(p)
  BY <1>2
     DEF Next, GoesOn, Cycle, Command, FinishRoles, Look, Prepare, Ask, ReadRow,
         ApproveRow, Claim, Settle, FinishAdvance, RecordStage, ProactiveContinue,
         ProactivePick, Continue, Approve, ApproveAction, Learn, RunStage,
         SetPolicy, DayPasses, Crash, vars, rows, history, Procs
<1>3. QED
  BY <1>1, <1>2

\* A step that moves one process leaves the others what they may send.
LEMMA ClearedKept ==
  ASSUME TypeOK, Located, Cleared, [Next]_vars, NEW p \in Procs,
         \A q \in Procs \ {p} : job'[q] = job[q], UNCHANGED policy,
         Placed(p)', MaySend(p)'
  PROVE  Cleared'
<1>1. ASSUME NEW q \in Procs \ {p}
      PROVE  Placed(q)' /\ MaySend(q)'
  <2> DEFINE r == job[q].run
             i == job[q].at
  <2>1. CASE job[q].pc \notin AtActions
    BY <1>1, <2>1 DEF Placed, MaySend, AtActions, OnTheWay
  <2>2. CASE job[q].pc \in AtActions
    <3>1. /\ r \in Runs /\ status[r] # "absent" /\ i \in Nat /\ job[q].last \in Nat
          /\ job'[q] = job[q] /\ Placed(q) /\ MaySend(q)
      <4>1. r \in Runs /\ job[q] \in Jobs
        BY <2>2, OnARun DEF AtActions, OnTheWay
      <4>2. r # None
        BY <4>1, FactoryAssumption DEF None
      <4>3. QED
        BY <1>1, <4>1, <4>2 DEF Located, Cleared, Jobs
    <3>2. /\ Len(actions'[r]) \in Nat /\ Len(actions[r]) \in Nat
          /\ Len(actions[r]) <= Len(actions'[r])
          /\ \A j \in 1 .. Len(actions[r]) : actions'[r][j].kind = actions[r][j].kind
      BY <3>1, ActionsGrow
    <3>3. Placed(q)'
      BY <2>2, <3>1, <3>2 DEF Placed
    <3>4. /\ job[q].pc # "advance" => i \in 1 .. Len(actions[r])
      BY <2>2, <3>1, <3>2 DEF Placed
    <3>5. /\ approved \subseteq approved' /\ accepted \subseteq accepted'
          /\ mode'[r] = mode[r]
      BY <3>1, ApprovalsStay
    <3>6. job[q].pc # "advance" => actions'[r][i].kind = actions[r][i].kind
      BY <3>2, <3>4
    <3>7. MaySend(q)'
      BY <3>1, <3>5, <3>6 DEF MaySend
    <3>8. QED
      BY <3>3, <3>7
  <2>3. QED
    BY <2>1, <2>2
<1>2. QED
  BY <1>1 DEF Cleared

\* A process that is through with an action has the next one to ask about.
LEMMA ClearedPassed ==
  ASSUME TypeOK, Located, Cleared, [Next]_vars, NEW p \in Procs, job[p].pc \in AtActions,
         NEW more \in SUBSET {"pending", "blocked"}, Passed(p, more), UNCHANGED policy
  PROVE  Cleared'
<1>1. CASE job[p].last = 0
  <2>1. job'[p].pc = "idle"
    BY <1>1, PassedOn DEF NoJob
  <2>2. Placed(p)' /\ MaySend(p)'
    BY <2>1 DEF Placed, MaySend, AtActions, OnTheWay
  <2>3. QED
    BY <2>2, PassedOn, ClearedKept
<1>2. CASE job[p].last # 0
  <2>1. /\ job'[p].pc = "advance" /\ job'[p].run = job[p].run
        /\ job'[p].at = job[p].at + 1 /\ job'[p].last = job[p].last
        /\ job'[p].granted = policy
    BY <1>2, PassedOn
  <2>2. job[p].run \in Runs /\ job[p].at \in Nat /\ job[p].last \in Nat
    BY OnARun DEF AtActions, OnTheWay, Jobs
  <2>3. /\ Len(actions'[job[p].run]) \in Nat /\ Len(actions[job[p].run]) \in Nat
        /\ Len(actions[job[p].run]) <= Len(actions'[job[p].run])
    BY <2>2, ActionsGrow
  <2>4. job[p].last <= Len(actions[job[p].run])
    BY DEF Cleared, Placed
  <2>5. job[p].at + 1 > 0 /\ job[p].last <= Len(actions'[job[p].run])
    BY <2>2, <2>3, <2>4
  <2>6. Placed(p)' /\ MaySend(p)'
    BY <2>1, <2>5 DEF Placed, MaySend
  <2>7. QED
    BY <2>6, PassedOn, ClearedKept
<1>3. QED
  BY <1>1, <1>2

\* A process that goes on with its action may send it if it could before.
LEMMA ClearedOn ==
  ASSUME TypeOK, Located, Cleared, [Next]_vars, NEW p \in Procs,
         job[p].pc \in AtActions \ {"advance"}, job'[p].pc \in AtActions \ {"advance"},
         \/ job[p].pc \in OnTheWay /\ job'[p].granted = job[p].granted
         \/ job'[p].pc = "work",
         /\ job'[p].run = job[p].run /\ job'[p].at = job[p].at
         /\ job'[p].last = job[p].last,
         \A q \in Procs \ {p} : job'[q] = job[q], UNCHANGED policy
  PROVE  Cleared'
<1> DEFINE r == job[p].run
           i == job[p].at
<1>1. r \in Runs /\ job[p] \in Jobs
  BY OnARun DEF AtActions, OnTheWay
<1>2. i \in Nat /\ job[p].last \in Nat /\ status[r] # "absent"
  BY <1>1, FactoryAssumption DEF Jobs, Located, None
<1>3. /\ Len(actions'[r]) \in Nat /\ Len(actions[r]) \in Nat
      /\ Len(actions[r]) <= Len(actions'[r])
      /\ \A j \in 1 .. Len(actions[r]) : actions'[r][j].kind = actions[r][j].kind
  BY <1>1, ActionsGrow
<1>4. Placed(p) /\ MaySend(p)
  BY DEF Cleared
<1>5. Placed(p)'
  BY <1>2, <1>3, <1>4 DEF Placed
<1>6. actions'[r][i].kind = actions[r][i].kind
  BY <1>2, <1>3, <1>4 DEF Placed
<1>7. /\ approved \subseteq approved' /\ accepted \subseteq accepted'
      /\ mode'[r] = mode[r]
  BY <1>1, <1>2, ApprovalsStay
<1>8. MaySend(p)'
  BY <1>4, <1>6, <1>7 DEF MaySend, AtActions, OnTheWay
<1>9. QED
  BY <1>5, <1>8, ClearedKept

\* Every step keeps what the processes may send.
LEMMA ClearedStep ==
  ASSUME TypeOK, Located, Cleared, [Next]_vars
  PROVE  Cleared'
<1>1. ASSUME NEW p \in Procs, job'[p].pc \notin AtActions,
             \A q \in Procs \ {p} : job'[q] = job[q], UNCHANGED policy
      PROVE  Cleared'
  <2>1. Placed(p)' /\ MaySend(p)'
    BY <1>1 DEF Placed, MaySend, AtActions, OnTheWay
  <2>2. QED
    BY <1>1, <2>1, ClearedKept
<1>2. ASSUME NEW p \in Procs,
             \/ FinishRoles(p) \/ FinishAdvance(p) \/ RecordStage(p) \/ Crash(p)
             \/ ProactiveContinue(p) \/ ProactivePick(p) \/ Continue(p)
             \/ Learn(p) \/ RunStage(p)
      PROVE  Cleared'
  <2>1. job'[p].pc \in {"idle", "look", "start", "record"} /\ UNCHANGED policy
    <3>1. CASE FinishRoles(p)
      BY <3>1 DEF FinishRoles, Done, Goto, NoJob, TypeOK, Jobs
    <3>2. CASE FinishAdvance(p) \/ RecordStage(p) \/ Crash(p)
      BY <3>2 DEF FinishAdvance, RecordStage, Crash, Done, NoJob, TypeOK
    <3>3. CASE ProactiveContinue(p) \/ ProactivePick(p)
      BY <3>3 DEF ProactiveContinue, ProactivePick, NoJob, TypeOK
    <3>4. CASE Continue(p)
      BY <3>4 DEF Continue, ContinueWith, NoJob, TypeOK
    <3>5. CASE Learn(p) \/ RunStage(p)
      BY <3>5 DEF Learn, RunStage, At
    <3>6. QED
      BY <1>2, <3>1, <3>2, <3>3, <3>4, <3>5
  <2>2. \A q \in Procs \ {p} : job'[q] = job[q]
    BY <1>2 DEF FinishRoles, FinishAdvance, RecordStage, Crash, Done, Goto, TypeOK,
                ProactiveContinue, ProactivePick, Continue, Learn, RunStage
  <2>3. QED
    BY <1>1, <2>1, <2>2 DEF AtActions, OnTheWay
<1>3. ASSUME NEW p \in Procs, Start(p) \/ ProactiveStart(p)
      PROVE  Cleared'
  <2>1. \E r \in Runs : job' = [job EXCEPT ![p] = [NoJob EXCEPT !.pc = "roles", !.run = r,
                                                               !.start = TRUE]]
    BY <1>3 DEF Start, ProactiveStart, Insert
  <2>2. job'[p].pc = "roles" /\ \A q \in Procs \ {p} : job'[q] = job[q]
    BY <2>1 DEF NoJob, TypeOK
  <2>3. QED
    BY <1>1, <1>3, <2>2 DEF Start, ProactiveStart, AtActions, OnTheWay
<1>4. ASSUME NEW p \in Procs, NEW execute \in BOOLEAN, Approve(p, execute)
      PROVE  Cleared'
  <2>1. /\ job'[p].pc \in {"idle", "look"} /\ \A q \in Procs \ {p} : job'[q] = job[q]
        /\ UNCHANGED policy
    <3>1. PICK r \in Existing :
            IF execute
            THEN job' = [job EXCEPT ![p] = [NoJob EXCEPT !.pc = "look", !.run = r,
                                                         !.approve = TRUE]]
            ELSE UNCHANGED job
      BY <1>4 DEF Approve
    <3>2. job[p].pc = "idle" /\ UNCHANGED policy
      BY <1>4 DEF Approve, At
    <3>3. QED
      BY <3>1, <3>2 DEF NoJob, TypeOK
  <2>2. QED
    BY <1>1, <2>1 DEF AtActions, OnTheWay
<1>5. ASSUME NEW p \in Procs, Look(p) \/ Prepare(p)
      PROVE  Cleared'
  <2> DEFINE r == job[p].run
  <2>1. r \in Runs /\ job[p] \in Jobs /\ actions[r] \in Seq(Action) /\ policy \in BOOLEAN
    BY <1>5, OnARun DEF Look, Prepare, At, TypeOK, Action
  <2>2. /\ \A q \in Procs \ {p} : job'[q] = job[q]
        /\ UNCHANGED policy
    BY <1>5 DEF Look, Prepare, TypeOK
  <2>3. CASE Look(p) /\ actions[r] = <<>>
    <3>1. job'[p].pc = "prepare"
      BY <2>1, <2>3 DEF Look, TypeOK, Jobs
    <3>2. QED
      BY <1>1, <2>2, <3>1 DEF AtActions, OnTheWay
  <2>4. CASE Look(p) /\ actions[r] # <<>>
    <3>1. /\ job'[p].pc = "advance" /\ job'[p].run = r /\ job'[p].at = 1
          /\ job'[p].last = Len(actions[r]) /\ job'[p].granted = policy
      BY <2>1, <2>4 DEF Look, TypeOK, Jobs
    <3>2. actions' = actions /\ Len(actions[r]) \in Nat
      BY <2>1, <2>4 DEF Look, rows
    <3>3. 1 > 0 /\ Len(actions[r]) <= Len(actions[r])
      BY <3>2
    <3>4. Placed(p)' /\ MaySend(p)'
      BY <2>2, <3>1, <3>2, <3>3 DEF Placed, MaySend
    <3>5. QED
      BY <2>2, <3>4, ClearedKept
  <2>5. CASE Prepare(p)
    <3> DEFINE fresh == [k \in DOMAIN Pack[r] |-> [kind |-> Pack[r][k], status |-> "proposed"]]
    <3>1. fresh \in Seq(Action) /\ Len(fresh) = Len(Pack[r]) /\ Len(Pack[r]) \in Nat
      BY <2>1, BatchIsFresh
    <3>2. actions' = [actions EXCEPT ![r] = actions[r] \o fresh]
      BY <2>5 DEF Prepare
    <3> HIDE DEF fresh
    <3>3. actions'[r] = actions[r] \o fresh
      BY <2>1, <3>2 DEF TypeOK
    <3>4. /\ Len(actions'[r]) = Len(actions[r]) + Len(Pack[r]) /\ Len(actions[r]) \in Nat
      <4>1. \A s, t \in Seq(Action) : /\ Len(s \o t) = Len(s) + Len(t)
                                      /\ Len(s) \in Nat
        OBVIOUS
      <4>2. QED
        BY <2>1, <3>1, <3>3, <4>1
    <3>5. /\ job'[p].pc = "advance" /\ job'[p].run = r /\ job'[p].at = Len(actions[r]) + 1
          /\ job'[p].last = Len(actions[r]) + Len(Pack[r]) /\ job'[p].granted = policy
      BY <2>1, <2>5 DEF Prepare, TypeOK, Jobs
    <3>6. /\ Len(actions[r]) + 1 > 0
          /\ Len(actions[r]) + Len(Pack[r]) <= Len(actions'[r])
      BY <3>1, <3>4
    <3>7. Placed(p)' /\ MaySend(p)'
      BY <2>2, <3>5, <3>6 DEF Placed, MaySend
    <3>8. QED
      BY <2>2, <3>7, ClearedKept
  <2>6. QED
    BY <1>5, <2>3, <2>4, <2>5
<1>6. ASSUME NEW p \in Procs, Ask(p)
      PROVE  Cleared'
  <2> DEFINE r == job[p].run
             i == job[p].at
  <2>1. /\ job[p].pc = "advance" /\ job[p].pc \in AtActions /\ UNCHANGED policy
        /\ UNCHANGED <<rows, approved, accepted>> /\ i <= job[p].last
    BY <1>6 DEF Ask, At, AtActions, OnTheWay, history
  <2>2. CASE Passed(p, {"pending"})
    BY <2>1, <2>2, ClearedPassed
  <2>3. CASE Goto(p, "read") /\ (Allowed(r, actions[r][i]) \/ job[p].approve)
    <3>1. r \in Runs /\ job[p] \in Jobs /\ actions[r] \in Seq(Action)
      BY <2>1, OnARun DEF TypeOK, Action
    <3>2. i \in Nat /\ job[p].last \in Nat /\ Len(actions[r]) \in Nat
      BY <3>1 DEF Jobs
    <3>3. /\ job'[p].pc = "read" /\ job'[p].run = r /\ job'[p].at = i
          /\ job'[p].last = job[p].last /\ job'[p].granted = job[p].granted
          /\ \A q \in Procs \ {p} : job'[q] = job[q]
      BY <2>3, <3>1 DEF Goto, TypeOK, Jobs
    <3>4. i > 0 /\ job[p].last <= Len(actions[r]) /\ i <= Len(actions[r])
      <4>1. i > 0 /\ job[p].last <= Len(actions[r])
        BY <2>1 DEF Cleared, Placed
      <4>2. QED
        BY <2>1, <3>2, <4>1
    <3>5. Placed(p)'
      BY <2>1, <3>3, <3>4 DEF Placed, rows
    <3>6. MaySend(p)'
      <4>1. job[p].approve => r \in approved
        BY DEF Located
      <4>2. policy => job[p].granted
        BY <2>1 DEF Cleared, MaySend
      <4>3. actions[r][i].kind = "draft" =>
              \/ r \in approved
              \/ mode[r] = "full_autonomous" /\ job[p].granted
        <5>1. CASE job[p].approve
          BY <4>1, <5>1
        <5>2. CASE Allowed(r, actions[r][i])
          BY <4>2, <5>2 DEF Allowed
        <5>3. QED
          BY <2>3, <5>1, <5>2
      <4>4. QED
        BY <2>1, <3>3, <4>3 DEF MaySend, rows
    <3>7. QED
      BY <2>1, <3>3, <3>5, <3>6, ClearedKept
  <2>4. QED
    BY <1>6, <2>2, <2>3 DEF Ask
<1>7. ASSUME NEW p \in Procs, ReadRow(p)
      PROVE  Cleared'
  <2>1. /\ job[p].pc \in AtActions \ {"advance"} /\ job[p].pc \in OnTheWay
        /\ UNCHANGED policy /\ job[p] \in Jobs
    BY <1>7 DEF ReadRow, At, AtActions, OnTheWay, TypeOK
  <2>2. CASE \E st : Passed(p, TurnedAway(st))
    <3>1. \A st : TurnedAway(st) \in SUBSET {"pending", "blocked"}
      BY DEF TurnedAway
    <3>2. QED
      BY <2>1, <2>2, <3>1, ClearedPassed
  <2>3. CASE \/ Goto(p, "approve")
             \/ \E st : job' = [job EXCEPT ![p].pc = "claim", ![p].seen = st]
    <3>1. /\ job'[p].pc \in AtActions \ {"advance"} /\ job'[p].granted = job[p].granted
          /\ job'[p].run = job[p].run /\ job'[p].at = job[p].at
          /\ job'[p].last = job[p].last /\ \A q \in Procs \ {p} : job'[q] = job[q]
      BY <2>1, <2>3 DEF Goto, TypeOK, Jobs, AtActions, OnTheWay
    <3>2. QED
      BY <2>1, <3>1, ClearedOn
  <2>4. QED
    BY <1>7, <2>2, <2>3 DEF ReadRow
<1>8. ASSUME NEW p \in Procs, ApproveRow(p)
      PROVE  Cleared'
  <2>1. /\ job[p].pc \in AtActions \ {"advance"} /\ job[p].pc \in OnTheWay
        /\ UNCHANGED policy /\ job[p] \in Jobs
    BY <1>8 DEF ApproveRow, At, AtActions, OnTheWay, TypeOK
  <2>2. /\ job'[p].pc \in AtActions \ {"advance"} /\ job'[p].granted = job[p].granted
        /\ job'[p].run = job[p].run /\ job'[p].at = job[p].at
        /\ job'[p].last = job[p].last /\ \A q \in Procs \ {p} : job'[q] = job[q]
    BY <1>8, <2>1 DEF ApproveRow, Goto, TypeOK, Jobs, AtActions, OnTheWay
  <2>3. QED
    BY <2>1, <2>2, ClearedOn
<1>9. ASSUME NEW p \in Procs, Claim(p)
      PROVE  Cleared'
  <2>1. /\ job[p].pc \in AtActions \ {"advance"} /\ UNCHANGED policy /\ job[p] \in Jobs
    BY <1>9 DEF Claim, At, AtActions, OnTheWay, TypeOK
  <2>2. CASE Passed(p, {"pending"})
    BY <2>1, <2>2, ClearedPassed
  <2>3. CASE job' = [job EXCEPT ![p].pc = "work", ![p].seen = "proposed",
                                ![p].granted = FALSE]
    <3>1. /\ job'[p].pc = "work" /\ job'[p].run = job[p].run /\ job'[p].at = job[p].at
          /\ job'[p].last = job[p].last /\ \A q \in Procs \ {p} : job'[q] = job[q]
      BY <2>1, <2>3 DEF TypeOK, Jobs
    <3>2. job'[p].pc \in AtActions \ {"advance"}
      BY <3>1 DEF AtActions
    <3>3. QED
      BY <2>1, <3>1, <3>2, ClearedOn
  <2>4. QED
    BY <1>9, <2>2, <2>3 DEF Claim
<1>10. ASSUME NEW p \in Procs, Settle(p)
       PROVE  Cleared'
  <2>1. job[p].pc \in AtActions /\ UNCHANGED policy
    BY <1>10 DEF Settle, At, AtActions
  <2>2. Passed(p, {"blocked"}) \/ Passed(p, {})
    BY <1>10 DEF Settle
  <2>3. QED
    BY <2>1, <2>2, ClearedPassed
<1>11. ASSUME NEW p \in Procs, ApproveAction(p)
       PROVE  Cleared'
  <2>1. PICK r \in Runs : \E i \in DOMAIN actions[r] :
          /\ accepted' = accepted \cup {<<r, i>>}
          /\ job' = [job EXCEPT ![p] = [NoJob EXCEPT !.pc = "read", !.run = r, !.at = i]]
    BY <1>11 DEF ApproveAction, Existing
  <2>2. PICK i \in DOMAIN actions[r] :
          /\ accepted' = accepted \cup {<<r, i>>}
          /\ job' = [job EXCEPT ![p] = [NoJob EXCEPT !.pc = "read", !.run = r, !.at = i]]
    BY <2>1
  <2>3. /\ job'[p].pc = "read" /\ job'[p].run = r /\ job'[p].at = i /\ job'[p].last = 0
        /\ \A q \in Procs \ {p} : job'[q] = job[q]
    BY <2>2 DEF NoJob, TypeOK
  <2>4. actions' = actions /\ actions[r] \in Seq(Action) /\ UNCHANGED policy
    BY <1>11 DEF ApproveAction, rows, TypeOK, Action
  <2>5. i > 0 /\ 0 <= Len(actions[r]) /\ i <= Len(actions[r])
    BY <2>4
  <2>6. Placed(p)' /\ MaySend(p)'
    BY <2>2, <2>3, <2>4, <2>5 DEF Placed, MaySend
  <2>7. QED
    BY <2>3, <2>4, <2>6, ClearedKept
<1>12. ASSUME NEW p \in Procs, SetPolicy(p)
       PROVE  Cleared'
  <2>1. \A q \in Procs : /\ job'[q].pc = job[q].pc /\ job'[q].run = job[q].run
                         /\ job'[q].at = job[q].at /\ job'[q].last = job[q].last
                         /\ job[q].granted => job'[q].granted
    BY <1>12, PolicyOnJobs
  <2>2. \A q \in Procs : policy' /\ job[q].pc \in OnTheWay => job'[q].granted
    BY <1>12, PolicyOnJobs
  <2>3. UNCHANGED <<actions, mode, approved, accepted>>
    BY <1>12 DEF SetPolicy, rows, history
  <2>4. \A q \in Procs : Placed(q)' /\ MaySend(q)'
    BY <2>1, <2>2, <2>3 DEF Cleared, Placed, MaySend, OnTheWay
  <2>5. QED
    BY <2>4 DEF Cleared
<1>13. CASE DayPasses \/ UNCHANGED vars
  BY <1>13 DEF DayPasses, vars, rows, history, Cleared, Placed, MaySend
<1>14. QED
  BY <1>2, <1>3, <1>4, <1>5, <1>6, <1>7, <1>8, <1>9, <1>10, <1>11, <1>12, <1>13
     DEF Next, GoesOn, Cycle, Command, Procs

-----------------------------------------------------------------------------
(* The invariant, and what follows from it.                                *)

\* There are no runs at first.
LEMMA InvFirst ==
  ASSUME Init
  PROVE  Inv
<1>1. TypeOK
  BY TypeFirst
<1>2. Located /\ Untouched
  BY FactoryAssumption DEF Init, Located, Untouched, NoJob, None
<1>3. Whole
  BY BatchIsFresh DEF Init, Whole
<1>4. InHand
  BY DEF Init, InHand, Reached, Holds, NoJob, Advancing, AtActions, OnTheWay
<1>5. AtWork
  BY DEF Init, AtWork, Counts, NoJob, AtActions, OnTheWay, CompletedWasCarriedOut, StageIs
<1>6. Cleared
  BY DEF Init, Cleared, Placed, MaySend, AtActions, OnTheWay, NoJob
<1>7. QED
  BY <1>1, <1>2, <1>3, <1>4, <1>5, <1>6 DEF Inv

\* What is by the book was by the book before.
LEMMA EditsGrow ==
  ASSUME TypeOK, [Next]_vars, edits' = 0
  PROVE  edits = 0
<1>1. edits' = edits \/ edits' = edits + 1
  BY DEF Next, GoesOn, Cycle, Command, FinishRoles, ProactiveStart, Look, Prepare,
         Ask, ReadRow, ApproveRow, Claim, Settle, FinishAdvance, RecordStage, ProactiveContinue,
         ProactivePick, Start, Continue, Approve, ApproveAction, Learn, RunStage,
         SetPolicy, DayPasses, Crash, vars, bounds
<1>2. QED
  BY <1>1 DEF TypeOK

\* Every step keeps the invariant.
LEMMA InvStep ==
  ASSUME Inv, [Next]_vars
  PROVE  Inv'
<1>1. TypeOK' /\ Located' /\ Untouched' /\ Cleared'
  BY TypeStep, PlacesStep, ClearedStep DEF Inv
<1>2. ASSUME edits' = 0
      PROVE  Good'
  BY <1>1, <1>2, EditsGrow, GoodStep DEF Inv, Good, ByTheBook
<1>3. QED
  BY <1>1, <1>2 DEF Inv, Good, ByTheBook

\* The invariant holds in every state of every behaviour.
THEOREM Invariance == Spec => []Inv
<1>1. Init => Inv
  BY InvFirst
<1>2. Inv /\ [Next]_vars => Inv'
  BY InvStep
<1>3. QED
  BY <1>1, <1>2, PTL DEF Spec

\* The state is well typed.
THEOREM TypeCorrect == Spec => []TypeOK
<1>1. Inv => TypeOK
  BY DEF Inv
<1>2. QED
  BY <1>1, Invariance, PTL

\* A review-first run does nothing before `factory approve --execute`.
THEOREM ReviewFirstHolds == Spec => []ReviewFirstWaits
<1>1. Inv => ReviewFirstWaits
  BY DEF Inv, InHand, Consented, ReviewFirstWaits
<1>2. QED
  BY <1>1, Invariance, PTL

\* A run's actions are prepared once, whoever advances it.
THEOREM OneBatchHolds == Spec => []OneBatch
<1>1. Inv => OneBatch
  BY DEF Inv, Whole, OneBatch
<1>2. QED
  BY <1>1, Invariance, PTL

\* A completed execution was carried out, and a draft that waits is shown.
THEOREM ActionsSettle == Spec => []ActionsAreSettled
<1>1. Inv => ActionsAreSettled
  <2> SUFFICES ASSUME Inv, ByTheBook
               PROVE  CompletedWasCarriedOut /\ ProposedIsShown
    BY DEF ActionsAreSettled
  <2>1. ASSUME NEW r \in Runs, NEW i \in DOMAIN actions[r],
               actions[r][i].status = "proposed"
        PROVE  status[r] \in Active \cup {"approved", "learned"}
    <3>1. status[r] # "execution_completed"
      BY <2>1 DEF Inv, AtWork, NonePending
    <3>2. actions[r] # <<>>
      BY <2>1
    <3>3. status[r] # "absent"
      BY <3>2 DEF Inv, Untouched
    <3>4. QED
      BY <3>1, <3>3 DEF Inv, TypeOK
  <2>2. QED
    BY <2>1 DEF Inv, AtWork, ProposedIsShown
<1>2. QED
  BY <1>1, Invariance, PTL

\* Nothing but a claim puts a process to work.
LEMMA OnlyByClaim ==
  ASSUME TypeOK, [Next]_vars, NEW p \in Procs,
         job[p].pc # "work", job'[p].pc = "work"
  PROVE  Claim(p)
<1>2. ASSUME NEW q \in Procs, Ask(q) \/ ReadRow(q) \/ ApproveRow(q) \/ Settle(q)
      PROVE  FALSE
  <2>1. job'[q].pc # "work"
    <3>1. CASE \E more \in SUBSET {"pending", "blocked"} : Passed(q, more)
      <4>1. job'[q].pc \in {"idle", "advance"}
        BY <3>1, PassedOn DEF NoJob
      <4>2. QED
        BY <4>1
    <3>2. CASE \E s \in OnTheWay : Goto(q, s)
      BY <3>2 DEF Goto, OnTheWay, TypeOK, Jobs
    <3>3. CASE \E s : job' = [job EXCEPT ![q].pc = "claim", ![q].seen = s]
      BY <3>3 DEF TypeOK, Jobs
    <3>4. \A st : TurnedAway(st) \in SUBSET {"pending", "blocked"}
      BY DEF TurnedAway
    <3>5. {"blocked"} \in SUBSET {"pending", "blocked"} /\ {} \in SUBSET {"pending", "blocked"}
      OBVIOUS
    <3>6. QED
      BY <1>2, <3>1, <3>2, <3>3, <3>4, <3>5
         DEF Ask, ReadRow, ApproveRow, Settle, OnTheWay
  <2>2. \A o \in Procs \ {q} : job'[o] = job[o]
    BY <1>2, OnTheSameRun
  <2>3. QED
    BY <2>1, <2>2
<1>3. ASSUME NEW q \in Procs, Claim(q), q # p
      PROVE  FALSE
  BY <1>3, OnTheSameRun
<1>4. ASSUME NEW q \in Procs, SetPolicy(q)
      PROVE  FALSE
  BY <1>4, PolicyOnJobs
<1>5. ASSUME NEW q \in Procs,
             \/ FinishRoles(q) \/ ProactiveStart(q) \/ Look(q) \/ Prepare(q)
             \/ FinishAdvance(q) \/ RecordStage(q) \/ ProactiveContinue(q)
             \/ ProactivePick(q) \/ Start(q) \/ Continue(q) \/ ApproveAction(q)
             \/ Crash(q) \/ Learn(q) \/ RunStage(q) \/ Approve(q, TRUE)
             \/ Approve(q, FALSE)
      PROVE  FALSE
  <2>1. \A o \in Procs \ {q} : job'[o] = job[o]
    BY <1>5 DEF FinishRoles, ProactiveStart, Look, Prepare, FinishAdvance, RecordStage,
                ProactiveContinue, ProactivePick, Start, Insert, Continue, ApproveAction,
                Crash, Learn, RunStage, Approve, Done, Goto, TypeOK
  <2>2. job'[q].pc # "work" \/ job'[q] = job[q]
    <3>0. job[q] \in Jobs
      BY DEF TypeOK
    <3>1. CASE FinishRoles(q) \/ Look(q) \/ Prepare(q)
      <4>1. CASE FinishRoles(q)
        BY <3>0, <4>1 DEF FinishRoles, Done, Goto, NoJob, TypeOK, Jobs
      <4>2. CASE Look(q)
        BY <3>0, <4>2 DEF Look, TypeOK, Jobs
      <4>3. CASE Prepare(q)
        BY <3>0, <4>3 DEF Prepare, TypeOK, Jobs
      <4>4. QED
        BY <3>1, <4>1, <4>2, <4>3
    <3>2. CASE ProactiveStart(q) \/ Start(q)
      <4>1. \E r \in Runs : job' = [job EXCEPT ![q] = [NoJob EXCEPT !.pc = "roles",
                                                          !.run = r, !.start = TRUE]]
        BY <3>2 DEF ProactiveStart, Start, Insert
      <4>2. QED
        BY <4>1 DEF NoJob, TypeOK
    <3>3. CASE FinishAdvance(q) \/ RecordStage(q) \/ Crash(q)
      BY <3>3 DEF FinishAdvance, RecordStage, Crash, Done, NoJob, TypeOK
    <3>4. CASE ProactiveContinue(q) \/ ProactivePick(q)
      BY <3>4 DEF ProactiveContinue, ProactivePick, NoJob, TypeOK
    <3>5. CASE Continue(q)
      BY <3>5 DEF Continue, ContinueWith, NoJob, TypeOK
    <3>6. CASE ApproveAction(q)
      BY <3>6 DEF ApproveAction, NoJob, TypeOK
    <3>7. CASE Learn(q) \/ RunStage(q)
      BY <3>7 DEF Learn, RunStage
    <3>8. CASE Approve(q, TRUE) \/ Approve(q, FALSE)
      <4>1. \E r \in Existing :
              \/ job' = [job EXCEPT ![q] = [NoJob EXCEPT !.pc = "look", !.run = r,
                                                         !.approve = TRUE]]
              \/ UNCHANGED job
        BY <3>8 DEF Approve
      <4>2. QED
        BY <4>1 DEF NoJob, TypeOK
    <3>9. QED
      BY <1>5, <3>1, <3>2, <3>3, <3>4, <3>5, <3>6, <3>7, <3>8
  <2>3. QED
    BY <2>1, <2>2
<1>6. CASE DayPasses \/ UNCHANGED vars
  BY <1>6 DEF DayPasses, vars
<1>7. QED
  BY <1>2, <1>3, <1>4, <1>5, <1>6 DEF Next, GoesOn, Cycle, Command, Procs

\* A draft is sent only under an approval of its run, one of its own, or a
\* connector policy that held while its process was on the way to it, also
\* where stages were edited by hand.
LEMMA ConsentStep ==
  ASSUME Inv, [Next]_vars, NEW p \in Procs,
         job[p].pc # "work", job'[p].pc = "work",
         actions[job[p].run][job[p].at].kind = "draft"
  PROVE  \/ job[p].run \in approved \/ <<job[p].run, job[p].at>> \in accepted
         \/ mode[job[p].run] = "full_autonomous" /\ job[p].granted
<1>1. Claim(p) /\ MaySend(p)
  BY OnlyByClaim DEF Inv, Cleared
<1>2. job[p].pc \in OnTheWay \ {"advance"}
  BY <1>1 DEF Claim, At, OnTheWay
<1>3. QED
  BY <1>1, <1>2 DEF MaySend

\* Consent, for every run and every process.
THEOREM ConsentHolds == Spec => Consent
<1>1. Inv /\ [Next]_vars =>
        [\A p \in Procs :
           LET r == job[p].run
               i == job[p].at
           IN  /\ job[p].pc # "work" /\ job'[p].pc = "work"
               /\ actions[r][i].kind = "draft"
               => \/ r \in approved \/ <<r, i>> \in accepted
                  \/ mode[r] = "full_autonomous" /\ job[p].granted]_vars
  BY ConsentStep
<1>2. QED
  BY <1>1, Invariance, PTL DEF Spec, Consent
=============================================================================
