---------------------------- MODULE PipelineLock ----------------------------
(***************************************************************************)
(* The lock rows of `pipeline_locks` (locks.py) and the processes that     *)
(* take one: the autopilot and pulse loops, run-day and go-live.  A row    *)
(* names its owner; it is a lease of one hour that nobody renews, and a    *)
(* process that dies leaves its row behind.                                *)
(*                                                                         *)
(* Time is kept as ages, so that behaviours have no end: the age of the    *)
(* row saturates just beyond the lease, the age of a cycle at its longest. *)
(***************************************************************************)
EXTENDS Naturals

CONSTANTS
  Procs,      \* processes that run the pipeline, one after the other or at once
  Names,      \* owner strings
  Lease,      \* '-1 hour', in ticks
  Longest,    \* the longest a cycle takes, in ticks
  Reused,     \* TRUE: owner is "<loop>-<pid>"; FALSE: it holds a new uuid4
  NoName      \* no row for this lock

ASSUME PipelineLockAssumption ==
  /\ Lease \in Nat /\ Longest \in Nat
  /\ Reused \in BOOLEAN
  /\ NoName \notin Names
  /\ Names # {}

VARIABLES
  phase,      \* "off", "idle" (between two cycles) or "busy" (in a cycle)
  name,       \* the owner string of a process that is not off
  owner,      \* pipeline_locks.owner, NoName when there is no row
  age,        \* ticks since pipeline_locks.acquired_at
  ran         \* ticks since the process began its cycle

lockVars == <<phase, name, owner, age, ran>>

Alive == {p \in Procs : phase[p] # "off"}

\* No two live processes share a pid.  A pid comes back when its process is
\* gone, and then the row of the dead process carries it; a uuid does not.
MayBeNamed(p, n) ==
  /\ \A q \in Alive : name[q] # n
  /\ n = owner => Reused

Boot(p, n) ==
  /\ phase[p] = "off"
  /\ MayBeNamed(p, n)
  /\ phase' = [phase EXCEPT ![p] = "idle"]
  /\ name' = [name EXCEPT ![p] = n]
  /\ UNCHANGED <<owner, age, ran>>

\* Mutant: the lease ends one tick early.
StaleEarly == age >= Lease

\* DELETE ... WHERE acquired_at < datetime('now', '-1 hour')
Stale == age > Lease

\* Mutant: an old row is not deleted first.
InsertedIfNone(n) == owner = NoName

\* INSERT OR IGNORE: the row is new only if none was left.
Inserted(n) == owner = NoName \/ Stale

\* acquire_lock returned True.  The row that already has this owner keeps
\* its acquired_at.  A failed or contended call changes nothing.
Acquire(p) ==
  /\ phase[p] = "idle"
  /\ Inserted(name[p]) \/ owner = name[p]
  /\ owner' = name[p]
  /\ age' = IF Inserted(name[p]) THEN 0 ELSE age
  /\ phase' = [phase EXCEPT ![p] = "busy"]
  /\ ran' = [ran EXCEPT ![p] = 0]
  /\ UNCHANGED name

\* DELETE ... WHERE owner = ?: only the process's own row goes.
Release(n) == owner' = IF owner = n THEN NoName ELSE owner

\* The cycle returned or raised: the finally clause releases.  After an
\* exception, or its last cycle, the process ends.
Finish(p) ==
  /\ phase[p] = "busy"
  /\ Release(name[p])
  /\ \E to \in {"idle", "off"} : phase' = [phase EXCEPT ![p] = to]
  /\ ran' = [ran EXCEPT ![p] = 0]
  /\ age' = IF owner' = NoName THEN 0 ELSE age
  /\ UNCHANGED name

\* A loop reaches max_cycles while another instance holds the lock.
Stop(p) ==
  /\ phase[p] = "idle"
  /\ phase' = [phase EXCEPT ![p] = "off"]
  /\ UNCHANGED <<name, owner, age, ran>>

\* The process is killed, or the DELETE found the database locked.
Die(p) ==
  /\ phase[p] # "off"
  /\ phase' = [phase EXCEPT ![p] = "off"]
  /\ ran' = [ran EXCEPT ![p] = 0]
  /\ UNCHANGED <<name, owner, age>>

Tick ==
  /\ \A p \in Procs : phase[p] = "busy" => ran[p] < Longest
  /\ age' = IF owner = NoName \/ Stale THEN age ELSE age + 1
  /\ ran' = [p \in Procs |-> IF phase[p] = "busy" THEN ran[p] + 1 ELSE ran[p]]
  /\ UNCHANGED <<phase, name, owner>>

-----------------------------------------------------------------------------
LockInit ==
  /\ phase = [p \in Procs |-> "off"]
  /\ name \in [Procs -> Names]
  /\ owner = NoName
  /\ age = 0
  /\ ran = [p \in Procs |-> 0]

LockNext ==
  \/ \E p \in Procs : \/ \E n \in Names : Boot(p, n)
                      \/ Acquire(p) \/ Finish(p) \/ Stop(p) \/ Die(p)
  \/ Tick

LockSpec == LockInit /\ [][LockNext]_lockVars

\* Time passes, a cycle comes to its end, and a loop that keeps trying is
\* not contended for ever.
FairLockSpec ==
  /\ LockSpec
  /\ WF_lockVars(Tick)
  /\ \A p \in Procs : WF_lockVars(Acquire(p)) /\ WF_lockVars(Finish(p))

-----------------------------------------------------------------------------
LockTypeOK ==
  /\ phase \in [Procs -> {"off", "idle", "busy"}]
  /\ name \in [Procs -> Names]
  /\ owner \in Names \cup {NoName}
  /\ age \in 0 .. Lease + 1
  /\ ran \in [Procs -> 0 .. Longest]

\* Cycles do not overlap.  True while names are fresh and no cycle outlasts
\* the lease.  A pid that comes back inherits the rest of a dead owner's lease,
\* and a cycle of more than an hour is joined by the next.
Busy == {p \in Procs : phase[p] = "busy"}
NoOverlap == \A p, q \in Busy : p = q

\* The lock implements a mutex.
M == INSTANCE Mutex WITH inside <- Busy
ImplementsMutex == M!MutexSpec

\* A process in its cycle owns the row, and the row is as old as the cycle.
HolderOwnsRow ==
  \A p \in Busy : owner = name[p] /\ age = ran[p]

\* The row of a dead process does not keep a waiting loop out for ever.
Orphaned == owner # NoName /\ \A p \in Alive : name[p] # owner
OrphanIsReclaimed ==
  \A p \in Procs :
    phase[p] = "idle" /\ Orphaned ~> ~Orphaned \/ phase[p] = "off"
=============================================================================
