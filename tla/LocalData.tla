----------------------------- MODULE LocalData ------------------------------
(***************************************************************************)
(* The files behind SchemaStore, and the commands that copy them           *)
(* (cli_local_data.py).  Commits go to the write-ahead log; a checkpoint   *)
(* takes them to the main file, and the last connection to close makes one *)
(* and removes the log.  A process that is killed leaves the log as it is. *)
(* `myos backup` copies what is committed; `myos restore` works on the     *)
(* main file alone, under whoever is connected.                            *)
(*                                                                         *)
(* A main file that is read through the log of another one is damaged, and *)
(* nothing is said about it from then on.                                  *)
(***************************************************************************)
EXTENDS SchemaStore

CONSTANTS
  Cases,         \* <<version of the database, version of an old backup or NoCopy, the processes>>
  NoCopy,
  Writers,       \* the processes whose command commits a row, or is `myos backup`
  Restorers,     \* those that may be `myos restore`
  MaxRestores    \* bound on restores

ASSUME LocalDataAssumption ==
  /\ NoCopy \notin 0..EXPECTED_SCHEMA_VERSION
  /\ \A c \in Cases : /\ c[1] \in Starts
                       /\ c[2] \in 0..EXPECTED_SCHEMA_VERSION \cup {NoCopy}
                       /\ c[3] \subseteq Procs
  /\ MaxRestores \in Nat

VARIABLES
  team,       \* the processes that take part
  rows,       \* rows the commands have committed, each its own
  main,       \* what the main file holds: a database and rows
  wal,        \* the log: "none", "own" or "foreign" to the main file
  copy,       \* the backup file, or NoCopy
  stage,      \* how far the restore of a process is
  safety,     \* the pre-restore copy
  restores,
  damaged,
  lost,       \* rows overwritten by a restore that its safety copy has not
  shared,     \* somebody was connected during a restore
  unclean     \* a process was killed while connected or restoring

fileVars == <<team, rows, main, wal, copy, stage, safety, restores, damaged, lost, shared, unclean>>
vars == <<schemaVars, fileVars>>

Attached == {p \in Procs : at[p] # Closed}
Content == [db |-> disk, rows |-> rows]
Restoring == {p \in Procs : stage[p] # "none"}

\* What the last connection to close leaves; before it, commits are in the log.
Checkpoints ==
  IF \A q \in Procs : at'[q] = Closed
    THEN /\ wal' = "none"
         /\ main' = Content'
    ELSE /\ wal' = IF Content' # Content THEN "own" ELSE wal
         /\ UNCHANGED main

\* The steps of SchemaStore, and what they do to the files.
Runs(p) ==
  /\ Execute(p) \/ TimeOut(p)
  /\ UNCHANGED rows
  /\ Checkpoints
  /\ stage' = [stage EXCEPT ![p] = IF at'[p] = Closed THEN "none" ELSE @]
  /\ UNCHANGED <<team, copy, safety, restores, damaged, lost, shared, unclean>>

Opens(p) ==
  /\ stage[p] \in {"none", "verify"}
  /\ p \in team
  /\ Connect(p)
  /\ damaged' = (wal = "foreign")
  /\ shared' = (shared \/ Restoring \ {p} # {})
  /\ UNCHANGED <<team, rows, main, wal, copy, stage, safety, restores, lost, unclean>>

Leaves(p) ==
  /\ Close(p)
  /\ UNCHANGED rows
  /\ Checkpoints
  /\ stage' = [stage EXCEPT ![p] = "none"]
  /\ UNCHANGED <<team, copy, safety, restores, damaged, lost, shared, unclean>>

\* A kill leaves the log, and a restore where it is.
Dies(p) ==
  /\ mishaps < MaxMishaps
  /\ mishaps' = mishaps + 1
  /\ at[p] # Closed \/ stage[p] # "none"
  /\ Raise(p)
  /\ stage' = [stage EXCEPT ![p] = "none"]
  /\ unclean' = TRUE
  /\ UNCHANGED <<team, start, rows, main, wal, copy, safety, restores, damaged, lost, shared>>

\* A command commits a row.
Commits(p) ==
  /\ at[p] = Open /\ p \in Writers
  /\ writer = NoProc
  /\ p \notin rows
  /\ rows' = rows \cup {p}
  /\ wal' = "own"
  /\ UNCHANGED <<team, schemaVars, main, copy, stage, safety, restores, damaged, lost, shared, unclean>>

\* cmd_backup: conn.backup takes what is committed, log included.
Backup(p) ==
  /\ at[p] = Open /\ p \in Writers
  /\ copy' = Content
  /\ UNCHANGED <<team, schemaVars, rows, main, wal, stage, safety, restores, damaged, lost, shared, unclean>>

\* Mutant: the safety copy is made when the file has been replaced.
SaveTooLate(p) ==
  /\ at[p] = Closed /\ p \in team \cap Restorers /\ stage[p] = "none"
  /\ copy # NoCopy
  /\ restores < MaxRestores
  /\ restores' = restores + 1
  /\ safety' = copy
  /\ stage' = [stage EXCEPT ![p] = "overwrite"]
  /\ shared' = (shared \/ Attached # {} \/ Restoring # {})
  /\ UNCHANGED <<team, schemaVars, rows, main, wal, copy, damaged, lost, unclean>>

\* cmd_restore.  Save: copy2 of the main file alone.
Save(p) ==
  /\ at[p] = Closed /\ p \in team \cap Restorers /\ stage[p] = "none"
  /\ copy # NoCopy
  /\ restores < MaxRestores
  /\ restores' = restores + 1
  /\ safety' = main
  /\ stage' = [stage EXCEPT ![p] = "overwrite"]
  /\ shared' = (shared \/ Attached # {} \/ Restoring # {})
  /\ UNCHANGED <<team, schemaVars, rows, main, wal, copy, damaged, lost, unclean>>

\* copy2 over the main file; a log that is there is another file's from now on.
Overwrite(p) ==
  /\ stage[p] = "overwrite"
  /\ main' = copy
  /\ disk' = copy.db
  /\ rows' = copy.rows
  /\ lost' = lost \cup (rows \ safety.rows)
  /\ wal' = IF wal = "none" THEN "none" ELSE "foreign"
  /\ damaged' = (Attached # {})
  /\ stage' = [stage EXCEPT ![p] = "unlink"]
  /\ UNCHANGED <<team, writer, pend, at, seen, found, start, mishaps, copy, safety, restores, shared, unclean>>

\* The sidecars go; then the restore connects, which migrates, and verifies.
Unlink(p) ==
  /\ stage[p] = "unlink"
  /\ wal' = "none"
  /\ damaged' = (Attached # {})
  /\ disk' = main.db
  /\ rows' = main.rows
  /\ lost' = lost \cup (rows \ main.rows)
  /\ stage' = [stage EXCEPT ![p] = "verify"]
  /\ UNCHANGED <<team, writer, pend, at, seen, found, start, mishaps, main, copy, safety, restores, shared, unclean>>

LocalInit ==
  /\ rows = {}
  /\ \E c \in Cases, without \in {{}, {17, 19}, {41}} :
       /\ InitAt(c[1], without)
       /\ team = c[3]
       /\ copy = IF c[2] = NoCopy THEN NoCopy ELSE [db |-> DatabaseOf(c[2], {}), rows |-> {}]
  /\ main = Content
  /\ wal = "none"
  /\ stage = [p \in Procs |-> "none"]
  /\ safety = NoCopy
  /\ restores = 0
  /\ damaged = FALSE /\ shared = FALSE /\ unclean = FALSE
  /\ lost = {}

LocalNext ==
  /\ ~damaged
  /\ \E p \in Procs :
          \/ Opens(p) \/ Runs(p) \/ Leaves(p) \/ Dies(p) \/ Commits(p)
          \/ Backup(p) \/ Save(p) \/ Overwrite(p) \/ Unlink(p)

LocalFairness ==
  \A p \in Procs : WF_vars(~damaged /\ Opens(p)) /\ WF_vars(~damaged /\ Runs(p))
                   /\ WF_vars(~damaged /\ (Overwrite(p) \/ Unlink(p)))

LocalSpec == LocalInit /\ [][LocalNext]_vars
FairLocalSpec == LocalSpec /\ LocalFairness

-----------------------------------------------------------------------------
\* Types; without a log, the main file is the database.
LocalTypeOK ==
  /\ TypeOK
  /\ rows \subseteq Procs /\ lost \subseteq Procs
  /\ wal \in {"none", "own", "foreign"}
  /\ stage \in [Procs -> {"none", "overwrite", "unlink", "verify"}]
  /\ wal = "none" /\ ~damaged => main = Content

\* Whoever has connected finds a current schema, also after the restore of an
\* older backup (and the state is well typed).
OpenIsCurrent == LocalTypeOK /\ (~damaged => OpenMeansCurrent)

\* What a restore overwrites is in its safety copy, and no main file is ever
\* read through another one's log, unless somebody was connected meanwhile, or
\* a killed process left a log: the copy is of the main file alone
\* (cli_local_data.py:97), and the log goes in a step of its own (:100-103).
RestoreKeeps == lost # {} \/ damaged => shared \/ unclean

\* Whoever connects, again after a failure, gets in: migrations that were cut
\* off or raced are finished by a later connect.
GetsIn == \A p \in Procs : (p \in team /\ start \notin {41, 42}) ~> (at[p] = Open \/ damaged)
=============================================================================
