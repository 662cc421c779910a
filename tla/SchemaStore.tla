---------------------------- MODULE SchemaStore -----------------------------
(***************************************************************************)
(* get_connection and initialize_schema (db.py): every process brings the  *)
(* database to the newest version by itself when it connects, statement by *)
(* statement.  Python's sqlite3 opens a transaction at the first INSERT,   *)
(* UPDATE or DELETE; a CREATE or ALTER before that commits by itself, and  *)
(* executescript commits what is open.  A process may be killed between    *)
(* two statements, and two may migrate at once.                            *)
(***************************************************************************)
EXTENDS Migrations, FiniteSets, FiniteSetsExt

CONSTANTS
  Procs,       \* processes, each a command or a loop
  NoProc,
  WithFts5,    \* those whose SQLite has FTS5
  Starts,      \* versions the database may be at
  MaxMishaps   \* bound on kills and waits that time out

ASSUME SchemaStoreAssumption ==
  /\ NoProc \notin Procs /\ WithFts5 \subseteq Procs
  /\ Starts \subseteq 0..EXPECTED_SCHEMA_VERSION
  /\ MaxMishaps \in Nat

VARIABLES
  disk,        \* committed: objs, what was made; recs, rows of schema_migrations
  writer,      \* who has the write lock, with a transaction that is open
  pend,        \* the database as the writer sees it
  at,          \* the statement a process is at; Closed, or Open when connected
  seen,        \* `current`, as a process read it
  found,       \* the columns its last look found
  start,       \* the version the database came with
  mishaps

schemaVars == <<disk, writer, pend, at, seen, found, start, mishaps>>

Closed == 0
Open   == Len(Program) + 1

View(p) == IF writer = p THEN pend ELSE disk
MayWrite(p) == writer \in {NoProc, p}

Nothing == [objs |-> {}, recs |-> {}]

MaxVersion(d) == Max(d.recs \cup {0})

\* Mutant: 41 is not repaired when its row is missing.
DueByVersion(p, j) == Program[j].ver > seen[p] \/ Program[j].ver = 0

\* `if current < v`; 41 also when its row is missing; the base tables always.
Due(p, j) ==
  \/ Program[j].ver > seen[p]
  \/ Program[j].ver = 0
  \/ Program[j].ver = 41 /\ 41 \notin View(p).recs

\* The first statement from i on that is due, or Open: i itself, the first of
\* 41, or the first of a version that is not there.
FirstDue(p, i) ==
  Min({Open} \cup {j \in {i, FirstOf[41], FirstOf[seen[p] + 1]} \cap (i..Len(Program)) : Due(p, j)})

After(p, i) == FirstDue(p, i + 1)

\* The first statement of a later block.
NextBlock(p) == FirstDue(p, FirstOf[Program[at[p]].ver + 1])

GoOn(p) == at' = [at EXCEPT ![p] = After(p, at[p])]
Skip(p) == at' = [at EXCEPT ![p] = NextBlock(p)] /\ UNCHANGED <<disk, writer, pend>>

With(d, objs, recs) == [objs |-> d.objs \cup objs, recs |-> d.recs \cup recs]

\* A CREATE or ALTER: part of the transaction that is open, else by itself.
Ddl(p, d) ==
  IF writer = p THEN pend' = d /\ UNCHANGED <<disk, writer>>
                ELSE disk' = d /\ UNCHANGED <<pend, writer>>

\* An INSERT, UPDATE or DELETE: in a transaction.
Dml(p, d) ==
  /\ pend' = d
  /\ writer' = p
  /\ UNCHANGED disk

\* conn.commit(), or the COMMIT of executescript.
Commit(p) ==
  IF writer = p THEN disk' = pend /\ writer' = NoProc /\ pend' = Nothing
                ELSE UNCHANGED <<disk, writer, pend>>

\* The statement raised: the command ends, and its transaction with it.
Raise(p) ==
  /\ at' = [at EXCEPT ![p] = Closed]
  /\ seen' = [seen EXCEPT ![p] = 0]
  /\ found' = [found EXCEPT ![p] = {}]
  /\ IF writer = p THEN writer' = NoProc /\ pend' = Nothing ELSE UNCHANGED <<writer, pend>>
  /\ UNCHANGED disk

\* get_connection up to the SELECT of MAX(version).
Connect(p) ==
  /\ at[p] = Closed
  /\ disk.objs # {} \/ MayWrite(p)
  /\ seen' = [seen EXCEPT ![p] = MaxVersion(disk)]
  /\ at' = [at EXCEPT ![p] = 1]
  /\ UNCHANGED <<disk, writer, pend, found, start, mishaps>>

Creates(p, s) ==
  /\ s.op = "make" \/ (s.op = "script" /\ writer # p)
  /\ Ddl(p, With(View(p), {s.obj}, {}))
  /\ GoOn(p)
  /\ UNCHANGED <<seen, found>>

\* executescript commits first; the script itself is the next step.
CommitsFirst(p, s) ==
  /\ s.op = "script" /\ writer = p
  /\ Commit(p)
  /\ UNCHANGED <<at, seen, found>>

Looks(p, s) ==
  /\ s.op = "look"
  /\ found' = [found EXCEPT ![p] = View(p).objs \cap ObjectsOf[s.ver]]
  /\ GoOn(p)
  /\ UNCHANGED <<disk, writer, pend, seen>>

\* Mutant: no look before the ALTER of a version.
AltersBlindly(p, s) ==
  /\ s.op \in {"add", "bare", "try"}
  /\ LET there == s.obj \in View(p).objs
     IN \/ there /\ s.op = "try" /\ GoOn(p) /\ UNCHANGED <<disk, writer, pend, seen, found>>
        \/ there /\ s.op # "try" /\ Raise(p)
        \/ ~there /\ Ddl(p, With(View(p), {s.obj}, {})) /\ GoOn(p) /\ UNCHANGED <<seen, found>>

\* A column that is there already raises, unless the code looked or suppresses.
Alters(p, s) ==
  /\ s.op \in {"add", "bare", "try"}
  /\ LET there   == s.obj \in View(p).objs
         skipped == \/ s.op = "add" /\ s.obj \in found[p]
                    \/ s.op = "try" /\ there
     IN \/ skipped /\ GoOn(p) /\ UNCHANGED <<disk, writer, pend, seen, found>>
        \/ ~skipped /\ there /\ Raise(p)
        \/ ~there /\ ~skipped /\ Ddl(p, With(View(p), {s.obj}, {})) /\ GoOn(p) /\ UNCHANGED <<seen, found>>

\* The index fails where a suppressed ALTER did not add its column.
Indexes(p, s) ==
  /\ s.op = "index"
  /\ \/ TriedIn[s.ver] \subseteq View(p).objs
        /\ Ddl(p, With(View(p), {s.obj}, {})) /\ GoOn(p) /\ UNCHANGED <<seen, found>>
     \/ ~(TriedIn[s.ver] \subseteq View(p).objs) /\ Raise(p)

\* Mutant: each version's row is committed at once.
WritesAndCommits(p, s) ==
  /\ s.op \in {"rows", "record", "recordFts"}
  /\ disk' = CASE s.op = "rows"      -> With(View(p), {s.obj}, {})
               [] s.op = "record"    -> With(View(p), {}, {s.ver})
               [] s.op = "recordFts" -> With(View(p), {}, {17, 19})
  /\ writer' = NoProc /\ pend' = Nothing
  /\ GoOn(p)
  /\ found' = [found EXCEPT ![p] = {}]
  /\ UNCHANGED seen

Writes(p, s) ==
  /\ s.op \in {"rows", "record", "recordFts"}
  /\ Dml(p, CASE s.op = "rows"      -> With(View(p), {s.obj}, {})
              [] s.op = "record"    -> With(View(p), {}, {s.ver})
              [] s.op = "recordFts" -> With(View(p), {}, {17, 19}))
  /\ GoOn(p)
  /\ found' = [found EXCEPT ![p] = {}]
  /\ UNCHANGED seen

\* CREATE VIRTUAL TABLE, which an SQLite without FTS5 refuses; _ensure_fts5
\* does not come to it when the table is there.
Fts(p, s) ==
  /\ s.op \in {"fts", "heal"}
  /\ IF p \notin WithFts5 \/ (s.op = "heal" /\ s.obj \in View(p).objs)
       THEN Skip(p)
       ELSE Ddl(p, With(View(p), {s.obj}, {})) /\ GoOn(p)
  /\ UNCHANGED <<seen, found>>

\* 19: only where the index exists; its CREATE TRIGGER has no IF NOT EXISTS.
Refits(p, s) ==
  /\ s.op \in {"drop", "create"}
  /\ LET v == View(p)
     IN IF "text_chunks_fts" \notin v.objs THEN Skip(p) /\ UNCHANGED <<seen, found>>
        ELSE IF s.op = "create" /\ s.obj \in v.objs THEN Raise(p)
        ELSE /\ Ddl(p, IF s.op = "drop" THEN [v EXCEPT !.objs = @ \ {s.obj}]
                                        ELSE With(v, {s.obj}, {}))
             /\ GoOn(p) /\ UNCHANGED <<seen, found>>

Ends(p, s) ==
  /\ s.op = "commit"
  /\ Commit(p)
  /\ GoOn(p)
  /\ UNCHANGED <<seen, found>>

\* A statement that finds its object made writes nothing, and needs no lock.
NeedsLock(p, s) ==
  /\ s.op \notin {"look", "commit"}
  /\ s.op \in {"make", "script", "index", "fts", "heal"} => s.obj \notin View(p).objs
  /\ s.op = "add" => s.obj \notin found[p]
  /\ s.op \in {"bare", "try"} => s.obj \notin View(p).objs
  /\ s.op \in {"fts", "heal"} => p \in WithFts5

Execute(p) ==
  /\ at[p] \in DOMAIN Program
  /\ LET s == Program[at[p]]
     IN /\ NeedsLock(p, s) => MayWrite(p)
        /\ \/ Creates(p, s) \/ CommitsFirst(p, s) \/ Looks(p, s) \/ Alters(p, s)
           \/ Indexes(p, s) \/ Writes(p, s) \/ Fts(p, s) \/ Refits(p, s) \/ Ends(p, s)
  /\ UNCHANGED <<start, mishaps>>

\* busy_timeout: somebody else keeps the write lock for five seconds.  The
\* OperationalError is suppressed at a Try, ends the blocks of the full-text
\* index, and is the end of the command elsewhere.
TimeOut(p) ==
  /\ at[p] \in DOMAIN Program
  /\ ~MayWrite(p)
  /\ mishaps < MaxMishaps
  /\ mishaps' = mishaps + 1
  /\ LET s == Program[at[p]]
     IN /\ NeedsLock(p, s)
        /\ \/ s.op = "try" /\ GoOn(p) /\ UNCHANGED <<disk, writer, pend, seen, found>>
           \/ s.op # "try" /\ s.ver \in {17, Heal} /\ Skip(p) /\ UNCHANGED <<seen, found>>
           \/ s.op # "try" /\ s.ver \notin {17, Heal} /\ Raise(p)
  /\ UNCHANGED start

\* A connected process ends.
Close(p) ==
  /\ at[p] = Open
  /\ at' = [at EXCEPT ![p] = Closed]
  /\ seen' = [seen EXCEPT ![p] = 0]
  /\ found' = [found EXCEPT ![p] = {}]
  /\ UNCHANGED <<disk, writer, pend, start, mishaps>>

\* A database of version s: made by an SQLite with or without FTS5, and
\* perhaps without the row of 41.
DatabaseOf(s, without) ==
  [objs |-> UNION {ObjectsOf[v] : v \in (IF s = 0 THEN {} ELSE 0..s) \ without},
   recs |-> (1..s) \ without]

InitAt(s, without) ==
  /\ \A v \in without : v < s
  /\ disk = DatabaseOf(s, without)
  /\ start = s
  /\ writer = NoProc
  /\ pend = Nothing
  /\ at = [p \in Procs |-> Closed]
  /\ seen = [p \in Procs |-> 0]
  /\ found = [p \in Procs |-> {}]
  /\ mishaps = 0

-----------------------------------------------------------------------------
\* Types; who holds the lock is migrating.
TypeOK ==
  /\ disk.recs \subseteq 1..EXPECTED_SCHEMA_VERSION
  /\ writer \in Procs \cup {NoProc}
  /\ IF writer = NoProc THEN pend = Nothing ELSE at[writer] \in DOMAIN Program
  /\ at \in [Procs -> Closed..Open]
  /\ seen \in [Procs -> 0..EXPECTED_SCHEMA_VERSION]
  /\ mishaps \in 0..MaxMishaps

\* A version that is recorded is there as a whole, however its migration was
\* cut off, repeated or raced.  19 is excepted: of two processes that migrate
\* from 18, the later one drops the trigger again (db.py:870).
RecordedMeansDone ==
  \A v \in disk.recs \ {19} : ObjectsOf[v] \subseteq disk.objs

\* verify_schema: what `myos migrations verify` reports.
MissingVersions == (1..EXPECTED_SCHEMA_VERSION) \ disk.recs

\* Whoever has connected finds every version recorded but those of the
\* full-text index, which may be missing for good.
OpenMeansCurrent ==
  (\E p \in Procs : at[p] = Open) => MissingVersions \subseteq {17, 19}

\* A column of an ALTER without a look, and no row of its version: every
\* connect raises "duplicate column" from here on.
Stranded == \E v \in {42, 43} : ObjectsOf[v] \subseteq disk.objs /\ v \notin disk.recs

\* No crash strands a database, unless it came with exactly the version before
\* such an ALTER, which then is not yet in a transaction (db.py:1754, :1761).
NeverStranded == start \notin {41, 42} => ~Stranded
=============================================================================
