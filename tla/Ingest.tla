------------------------------- MODULE Ingest -------------------------------
(***************************************************************************)
(* From the outside to the work list: a connector's sync copies remote     *)
(* items to external_items (connectors/base.py), ingest makes each of them *)
(* an inbox row, and triage makes each new inbox row a work item           *)
(* (cli_workflow.py); run-day and go-live do the last two in one           *)
(* transaction (cli_operations.py).  What a command decides on it has read *)
(* before its transaction begins, so each command is cut there.            *)
(***************************************************************************)
EXTENDS Naturals, FiniteSets

CONSTANTS
  Items,      \* the items of the remote systems
  Versions,   \* <<i, n>>: the titles an item may have, by number
  Captures,   \* the texts a user captures, or another part of MYOS does
  Procs,      \* processes that may run a command
  Limit,      \* ingest-external --limit
  NoRow,      \* no inbox row
  MaxTorn     \* bound: rows a pipeline is interrupted at

Rows == Versions \cup Captures     \* (text, kind, source) of inbox rows
Titles == {v[2] : v \in Versions}

ASSUME IngestAssumption ==
  /\ Versions \subseteq Items \X (Nat \ {0})
  /\ Limit \in Nat \ {0} /\ MaxTorn \in Nat
  /\ IsFiniteSet(Items)
  /\ NoRow \notin Rows /\ Captures \cap Versions = {}

VARIABLES
  remote,     \* the title each item has at the vendor, 0 before it exists
  external,   \* external_items.title, 0 if the item has no row
  imported,   \* external_imports.inbox_id, or NoRow
  inbox,      \* inbox_items.status, "none" if there is no row
  works,      \* the number of work_items with this inbox_id
  pc,         \* where the command of each process stands
  got,        \* the rows it has read: remote items, external items, or inbox rows
  loose,      \* history: items that a pipeline gave an inbox row and no import row
  torn        \* history: rows a pipeline was interrupted at

tables == <<remote, external, imported, inbox, works>>
histories == <<loose, torn>>
ingestVars == <<tables, pc, got, histories>>

-----------------------------------------------------------------------------
Read(p, point, S) ==
  /\ pc' = [pc EXCEPT ![p] = point]
  /\ got' = [got EXCEPT ![p] = S]

Leave(p) == Read(p, "off", {})

\* An item is created, or gets a new title.
Publish(i) ==
  /\ \E n \in Titles : /\ <<i, n>> \in Versions /\ n > remote[i]
                       /\ remote' = [remote EXCEPT ![i] = n]
  /\ UNCHANGED <<external, imported, inbox, works, pc, got, histories>>

\* fetch_items gets all pages before anything is written.
Fetch(p) ==
  /\ pc[p] = "off"
  /\ Read(p, "fetched", {<<i, remote[i]>> : i \in {j \in Items : remote[j] # 0}})
  /\ UNCHANGED <<tables, histories>>

\* The upserts and the sync state, in one transaction.  When an upsert raises,
\* the error is recorded, and committed with the upserts before it.
Store(p) ==
  /\ pc[p] = "fetched"
  /\ \E S \in SUBSET got[p] :
       external' = [i \in Items |-> IF \E n \in Titles : <<i, n>> \in S
                                   THEN CHOOSE n \in Titles : <<i, n>> \in S
                                   ELSE external[i]]
  /\ Leave(p)
  /\ UNCHANGED <<remote, imported, inbox, works, histories>>

\* Mutant: the LEFT JOIN keeps what is imported.
AllExternal == {<<i, external[i]>> : i \in {j \in Items : external[j] # 0}}

Unimported ==
  {<<i, external[i]>> : i \in {j \in Items : external[j] # 0 /\ imported[j] = NoRow}}

\* ORDER BY fetched_at DESC LIMIT ?: one sync leaves equal times, and the next
\* one renews them, so any order is possible.
Listed(S) ==
  /\ S \subseteq Unimported
  /\ \/ S = Unimported /\ Cardinality(S) <= Limit
     \/ Cardinality(S) = Limit

List(p) ==
  /\ pc[p] = "off"
  /\ \E S \in SUBSET Unimported \ {{}} : Listed(S) /\ Read(p, "listed", S)
  /\ UNCHANGED <<tables, histories>>

\* insert_inbox_item_dedup ignores a row that is there.
Fresh(S) == {r \in S : inbox[r] = "none"}

\* The import row of an item is unique.  A second title of an imported item
\* meets it.
Imports(S) ==
  [i \in Items |-> IF imported[i] = NoRow /\ \E n \in Titles : <<i, n>> \in Fresh(S)
                   THEN CHOOSE r \in Fresh(S) : r[1] = i
                   ELSE imported[i]]

\* The rows among them whose item is imported, under another title.
Retitled(S) == {r \in Fresh(S) : imported[r[1]] # NoRow}

\* cmd_ingest_external: an IntegrityError undoes the whole batch.
Import(p) ==
  /\ pc[p] = "listed"
  /\ IF Retitled(got[p]) # {}
     THEN UNCHANGED <<imported, inbox>>
     ELSE /\ inbox' = [r \in Rows |-> IF r \in Fresh(got[p]) THEN "new" ELSE inbox[r]]
          /\ imported' = Imports(got[p])
  /\ Leave(p)
  /\ UNCHANGED <<remote, external, works, histories>>

-----------------------------------------------------------------------------
New == {r \in Rows : inbox[r] = "new"}

Batch(p) ==
  /\ pc[p] = "off" /\ New # {}
  /\ Read(p, "batched", New)
  /\ UNCHANGED <<tables, histories>>

\* Mutant: work_items without the unique index on inbox_id.
TakenNever(S) == FALSE

Taken(S) == \E r \in S : works[r] > 0

\* cmd_triage: here too, one row that has a work item undoes the whole batch.
Triage(p) ==
  /\ pc[p] = "batched"
  /\ IF Taken(got[p])
     THEN UNCHANGED <<inbox, works>>
     ELSE /\ works' = [r \in Rows |-> IF r \in got[p] THEN works[r] + 1 ELSE works[r]]
          /\ inbox' = [r \in Rows |-> IF r \in got[p] THEN "triaged" ELSE inbox[r]]
  /\ Leave(p)
  /\ UNCHANGED <<remote, external, imported, histories>>

\* run-day and go-live, after their sync.
Plan(p) ==
  /\ pc[p] = "off"
  /\ \E S \in SUBSET Unimported : Listed(S) /\ Read(p, "planned", S)
  /\ UNCHANGED <<tables, histories>>

\* What they write ignores what is there, in external_imports and work_items
\* too: S enters the inbox, L of it with an import row; T has work items, and
\* H of it is marked triaged.
Written(S, L, T, H) ==
  /\ inbox' = [r \in Rows |-> IF r \in H THEN "triaged"
                             ELSE IF r \in Fresh(S) THEN "new" ELSE inbox[r]]
  /\ works' = [r \in Rows |-> IF r \in T /\ works[r] = 0 THEN 1 ELSE works[r]]
  /\ imported' = Imports(L)
  /\ loose' = loose \cup {r[1] : r \in Retitled(S) \cup (S \ L)}
  /\ torn' = torn \cup (S \ L) \cup (T \ H)

Found(S) == New \cup Fresh(S)

RunDay(p) ==
  /\ pc[p] = "planned"
  /\ Written(got[p], got[p], Found(got[p]), Found(got[p]))
  /\ Leave(p)
  /\ UNCHANGED <<remote, external>>

\* The row the pipeline is at, if it is in the middle of one.
AtRow(S) == {X \in {{}} \cup {{r} : r \in S} : Cardinality(torn \cup X) <= MaxTorn}

\* An error, or Ctrl-C, in the loop that ingests or in the one that triages: the
\* finally clause releases the lock, and its commit takes along what is written.
Interrupt(p) ==
  /\ pc[p] = "planned"
  /\ \/ \E S \in SUBSET got[p] :
          \E X \in AtRow(Fresh(S)) : Written(S, S \ X, {}, {})
     \/ \E T \in SUBSET Found(got[p]) :
          \E X \in AtRow(T) : Written(got[p], got[p], T, T \ X)
  /\ Leave(p)
  /\ UNCHANGED <<remote, external>>

\* INSERT OR IGNORE: capture, failed actions, fired reminders.
Capture(r) ==
  /\ inbox[r] = "none"
  /\ inbox' = [inbox EXCEPT ![r] = "new"]
  /\ UNCHANGED <<remote, external, imported, works, pc, got, histories>>

\* The process is killed, or waits five seconds for the database in vain.
Abandon(p) ==
  /\ pc[p] # "off"
  /\ Leave(p)
  /\ UNCHANGED <<tables, histories>>

IngestInit ==
  /\ remote = [i \in Items |-> 0]
  /\ external = [i \in Items |-> 0]
  /\ imported = [i \in Items |-> NoRow]
  /\ inbox = [r \in Rows |-> "none"]
  /\ works = [r \in Rows |-> 0]
  /\ pc = [p \in Procs |-> "off"]
  /\ got = [p \in Procs |-> {}]
  /\ loose = {}
  /\ torn = {}

\* What a process does without writing, and what it writes.
Reads(p)  == Fetch(p) \/ List(p) \/ Batch(p) \/ Plan(p)
Writes(p) == Store(p) \/ Import(p) \/ Triage(p) \/ RunDay(p) \/ Interrupt(p)

World ==
  \/ \E i \in Items : Publish(i)
  \/ \E r \in Captures : Capture(r)

IngestNext == World \/ \E p \in Procs : Reads(p) \/ Writes(p) \/ Abandon(p)

IngestSpec == IngestInit /\ [][IngestNext]_ingestVars

-----------------------------------------------------------------------------
IngestTypeOK ==
  /\ remote \in [Items -> Titles \cup {0}]
  /\ external \in [Items -> Titles \cup {0}]
  /\ imported \in [Items -> Versions \cup {NoRow}]
  /\ inbox \in [Rows -> {"none", "new", "triaged"}]
  /\ works \in [Rows -> Nat]
  /\ pc \in [Procs -> {"off", "fetched", "listed", "batched", "planned"}]
  /\ got \in [Procs -> SUBSET Rows]
  /\ loose \subseteq Items
  /\ torn \subseteq Rows

\* However ingests, triages and pipelines overlap: an inbox row has one work item
\* if it is triaged and none before, unless a pipeline was interrupted at it; an
\* item that has an inbox row, under whatever title, has its import row, so that
\* what insert_inbox_item_dedup passes over does not fill the limit again, and it
\* has one inbox row, except where run-day or go-live left the import row out.
EachRowOnce ==
  /\ \A r \in Rows :
       /\ works[r] = 0 \/ works[r] = 1
       /\ inbox[r] = "triaged" => works[r] = 1
       /\ works[r] = 1 => inbox[r] = "triaged" \/ (inbox[r] = "new" /\ r \in torn)
  /\ \A i \in Items :
       /\ imported[i] = NoRow => i \in loose \/ \A v \in Versions : v[1] = i => inbox[v] = "none"
       /\ imported[i] # NoRow => imported[i][1] = i /\ inbox[imported[i]] # "none"
  /\ \A v, w \in Versions : /\ v[1] = w[1] /\ v # w
                            /\ inbox[v] # "none" /\ inbox[w] # "none"
                            => v[1] \in loose

\* Rows with a work item that are not marked: every triage that finds one is
\* undone, until a pipeline marks it.
HalfTriaged == {r \in Rows : inbox[r] = "new" /\ works[r] > 0}
=============================================================================
