--------------------------- MODULE Autopilot_proofs ---------------------------
(***************************************************************************)
(* Proofs about Ingest: its types, and that each inbox row has one work    *)
(* item and each item its import row, except where a pipeline was          *)
(* interrupted, for any number of items, titles and processes.             *)
(*                                                                         *)
(* Proofs about Autopilot: its cycles are runs of Ingest, so each inbox    *)
(* row has one work item here too; its types; and that each signal has one *)
(* task, unless a failed cycle stranded it.                                *)
(***************************************************************************)
EXTENDS Autopilot, FiniteSetTheorems, TLAPS

-----------------------------------------------------------------------------
(* Ingest.                                                                 *)

\* What a process has read of the external items has one row per item.
OnePerItem(S) == S \subseteq Versions /\ \A v, w \in S : v[1] = w[1] => v = w

GotIsSound ==
  \A p \in Procs :
    /\ pc[p] \in {"fetched", "listed", "planned"} => OnePerItem(got[p])
    /\ pc[p] = "batched" => \A r \in got[p] : inbox[r] # "none"

\* The titles at hand exist.
TitlesExist ==
  \A i \in Items : /\ remote[i] # 0 => <<i, remote[i]>> \in Versions
                   /\ external[i] # 0 => <<i, external[i]>> \in Versions

IInv == IngestTypeOK /\ EachRowOnce /\ GotIsSound /\ TitlesExist

-----------------------------------------------------------------------------
\* A version is a pair of an item and a title above 0.
LEMMA VersionPairs ==
  ASSUME NEW v \in Versions
  PROVE  /\ v[1] \in Items /\ v[2] \in Titles /\ v[2] # 0
         /\ v = <<v[1], v[2]>>
<1>1. v \in Items \X (Nat \ {0})
  BY IngestAssumption
<1>2. QED
  BY <1>1 DEF Titles

\* A list of items with the title each has somewhere.
LEMMA ListOfItems ==
  ASSUME NEW f, NEW S \in SUBSET Items,
         \A i \in S : <<i, f[i]>> \in Versions
  PROVE  OnePerItem({<<i, f[i]>> : i \in S})
<1>1. \A v \in {<<i, f[i]>> : i \in S} : v[1] \in S /\ v = <<v[1], f[v[1]]>>
  OBVIOUS
<1>2. QED
  BY <1>1 DEF OnePerItem

\* The rows that a sync fetches, and the rows that wait for their import.
LEMMA ReadRows ==
  ASSUME IInv
  PROVE  /\ OnePerItem({<<i, remote[i]>> : i \in {j \in Items : remote[j] # 0}})
         /\ OnePerItem(Unimported)
<1>1. OnePerItem({<<i, remote[i]>> : i \in {j \in Items : remote[j] # 0}})
  <2> DEFINE S == {j \in Items : remote[j] # 0}
  <2>1. S \in SUBSET Items /\ \A i \in S : <<i, remote[i]>> \in Versions
    BY DEF IInv, TitlesExist
  <2> HIDE DEF S
  <2>2. OnePerItem({<<i, remote[i]>> : i \in S})
    BY <2>1, ListOfItems
  <2>3. QED
    BY <2>2 DEF S
<1>2. OnePerItem(Unimported)
  <2> DEFINE S == {j \in Items : external[j] # 0 /\ imported[j] = NoRow}
  <2>1. S \in SUBSET Items /\ \A i \in S : <<i, external[i]>> \in Versions
    BY DEF IInv, TitlesExist
  <2>2. Unimported = {<<i, external[i]>> : i \in S}
    BY DEF Unimported
  <2> HIDE DEF S
  <2>3. QED
    BY <2>1, <2>2, ListOfItems
<1>3. QED
  BY <1>1, <1>2

\* Part of such a list is such a list.
LEMMA PartOfList ==
  ASSUME NEW S, OnePerItem(S), NEW R \in SUBSET S
  PROVE  OnePerItem(R)
BY DEF OnePerItem

\* What a list gives an item, when its row is fresh.
LEMMA ImportedRow ==
  ASSUME IInv, NEW S, OnePerItem(S)
  PROVE  \A i \in Items :
           \/ Imports(S)[i] = imported[i]
              /\ (imported[i] # NoRow \/ \A v \in Fresh(S) : v[1] # i)
           \/ /\ imported[i] = NoRow
              /\ Imports(S)[i] \in Fresh(S) /\ Imports(S)[i][1] = i
<1> SUFFICES ASSUME NEW i \in Items
             PROVE  \/ Imports(S)[i] = imported[i]
                       /\ (imported[i] # NoRow \/ \A v \in Fresh(S) : v[1] # i)
                    \/ /\ imported[i] = NoRow
                       /\ Imports(S)[i] \in Fresh(S) /\ Imports(S)[i][1] = i
  OBVIOUS
<1> DEFINE hit == imported[i] = NoRow /\ \E n \in Titles : <<i, n>> \in Fresh(S)
           pick == CHOOSE r \in Fresh(S) : r[1] = i
<1>1. Imports(S)[i] = IF hit THEN pick ELSE imported[i]
  BY DEF Imports
<1>2. CASE hit
  <2>1. \E r \in Fresh(S) : r[1] = i
    BY <1>2
  <2>2. pick \in Fresh(S) /\ pick[1] = i
    BY <2>1
  <2>3. QED
    BY <1>1, <1>2, <2>2
<1>3. CASE ~hit
  <2>1. ASSUME NEW v \in Fresh(S), v[1] = i, imported[i] = NoRow
        PROVE  FALSE
    <3>1. v \in Versions
      BY <2>1 DEF Fresh, OnePerItem
    <3>2. v = <<i, v[2]>> /\ v[2] \in Titles
      BY <2>1, <3>1, VersionPairs
    <3>3. QED
      BY <1>3, <2>1, <3>2
  <2>2. QED
    BY <1>1, <1>3, <2>1
<1>4. QED
  BY <1>2, <1>3

-----------------------------------------------------------------------------
\* The parts of EachRowOnce.
WorkedOnce ==
  \A r \in Rows :
    /\ works[r] = 0 \/ works[r] = 1
    /\ inbox[r] = "triaged" => works[r] = 1
    /\ works[r] = 1 => inbox[r] = "triaged" \/ (inbox[r] = "new" /\ r \in torn)

ImportedIfInboxed ==
  \A i \in Items :
    /\ imported[i] = NoRow => i \in loose \/ \A v \in Versions : v[1] = i => inbox[v] = "none"
    /\ imported[i] # NoRow => imported[i][1] = i /\ inbox[imported[i]] # "none"

OneTitleUnlessLoose ==
  \A v, w \in Versions : /\ v[1] = w[1] /\ v # w
                         /\ inbox[v] # "none" /\ inbox[w] # "none"
                         => v[1] \in loose

LEMMA Parts == EachRowOnce <=> WorkedOnce /\ ImportedIfInboxed /\ OneTitleUnlessLoose
BY DEF EachRowOnce, WorkedOnce, ImportedIfInboxed, OneTitleUnlessLoose

\* A process that reads or leaves keeps what all have read sound, if no inbox
\* row is removed.
LEMMA SoundAfterRead ==
  ASSUME IInv, NEW p \in Procs, NEW point, NEW S, Read(p, point, S),
         \A r \in Rows : inbox[r] # "none" => inbox'[r] # "none",
         point \in {"fetched", "listed", "planned"} => OnePerItem(S),
         point = "batched" => \A r \in S : inbox'[r] # "none"
  PROVE  GotIsSound'
<1> SUFFICES ASSUME NEW q \in Procs
             PROVE  /\ pc'[q] \in {"fetched", "listed", "planned"} => OnePerItem(got'[q])
                    /\ pc'[q] = "batched" => \A r \in got'[q] : inbox'[r] # "none"
  BY DEF GotIsSound, OnePerItem
<1>1. CASE q = p
  <2>1. pc'[q] = point /\ got'[q] = S
    BY <1>1 DEF Read, IInv, IngestTypeOK
  <2>2. QED
    BY <2>1
<1>2. CASE q # p
  <2>1. pc'[q] = pc[q] /\ got'[q] = got[q] /\ got[q] \subseteq Rows
    BY <1>2 DEF Read, IInv, IngestTypeOK
  <2>2. QED
    BY <2>1 DEF IInv, GotIsSound
<1>3. QED
  BY <1>1, <1>2

\* Fresh rows of a list of external items enter the inbox, L of them with the
\* imports they are due; the others, and those of an imported item, are noted.
LEMMA ImportsKeepOrder ==
  ASSUME IInv, NEW S, OnePerItem(S), NEW L \in SUBSET S,
         imported' = Imports(L),
         \A r \in Rows : inbox'[r] # "none" <=> inbox[r] # "none" \/ r \in Fresh(S),
         loose \cup {r[1] : r \in Retitled(S) \cup (S \ L)} \subseteq loose'
  PROVE  ImportedIfInboxed' /\ OneTitleUnlessLoose'
<1> USE DEF Rows
<1>1. ImportedIfInboxed /\ OneTitleUnlessLoose
  BY Parts DEF IInv
<1>2. /\ OnePerItem(L)
      /\ Fresh(L) \subseteq Versions /\ Fresh(L) \subseteq Fresh(S)
  BY DEF Fresh, OnePerItem
<1>3. ASSUME NEW i \in Items
      PROVE  /\ imported'[i] = NoRow
                  => i \in loose' \/ \A v \in Versions : v[1] = i => inbox'[v] = "none"
             /\ imported'[i] # NoRow => imported'[i][1] = i /\ inbox'[imported'[i]] # "none"
  <2>1. CASE imported'[i] = imported[i] /\ imported[i] # NoRow
    <3>1. imported[i] \in Rows /\ imported[i][1] = i /\ inbox[imported[i]] # "none"
      BY <1>1, <2>1 DEF ImportedIfInboxed, IInv, IngestTypeOK
    <3>2. QED
      BY <2>1, <3>1
  <2>2. CASE imported'[i] = NoRow /\ imported[i] = NoRow /\ \A v \in Fresh(L) : v[1] # i
    <3>1. i \in loose \/ \A v \in Versions : v[1] = i => inbox[v] = "none"
      BY <1>1, <2>2 DEF ImportedIfInboxed
    <3>2. \A v \in Fresh(S) : v[1] = i => v \in S \ L
      BY <2>2 DEF Fresh
    <3>3. \A v \in Fresh(S) : v[1] = i => i \in loose'
      BY <3>2
    <3>4. QED
      BY <2>2, <3>1, <3>3
  <2>3. CASE imported'[i] \in Fresh(L) /\ imported'[i][1] = i
    <3>1. imported'[i] \in Rows /\ imported'[i] # NoRow
      BY <1>2, <2>3, IngestAssumption
    <3>2. QED
      BY <1>2, <2>3, <3>1
  <2>4. QED
    BY <1>2, <2>1, <2>2, <2>3, ImportedRow
<1>4. ASSUME NEW v \in Versions, NEW w \in Versions, v[1] = w[1], v # w,
             inbox'[v] # "none", inbox'[w] # "none"
      PROVE  v[1] \in loose'
  <2>1. CASE inbox[v] # "none" /\ inbox[w] # "none"
    BY <1>1, <1>4, <2>1 DEF OneTitleUnlessLoose
  <2>2. CASE v \in Fresh(S) /\ imported[v[1]] # NoRow
    BY <2>2 DEF Retitled
  <2>3. CASE w \in Fresh(S) /\ imported[w[1]] # NoRow
    BY <1>4, <2>3 DEF Retitled
  <2>4. CASE imported[v[1]] = NoRow /\ v[1] \notin loose
    <3>1. inbox[v] = "none" /\ inbox[w] = "none"
      BY <1>1, <1>4, <2>4, VersionPairs DEF ImportedIfInboxed
    <3>2. v \in S /\ w \in S
      BY <1>4, <3>1 DEF Fresh
    <3>3. QED
      BY <1>4, <3>2 DEF OnePerItem
  <2>5. QED
    BY <1>4, <2>1, <2>2, <2>3, <2>4
<1>5. QED
  BY <1>3, <1>4 DEF ImportedIfInboxed, OneTitleUnlessLoose

\* The types of the tables after an import.
LEMMA ImportsTyped ==
  ASSUME IInv, NEW S, OnePerItem(S)
  PROVE  Imports(S) \in [Items -> Versions \cup {NoRow}]
<1>1. ASSUME NEW i \in Items
      PROVE  Imports(S)[i] \in Versions \cup {NoRow}
  BY ImportedRow DEF Fresh, OnePerItem, IInv, IngestTypeOK
<1>2. QED
  BY <1>1 DEF Imports

-----------------------------------------------------------------------------
LEMMA InitInv == IngestInit => IInv
BY IngestAssumption
   DEF IngestInit, IInv, IngestTypeOK, EachRowOnce, GotIsSound, TitlesExist, Rows

\* A step that writes no table.
LEMMA ReadStep ==
  ASSUME IInv, NEW p \in Procs, NEW point, NEW S, Read(p, point, S),
         UNCHANGED <<tables, histories>>,
         point \in {"off", "fetched", "listed", "batched", "planned"},
         S \subseteq Rows,
         point \in {"fetched", "listed", "planned"} => OnePerItem(S),
         point = "batched" => \A r \in S : inbox[r] # "none"
  PROVE  IInv'
<1>1. IngestTypeOK'
  BY DEF Read, tables, histories, IInv, IngestTypeOK
<1>2. EachRowOnce'
  BY DEF tables, histories, IInv, EachRowOnce
<1>3. GotIsSound'
  BY SoundAfterRead DEF tables
<1>4. TitlesExist'
  BY DEF tables, IInv, TitlesExist
<1>5. QED
  BY <1>1, <1>2, <1>3, <1>4 DEF IInv

LEMMA ReadsKeepInv == ASSUME IInv, NEW p \in Procs, Reads(p) \/ Abandon(p) PROVE IInv'
<1> USE DEF Rows
<1>1. \A S : OnePerItem(S) => S \subseteq Rows
  BY DEF OnePerItem
<1>2. CASE Fetch(p)
  BY <1>1, <1>2, ReadRows, ReadStep DEF Fetch
<1>3. ASSUME NEW S \in SUBSET Unimported PROVE OnePerItem(S)
  <2>1. OnePerItem(Unimported)
    BY ReadRows
  <2>2. QED
    BY <2>1, PartOfList
<1>4. CASE List(p)
  <2>1. PICK S \in SUBSET Unimported : Read(p, "listed", S)
    BY <1>4 DEF List
  <2>2. QED
    BY <1>1, <1>3, <1>4, <2>1, ReadStep DEF List
<1>5. CASE Batch(p)
  <2>1. New \subseteq Rows /\ \A r \in New : inbox[r] # "none"
    BY DEF New
  <2>2. QED
    BY <1>5, <2>1, ReadStep DEF Batch
<1>6. CASE Plan(p)
  <2>1. PICK S \in SUBSET Unimported : Read(p, "planned", S)
    BY <1>6 DEF Plan
  <2>2. QED
    BY <1>1, <1>3, <1>6, <2>1, ReadStep DEF Plan
<1>7. CASE Abandon(p)
  BY <1>7, ReadStep DEF Abandon, Leave
<1>8. QED
  BY <1>2, <1>4, <1>5, <1>6, <1>7 DEF Reads

LEMMA StoreKeepsInv == ASSUME IInv, NEW p \in Procs, Store(p) PROVE IInv'
<1>1. PICK S \in SUBSET got[p] :
        external' = [i \in Items |-> IF \E n \in Titles : <<i, n>> \in S
                                    THEN CHOOSE n \in Titles : <<i, n>> \in S
                                    ELSE external[i]]
  BY DEF Store
<1>2. ASSUME NEW i \in Items
      PROVE  external'[i] \in Titles \cup {0}
             /\ (external'[i] # 0 => <<i, external'[i]>> \in Versions)
  <2>1. CASE \E n \in Titles : <<i, n>> \in S
    <3> DEFINE pick == CHOOSE n \in Titles : <<i, n>> \in S
    <3>1. pick \in Titles /\ <<i, pick>> \in S
      BY <2>1
    <3>2. external'[i] = pick
      BY <1>1, <2>1
    <3>3. got[p] \subseteq Versions
      BY DEF Store, IInv, GotIsSound, OnePerItem
    <3>4. QED
      BY <3>1, <3>2, <3>3
  <2>2. CASE ~ \E n \in Titles : <<i, n>> \in S
    BY <1>1, <2>2 DEF IInv, IngestTypeOK, TitlesExist
  <2>3. QED
    BY <2>1, <2>2
<1>3. external' \in [Items -> Titles \cup {0}]
  BY <1>1, <1>2
<1>4. IngestTypeOK'
  BY <1>3 DEF Store, Leave, Read, histories, IInv, IngestTypeOK
<1>5. EachRowOnce'
  BY DEF Store, histories, IInv, EachRowOnce
<1>6. GotIsSound'
  BY SoundAfterRead DEF Store, Leave
<1>7. TitlesExist'
  BY <1>2 DEF Store, IInv, TitlesExist
<1>8. QED
  BY <1>4, <1>5, <1>6, <1>7 DEF IInv

LEMMA ImportKeepsInv == ASSUME IInv, NEW p \in Procs, Import(p) PROVE IInv'
<1> DEFINE S == got[p]
<1>1. OnePerItem(S)
  BY DEF Import, IInv, GotIsSound
<1>2. CASE Retitled(S) # {}
  BY <1>2, ReadStep DEF Import, Leave, tables, histories
<1>3. CASE Retitled(S) = {}
  <2>1. /\ inbox' = [r \in Rows |-> IF r \in Fresh(S) THEN "new" ELSE inbox[r]]
        /\ imported' = Imports(S)
    BY <1>3 DEF Import
  <2>2. \A r \in Rows : inbox'[r] # "none" <=> inbox[r] # "none" \/ r \in Fresh(S)
    BY <2>1
  <2>3. IngestTypeOK'
    BY <1>1, <2>1, ImportsTyped
       DEF Import, Leave, Read, histories, IInv, IngestTypeOK
  <2>4. WorkedOnce'
    <3>1. \A r \in Rows : inbox[r] # "none" => inbox'[r] = inbox[r]
      BY <2>1 DEF Fresh
    <3>2. \A r \in Rows : inbox'[r] = "triaged" => inbox[r] = "triaged"
      BY <2>1
    <3>3. WorkedOnce /\ works' = works /\ torn' = torn
      BY Parts DEF IInv, Import, histories
    <3>4. QED
      BY <3>1, <3>2, <3>3 DEF WorkedOnce
  <2>5. ImportedIfInboxed' /\ OneTitleUnlessLoose'
    BY <1>1, <1>3, <2>1, <2>2, ImportsKeepOrder DEF Import, histories
  <2>6. EachRowOnce'
    BY <2>4, <2>5
       DEF EachRowOnce, WorkedOnce, ImportedIfInboxed, OneTitleUnlessLoose
  <2>7. GotIsSound'
    BY <2>2, SoundAfterRead DEF Import, Leave
  <2>8. TitlesExist'
    BY DEF Import, IInv, TitlesExist
  <2>9. QED
    BY <2>3, <2>6, <2>7, <2>8 DEF IInv
<1>4. QED
  BY <1>2, <1>3

LEMMA TriageKeepsInv == ASSUME IInv, NEW p \in Procs, Triage(p) PROVE IInv'
<1> DEFINE S == got[p]
<1>1. S \subseteq Rows /\ \A r \in S : inbox[r] # "none"
  BY DEF Triage, IInv, IngestTypeOK, GotIsSound
<1>2. CASE Taken(S)
  BY <1>2, ReadStep DEF Triage, Leave, tables, histories
<1>3. CASE ~Taken(S)
  <2>1. /\ works' = [r \in Rows |-> IF r \in S THEN works[r] + 1 ELSE works[r]]
        /\ inbox' = [r \in Rows |-> IF r \in S THEN "triaged" ELSE inbox[r]]
    BY <1>3 DEF Triage
  <2>2. \A r \in Rows : inbox'[r] = "none" <=> inbox[r] = "none"
    BY <1>1, <2>1
  <2>3. \A r \in S : works[r] = 0
    BY <1>1, <1>3 DEF Taken, IInv, IngestTypeOK
  <2>4. IngestTypeOK'
    BY <2>1 DEF Triage, Leave, Read, histories, IInv, IngestTypeOK
  <2>5. WorkedOnce'
    <3>1. WorkedOnce /\ torn' = torn
      BY Parts DEF IInv, Triage, histories
    <3>2. QED
      BY <2>1, <2>3, <3>1 DEF WorkedOnce
  <2>6. ImportedIfInboxed' /\ OneTitleUnlessLoose'
    <3>1. Versions \subseteq Rows
      BY DEF Rows
    <3>2. ImportedIfInboxed /\ OneTitleUnlessLoose
      BY Parts DEF IInv
    <3>3. imported' = imported /\ loose' = loose
      BY DEF Triage, histories
    <3>4. \A i \in Items : imported[i] # NoRow => imported[i] \in Rows
      BY <3>1 DEF IInv, IngestTypeOK
    <3>5. QED
      BY <2>2, <3>1, <3>2, <3>3, <3>4 DEF ImportedIfInboxed, OneTitleUnlessLoose
  <2>7. EachRowOnce'
    BY <2>5, <2>6
       DEF EachRowOnce, WorkedOnce, ImportedIfInboxed, OneTitleUnlessLoose
  <2>8. GotIsSound'
    BY <2>2, SoundAfterRead DEF Triage, Leave
  <2>9. TitlesExist'
    BY DEF Triage, IInv, TitlesExist
  <2>10. QED
    BY <2>4, <2>7, <2>8, <2>9 DEF IInv
<1>4. QED
  BY <1>2, <1>3

\* What a pipeline writes, in whole or up to where it was interrupted.
LEMMA WrittenKeepsInv ==
  ASSUME IInv, NEW p \in Procs, NEW S, OnePerItem(S), NEW L \in SUBSET S,
         NEW T \in SUBSET Found(S), NEW H \in SUBSET T,
         Written(S, L, T, H), Leave(p), UNCHANGED <<remote, external>>
  PROVE  IInv'
<1>1. /\ inbox' = [r \in Rows |-> IF r \in H THEN "triaged"
                                  ELSE IF r \in Fresh(S) THEN "new" ELSE inbox[r]]
      /\ works' = [r \in Rows |-> IF r \in T /\ works[r] = 0 THEN 1 ELSE works[r]]
      /\ imported' = Imports(L)
      /\ loose' = loose \cup {r[1] : r \in Retitled(S) \cup (S \ L)}
      /\ torn' = torn \cup (S \ L) \cup (T \ H)
  BY DEF Written
<1>2. \A r \in T : r \in Rows /\ (inbox[r] = "new" \/ r \in Fresh(S))
  BY DEF Found, New, Fresh, OnePerItem, Rows
<1>3. \A r \in Rows : inbox'[r] # "none" <=> inbox[r] # "none" \/ r \in Fresh(S)
  BY <1>1, <1>2
<1>4. IngestTypeOK'
  <2>1. Retitled(S) \subseteq Versions /\ S \ L \subseteq Versions /\ OnePerItem(L)
    BY DEF Retitled, Fresh, OnePerItem
  <2>2. loose' \subseteq Items
    BY <1>1, <2>1, VersionPairs DEF IInv, IngestTypeOK
  <2>3. torn' \subseteq Rows
    BY <1>1, <1>2, <2>1 DEF IInv, IngestTypeOK, Rows
  <2>4. imported' \in [Items -> Versions \cup {NoRow}]
    BY <1>1, <2>1, ImportsTyped
  <2>5. inbox' \in [Rows -> {"none", "new", "triaged"}] /\ works' \in [Rows -> Nat]
    BY <1>1 DEF IInv, IngestTypeOK
  <2>6. QED
    BY <2>2, <2>3, <2>4, <2>5 DEF Leave, Read, IInv, IngestTypeOK
<1>5. WorkedOnce'
  <2> SUFFICES ASSUME NEW r \in Rows
               PROVE  /\ works'[r] = 0 \/ works'[r] = 1
                      /\ inbox'[r] = "triaged" => works'[r] = 1
                      /\ works'[r] = 1
                           => inbox'[r] = "triaged" \/ (inbox'[r] = "new" /\ r \in torn')
    BY DEF WorkedOnce
  <2>1. /\ works[r] = 0 \/ works[r] = 1
        /\ inbox[r] = "triaged" => works[r] = 1
        /\ works[r] = 1 => inbox[r] = "triaged" \/ (inbox[r] = "new" /\ r \in torn)
    BY Parts DEF IInv, WorkedOnce
  <2>2. CASE r \in H
    BY <1>1, <2>1, <2>2
  <2>3. CASE r \in T \ H
    BY <1>1, <1>2, <2>1, <2>3
  <2>4. CASE r \notin T
    BY <1>1, <2>1, <2>4 DEF Fresh
  <2>5. QED
    BY <2>2, <2>3, <2>4
<1>6. ImportedIfInboxed' /\ OneTitleUnlessLoose'
  BY <1>1, <1>3, ImportsKeepOrder
<1>7. EachRowOnce'
  BY <1>5, <1>6
     DEF EachRowOnce, WorkedOnce, ImportedIfInboxed, OneTitleUnlessLoose
<1>8. GotIsSound'
  BY <1>3, SoundAfterRead DEF Leave
<1>9. TitlesExist'
  BY DEF IInv, TitlesExist
<1>10. QED
  BY <1>4, <1>7, <1>8, <1>9 DEF IInv

LEMMA PipelineKeepsInv ==
  ASSUME IInv, NEW p \in Procs, RunDay(p) \/ Interrupt(p) PROVE IInv'
<1>1. OnePerItem(got[p])
  BY DEF RunDay, Interrupt, IInv, GotIsSound
<1>2. CASE RunDay(p)
  BY <1>1, <1>2, WrittenKeepsInv DEF RunDay
<1>3. Interrupt(p) => Leave(p) /\ UNCHANGED <<remote, external>>
  BY DEF Interrupt
<1>4. ASSUME Interrupt(p), NEW S \in SUBSET got[p], NEW X, Written(S, S \ X, {}, {})
      PROVE  IInv'
  <2>1. OnePerItem(S)
    BY <1>1, PartOfList
  <2>2. S \ X \in SUBSET S /\ {} \in SUBSET Found(S) /\ {} \in SUBSET {}
    OBVIOUS
  <2>3. QED
    BY <1>3, <1>4, <2>1, <2>2, WrittenKeepsInv
<1>5. ASSUME Interrupt(p), NEW T \in SUBSET Found(got[p]), NEW X,
             Written(got[p], got[p], T, T \ X)
      PROVE  IInv'
  <2>1. got[p] \in SUBSET got[p] /\ T \ X \in SUBSET T
    OBVIOUS
  <2>2. QED
    BY <1>1, <1>3, <1>5, <2>1, WrittenKeepsInv
<1>6. QED
  BY <1>2, <1>4, <1>5 DEF Interrupt

\* What the world does: new titles and captures.
LEMMA WorldKeepsInv == ASSUME IInv, World PROVE IInv'
<1>1. ASSUME NEW i \in Items, Publish(i) PROVE IInv'
  <2>1. PICK n \in Titles : /\ <<i, n>> \in Versions
                            /\ remote' = [remote EXCEPT ![i] = n]
    BY <1>1 DEF Publish
  <2>2. IngestTypeOK'
    BY <1>1, <2>1 DEF Publish, histories, IInv, IngestTypeOK
  <2>3. EachRowOnce'
    BY <1>1 DEF Publish, histories, IInv, EachRowOnce
  <2>4. GotIsSound'
    BY <1>1 DEF Publish, IInv, GotIsSound
  <2>5. TitlesExist'
    <3>1. \A j \in Items : remote'[j] = IF j = i THEN n ELSE remote[j]
      BY <2>1 DEF IInv, IngestTypeOK
    <3>2. QED
      BY <1>1, <2>1, <3>1 DEF Publish, IInv, TitlesExist
  <2>6. QED
    BY <2>2, <2>3, <2>4, <2>5 DEF IInv
<1>2. ASSUME NEW r \in Captures, Capture(r) PROVE IInv'
  <2>1. r \in Rows /\ r \notin Versions
    BY IngestAssumption DEF Rows
  <2>2. inbox' = [inbox EXCEPT ![r] = "new"] /\ inbox[r] = "none"
    BY <1>2 DEF Capture
  <2>3. IngestTypeOK'
    BY <1>2, <2>1 DEF Capture, histories, IInv, IngestTypeOK
  <2>4. WorkedOnce'
    BY <1>2, <2>1, <2>2, Parts
       DEF Capture, histories, IInv, IngestTypeOK, WorkedOnce
  <2>5. ImportedIfInboxed' /\ OneTitleUnlessLoose'
    <3>1. \A v \in Versions : inbox'[v] = inbox[v]
      BY <2>1, <2>2 DEF IInv, IngestTypeOK, Rows
    <3>2. \A i \in Items : imported[i] # NoRow => imported[i] \in Versions
      BY DEF IInv, IngestTypeOK
    <3>3. QED
      BY <1>2, <3>1, <3>2, Parts
         DEF Capture, histories, IInv, ImportedIfInboxed, OneTitleUnlessLoose
  <2>6. EachRowOnce'
    BY <2>4, <2>5
       DEF EachRowOnce, WorkedOnce, ImportedIfInboxed, OneTitleUnlessLoose
  <2>7. GotIsSound'
    BY <1>2, <2>1, <2>2
       DEF Capture, IInv, IngestTypeOK, GotIsSound, OnePerItem
  <2>8. TitlesExist'
    BY <1>2 DEF Capture, IInv, TitlesExist
  <2>9. QED
    BY <2>3, <2>6, <2>7, <2>8 DEF IInv
<1>3. QED
  BY <1>1, <1>2 DEF World

LEMMA NextKeepsInv == IInv /\ [IngestNext]_ingestVars => IInv'
<1> SUFFICES ASSUME IInv, [IngestNext]_ingestVars PROVE IInv'
  OBVIOUS
<1>1. CASE World
  BY <1>1, WorldKeepsInv
<1>2. ASSUME NEW p \in Procs, Reads(p) \/ Abandon(p) PROVE IInv'
  BY <1>2, ReadsKeepInv
<1>3. ASSUME NEW p \in Procs, Writes(p) PROVE IInv'
  BY <1>3, StoreKeepsInv, ImportKeepsInv, TriageKeepsInv,
     PipelineKeepsInv DEF Writes
<1>4. CASE UNCHANGED ingestVars
  BY <1>4 DEF ingestVars, tables, histories, IInv, IngestTypeOK, EachRowOnce, GotIsSound,
              TitlesExist
<1>5. QED
  BY <1>1, <1>2, <1>3, <1>4 DEF IngestNext

THEOREM Inductive == IngestSpec => []IInv
BY InitInv, NextKeepsInv, PTL DEF IngestSpec

\* However many syncs, ingests, triages and pipelines overlap, are interrupted and
\* are killed: one work item for each triaged inbox row, and an import row for
\* each item that has an inbox row, except where a pipeline was interrupted.
THEOREM RowsAreWorkedOnce == IngestSpec => []EachRowOnce
<1>1. IInv => EachRowOnce
  BY DEF IInv
<1>2. QED
  BY <1>1, Inductive, PTL

-----------------------------------------------------------------------------
(* Autopilot: its types.                                                   *)

\* What is in the hands of a cycle.
Hand(p) == current[p] \cup made[p]

\* Only the writer has tasks that are not committed.
MadeByWriter == \A p \in Loops : writer # p => made[p] = {}

\* The signal a cycle is at, if its transaction is closed, was committed by the
\* provider's audit.
CurrentIsCommitted ==
  \A p \in Loops : writer # p => \A s \in current[p] : signals[s] = "detected"

\* A cycle is at one signal, which it has not made a task for.
AtOneSignal ==
  \A p \in Loops : /\ \A s, t \in current[p] : s = t
                   /\ current[p] \cap made[p] = {}

\* No two cycles have the same signal.
OneHandEach ==
  \A p, q \in Loops : p # q => Hand(p) \cap Hand(q) = {}

\* A cycle has no signal that is delegated, and at most one that is recorded.
HandIsOpen ==
  \A p \in Loops :
    /\ \A s \in Hand(p) : signals[s] # "delegated"
    /\ \A s, t \in Hand(p) : signals[s] = "detected" /\ signals[t] = "detected" => s = t

OneTaskEach == \A s \in Keys : tasks[s] = IF signals[s] = "delegated" THEN 1 ELSE 0

FewStranded == IsFiniteSet(Stranded) /\ Cardinality(Stranded) <= failures

SignalInv == /\ MadeByWriter /\ CurrentIsCommitted /\ AtOneSignal
             /\ OneHandEach /\ HandIsOpen /\ OneTaskEach /\ FewStranded

\* A goal that is due has a window.
DueExist == \A g \in due : window[g] \in Windows

PInv == TypeOK /\ DueExist /\ SignalInv

-----------------------------------------------------------------------------
(* The cycles and Ingest.                                                  *)

LEMMA StepIngests == [Next]_vars => [IngestNext]_ingestVars
<1> USE AutopilotAssumption
<1>1. ASSUME NEW p \in Loops, Begin(p) \/ StageSkip(p) \/ Detect(p) \/ Record(p)
                              \/ MakeTask(p) \/ Audit(p) \/ End(p)
      PROVE  UNCHANGED ingestVars
  BY <1>1 DEF Begin, StageSkip, Detect, Record, MakeTask, Audit, End
<1>2. ASSUME NEW p \in Loops, StageRead(p) \/ StageWrite(p)
      PROVE  IngestNext
  BY <1>2 DEF StageRead, StageWrite, IngestNext, Reads, Writes
<1>3. ASSUME NEW p \in Loops, SyncFails(p) \/ Fail(p)
      PROVE  [IngestNext]_ingestVars
  BY <1>3 DEF SyncFails, Fail, IngestNext
<1>4. ASSUME NEW p \in Procs, UserStep(p) \/ UserLost(p)
      PROVE  IngestNext
  BY <1>4 DEF UserStep, UserLost, IngestNext
<1>5. ASSUME NEW g \in Goals, NextWindow(g) PROVE UNCHANGED ingestVars
  BY <1>5 DEF NextWindow
<1>6. ASSUME NEW r \in Risky, Close(r) PROVE UNCHANGED ingestVars
  BY <1>6 DEF Close
<1>7. CASE WorldStep
  BY <1>7 DEF WorldStep, IngestNext
<1>8. CASE UNCHANGED vars
  BY <1>8 DEF vars
<1>9. QED
  BY <1>1, <1>2, <1>3, <1>4, <1>5, <1>6, <1>7, <1>8 DEF Next, Work

\* The cycles of the autopilot, next to the commands of users, are a run of
\* Ingest.
THEOREM CyclesIngest == Spec => IngestSpec
<1>1. Init => IngestInit
  BY DEF Init
<1>2. QED
  BY <1>1, StepIngests, PTL DEF Spec, IngestSpec

\* So the work list has one work item per inbox row, and an import row for each
\* item in the inbox, under any number of autopilots too.
THEOREM CyclesWorkOnce == Spec => []EachRowOnce
BY CyclesIngest, RowsAreWorkedOnce

-----------------------------------------------------------------------------
LEMMA InitPInv == Init => PInv
<1> SUFFICES ASSUME Init PROVE PInv
  OBVIOUS
<1>1. Stranded = {}
  BY DEF Init, Stranded
<1>2. FewStranded
  BY <1>1, FS_EmptySet DEF Init, FewStranded
<1>3. IngestTypeOK
  BY InitInv DEF Init, IInv
<1>4. TypeOK
  BY <1>3, AutopilotAssumption DEF Init, TypeOK
<1>5. QED
  BY <1>2, <1>4
     DEF Init, PInv, DueExist, SignalInv, MadeByWriter, CurrentIsCommitted,
         AtOneSignal, OneHandEach, HandIsOpen, Hand, OneTaskEach

\* Steps that touch no signal.
LEMMA SignalsUntouched ==
  ASSUME SignalInv, UNCHANGED <<current, made, writer, signals, tasks>>,
         failures' \in Nat, failures' >= failures, failures \in Nat
  PROVE  SignalInv'
<1>1. Stranded' = Stranded
  BY DEF Stranded
<1>2. FewStranded'
  BY <1>1, FS_CardinalityType DEF SignalInv, FewStranded
<1>3. QED
  BY <1>2 DEF SignalInv, MadeByWriter, CurrentIsCommitted,
         AtOneSignal, OneHandEach, HandIsOpen, Hand, OneTaskEach

\* Loops see the types of what a step does to the tables.
LEMMA TablesTyped == ASSUME IInv, [IngestNext]_ingestVars PROVE IngestTypeOK'
BY NextKeepsInv DEF IInv

LEMMA TypesKept == PInv /\ IInv /\ [Next]_vars => TypeOK' /\ DueExist'
<1> SUFFICES ASSUME PInv, IInv, [Next]_vars PROVE TypeOK' /\ DueExist'
  OBVIOUS
<1> USE AutopilotAssumption
<1>0. IngestTypeOK'
  BY StepIngests, TablesTyped
<1>1. ASSUME NEW p \in Procs, UserStep(p) \/ UserLost(p) PROVE TypeOK' /\ DueExist'
  BY <1>0, <1>1 DEF UserStep, UserLost, pilotVars, cycleVars, goalVars,
                    PInv, TypeOK, DueExist
<1>2. CASE WorldStep
  BY <1>0, <1>2 DEF WorldStep, pilotVars, cycleVars, goalVars, PInv, TypeOK, DueExist
<1>3. ASSUME NEW g \in Goals, NextWindow(g) PROVE TypeOK' /\ DueExist'
  <2>1. window[g] + 1 \in Windows
    BY <1>3 DEF NextWindow, PInv, TypeOK, Windows
  <2>2. TypeOK'
    BY <1>0, <1>3, <2>1 DEF NextWindow, cycleVars, PInv, TypeOK
  <2>3. DueExist'
    BY <1>3, <2>1 DEF NextWindow, PInv, TypeOK, DueExist
  <2>4. QED
    BY <2>2, <2>3
<1>4. ASSUME NEW p \in Loops, Begin(p) \/ StageRead(p) \/ StageSkip(p)
                              \/ StageWrite(p) \/ SyncFails(p)
      PROVE  TypeOK' /\ DueExist'
  BY <1>0, <1>4 DEF Begin, StageRead, StageSkip, StageWrite, SyncFails, Goto,
                    pilotVars, cycleVars, goalVars, PInv, TypeOK, DueExist
<1>5. ASSUME NEW p \in Loops, Detect(p) PROVE TypeOK' /\ DueExist'
  <2> DEFINE work  == {<<"work_item", r>> : r \in {q \in Risky : works[q] > 0 /\ q \notin closed}}
             heap  == IF New # {} THEN {Backlog} ELSE {}
             goals == {GoalKey(g) : g \in due}
  <2>1. work \subseteq Keys /\ heap \subseteq Keys
    BY DEF Keys
  <2>2. goals \subseteq Keys
    BY DEF PInv, TypeOK, DueExist, GoalKey, Keys
  <2>3. PICK W \in SUBSET work, H \in SUBSET heap, G \in SUBSET goals :
          queue' = [queue EXCEPT ![p] = W \cup H \cup G]
    BY <1>5 DEF Detect
  <2>4. W \cup H \cup G \in SUBSET Keys
    BY <2>1, <2>2
  <2>5. queue' \in [Loops -> SUBSET Keys]
    BY <2>3, <2>4 DEF PInv, TypeOK
  <2>6. QED
    BY <1>0, <1>5, <2>5 DEF Detect, Goto, goalVars, PInv, TypeOK, DueExist
<1>6. ASSUME NEW p \in Loops, Record(p) PROVE TypeOK' /\ DueExist'
  <2>1. PICK s \in queue[p] :
          /\ queue' = [queue EXCEPT ![p] = @ \ {s}]
          /\ current' = [current EXCEPT ![p] = IF Unknown(p, s) THEN {s} ELSE {}]
    BY <1>6 DEF Record
  <2>2. QED
    BY <1>0, <1>6, <2>1 DEF Record, goalVars, PInv, TypeOK, DueExist
<1>7. ASSUME NEW p \in Loops, MakeTask(p) PROVE TypeOK' /\ DueExist'
  BY <1>0, <1>7 DEF MakeTask, goalVars, PInv, TypeOK, DueExist
<1>8. ASSUME NEW p \in Loops, Audit(p) \/ End(p) PROVE TypeOK' /\ DueExist'
  <2>1. Flush(p) /\ UNCHANGED <<queue, current, closed, window, failures>>
    BY <1>8 DEF Audit, End
  <2>2. stage' \in [Loops -> {"idle", "sync", "ingest", "triage", "detect", "delegate"}]
    BY <1>8 DEF Audit, End, Goto, PInv, TypeOK
  <2>3. signals' \in [Keys -> {"none", "detected", "delegated"}] /\ tasks' \in [Keys -> Nat]
    BY <2>1 DEF Flush, PInv, TypeOK
  <2>4. due' \subseteq due
    BY <2>1 DEF Flush
  <2>5. made' \in [Loops -> SUBSET Keys] /\ writer' = NoProc
    BY <2>1 DEF Flush, PInv, TypeOK
  <2>6. QED
    BY <1>0, <2>1, <2>2, <2>3, <2>4, <2>5 DEF PInv, TypeOK, DueExist
<1>9. ASSUME NEW p \in Loops, Fail(p) PROVE TypeOK' /\ DueExist'
  BY <1>0, <1>9 DEF Fail, Goto, goalVars, PInv, TypeOK, DueExist
<1>10. ASSUME NEW r \in Risky, Close(r) PROVE TypeOK' /\ DueExist'
  BY <1>0, <1>10 DEF Close, cycleVars, goalVars, PInv, TypeOK, DueExist
<1>11. CASE UNCHANGED vars
  BY <1>0, <1>11 DEF vars, pilotVars, cycleVars, goalVars, PInv, TypeOK, DueExist
<1>12. QED
  BY <1>1, <1>2, <1>3, <1>4, <1>5, <1>6, <1>7, <1>8, <1>9, <1>10, <1>11
     DEF Next, Work

-----------------------------------------------------------------------------
(* The signals.                                                            *)

\* A part of the stranded keys is few enough.
LEMMA FewerStranded ==
  ASSUME FewStranded, failures \in Nat, failures' = failures, Stranded' \subseteq Stranded
  PROVE  FewStranded'
BY FS_Subset, FS_CardinalityType DEF FewStranded

LEMMA RecordKeepsSignals == ASSUME PInv, NEW p \in Loops, Record(p) PROVE SignalInv'
<1> USE DEF PInv, SignalInv
<1>1. PICK s \in queue[p] :
        current' = [current EXCEPT ![p] = IF Unknown(p, s) THEN {s} ELSE {}]
  BY DEF Record
<1>2. /\ current[p] = {} /\ writer \in {NoProc, p} /\ writer' = p
      /\ UNCHANGED <<made, signals, tasks, failures>>
  BY DEF Record
<1>3. \A q \in Loops : q # p => current'[q] = current[q] /\ made[q] = {}
  BY <1>1, <1>2, AutopilotAssumption DEF TypeOK, MadeByWriter
<1>4. \/ current'[p] = {}
      \/ current'[p] = {s} /\ signals[s] = "none" /\ s \notin made[p]
  BY <1>1 DEF TypeOK, Unknown
<1>5. MadeByWriter'
  BY <1>2, <1>3 DEF MadeByWriter
<1>6. CurrentIsCommitted'
  BY <1>2, <1>3, AutopilotAssumption DEF CurrentIsCommitted
<1>7. AtOneSignal'
  BY <1>2, <1>3, <1>4 DEF AtOneSignal
<1>8. \A q \in Loops : q # p => Hand(q)' = Hand(q) /\ Hand(p)' \cap Hand(q) = {}
  <2> SUFFICES ASSUME NEW q \in Loops, q # p
               PROVE  Hand(q)' = Hand(q) /\ Hand(p)' \cap Hand(q) = {}
    OBVIOUS
  <2>1. Hand(q)' = current[q] /\ Hand(q) = current[q]
    BY <1>2, <1>3 DEF Hand
  <2>2. \A t \in current[q] : signals[t] = "detected"
    BY <1>2, AutopilotAssumption DEF CurrentIsCommitted
  <2>3. made[p] \cap current[q] = {}
    BY DEF OneHandEach, Hand
  <2>4. QED
    BY <1>2, <1>4, <2>1, <2>2, <2>3 DEF Hand
<1>9. OneHandEach'
  BY <1>8 DEF OneHandEach
<1>10. HandIsOpen'
  BY <1>2, <1>4, <1>8 DEF HandIsOpen, Hand
<1>11. OneTaskEach'
  BY <1>2 DEF OneTaskEach
<1>12. FewStranded'
  <2>1. \A q \in Loops : Hand(q) \subseteq Hand(q)'
    BY <1>2, <1>8 DEF Hand
  <2>2. Stranded' \subseteq Stranded
    BY <1>2, <2>1 DEF Stranded, Hand
  <2>3. QED
    BY <1>2, <2>2, FewerStranded DEF TypeOK
<1>13. QED
  BY <1>5, <1>6, <1>7, <1>9, <1>10, <1>11, <1>12

LEMMA MakeTaskKeepsSignals == ASSUME PInv, NEW p \in Loops, MakeTask(p) PROVE SignalInv'
<1> USE DEF PInv, SignalInv
<1>1. /\ made' = [made EXCEPT ![p] = @ \cup current[p]]
      /\ current' = [current EXCEPT ![p] = {}]
      /\ writer \in {NoProc, p} /\ writer' = p
      /\ UNCHANGED <<signals, tasks, failures>>
  BY DEF MakeTask
<1>2. \A q \in Loops : Hand(q)' = Hand(q)
  BY <1>1 DEF TypeOK, Hand
<1>3. \A q \in Loops : q # p => current'[q] = current[q] /\ made'[q] = {}
  BY <1>1, AutopilotAssumption DEF TypeOK, MadeByWriter
<1>4. MadeByWriter' /\ CurrentIsCommitted'
  BY <1>1, <1>3, AutopilotAssumption DEF MadeByWriter, CurrentIsCommitted
<1>5. AtOneSignal'
  BY <1>1, <1>3 DEF AtOneSignal, TypeOK
<1>6. OneHandEach' /\ HandIsOpen' /\ OneTaskEach'
  BY <1>1, <1>2 DEF OneHandEach, HandIsOpen, OneTaskEach
<1>7. FewStranded'
  <2>1. Stranded' = Stranded
    BY <1>1, <1>2 DEF Stranded, Hand
  <2>2. QED
    BY <1>1, <2>1, FewerStranded DEF TypeOK
<1>8. QED
  BY <1>4, <1>5, <1>6, <1>7

\* A commit delegates the signals the cycle has made tasks for.
LEMMA FlushKeepsSignals ==
  ASSUME PInv, NEW p \in Loops, Flush(p), writer \in {NoProc, p},
         UNCHANGED <<current, failures>>
  PROVE  SignalInv'
<1> USE DEF PInv, SignalInv
<1>1. /\ signals' = [s \in Keys |-> IF s \in made[p] THEN "delegated"
                                   ELSE IF s \in current[p] THEN "detected"
                                   ELSE signals[s]]
      /\ tasks' = [s \in Keys |-> IF s \in made[p] THEN tasks[s] + 1 ELSE tasks[s]]
      /\ made' = [made EXCEPT ![p] = {}]
      /\ writer' = NoProc /\ current' = current /\ failures' = failures
  BY DEF Flush
<1>2. \A q \in Loops : q # p => made[q] = {}
  BY AutopilotAssumption DEF MadeByWriter
<1>3. \A q \in Loops : made'[q] = {} /\ Hand(q)' = current[q]
  BY <1>1, <1>2 DEF TypeOK, Hand
<1>4. \A q \in Loops : current[q] \subseteq Keys /\ current[q] \cap made[p] = {}
  BY DEF TypeOK, AtOneSignal, OneHandEach, Hand
<1>5. \A q \in Loops : \A s \in current[q] : signals'[s] = "detected"
  <2> SUFFICES ASSUME NEW q \in Loops, NEW s \in current[q]
               PROVE  signals'[s] = "detected"
    OBVIOUS
  <2>1. CASE q = p
    BY <1>1, <1>4, <2>1
  <2>2. CASE q # p
    <3>1. s \notin current[p] /\ signals[s] = "detected"
      BY <2>2, AutopilotAssumption DEF OneHandEach, Hand, CurrentIsCommitted
    <3>2. QED
      BY <1>1, <1>4, <3>1
  <2>3. QED
    BY <2>1, <2>2
<1>6. MadeByWriter' /\ CurrentIsCommitted' /\ AtOneSignal'
  BY <1>1, <1>3, <1>5 DEF MadeByWriter, CurrentIsCommitted, AtOneSignal
<1>7. OneHandEach'
  BY <1>3 DEF OneHandEach, Hand
<1>8. HandIsOpen'
  BY <1>3, <1>5 DEF HandIsOpen, AtOneSignal
<1>9. OneTaskEach'
  <2> SUFFICES ASSUME NEW s \in Keys
               PROVE  tasks'[s] = IF signals'[s] = "delegated" THEN 1 ELSE 0
    BY DEF OneTaskEach
  <2>1. tasks[s] = IF signals[s] = "delegated" THEN 1 ELSE 0
    BY DEF OneTaskEach
  <2>2. s \in Hand(p) => signals[s] # "delegated"
    BY DEF HandIsOpen
  <2>3. QED
    BY <1>1, <2>1, <2>2 DEF Hand
<1>10. FewStranded'
  <2>1. ASSUME NEW s \in Stranded' PROVE s \in Stranded
    <3>1. /\ s \in Keys /\ signals'[s] = "detected"
          /\ \A q \in Loops : s \notin current[q]
      BY <1>1, <2>1 DEF Stranded
    <3>2. s \notin made[p] /\ signals[s] = "detected"
      BY <1>1, <3>1
    <3>3. QED
      BY <1>2, <3>1, <3>2 DEF Stranded
  <2>2. QED
    BY <1>1, <2>1, FewerStranded DEF TypeOK
<1>11. QED
  BY <1>6, <1>7, <1>8, <1>9, <1>10

\* A cycle that fails lets go of what it has in hand; at most one of that was
\* committed.
LEMMA FailKeepsSignals == ASSUME PInv, NEW p \in Loops, Fail(p) PROVE SignalInv'
<1> USE DEF PInv, SignalInv
<1>1. /\ current' = [current EXCEPT ![p] = {}]
      /\ made' = [made EXCEPT ![p] = {}]
      /\ writer' = IF writer = p THEN NoProc ELSE writer
      /\ failures' = failures + 1
      /\ UNCHANGED <<signals, tasks>>
  BY DEF Fail
<1>2. /\ current'[p] = {} /\ made'[p] = {} /\ Hand(p)' = {}
      /\ \A q \in Loops : q # p => /\ current'[q] = current[q] /\ made'[q] = made[q]
                                   /\ Hand(q)' = Hand(q)
  BY <1>1 DEF TypeOK, Hand
<1>3. MadeByWriter' /\ CurrentIsCommitted' /\ AtOneSignal'
  BY <1>1, <1>2, AutopilotAssumption
     DEF MadeByWriter, CurrentIsCommitted, AtOneSignal
<1>4. OneHandEach' /\ HandIsOpen'
  BY <1>1, <1>2 DEF OneHandEach, HandIsOpen
<1>5. OneTaskEach'
  BY <1>1 DEF OneTaskEach
<1>6. FewStranded'
  <2> DEFINE lost == {s \in Hand(p) : signals[s] = "detected"}
  <2>1. Stranded' \subseteq Stranded \cup lost
    BY <1>1, <1>2 DEF Stranded, Hand
  <2>2. \A s, t \in lost : s = t
    BY DEF HandIsOpen
  <2>3. PICK x : lost \subseteq {x}
    BY <2>2
  <2>4. /\ IsFiniteSet(Stranded \cup {x})
        /\ Cardinality(Stranded \cup {x}) <= failures + 1
    <3>1. IsFiniteSet(Stranded) /\ Cardinality(Stranded) <= failures
      BY DEF FewStranded
    <3>2. /\ IsFiniteSet(Stranded \cup {x})
          /\ \/ Cardinality(Stranded \cup {x}) = Cardinality(Stranded)
             \/ Cardinality(Stranded \cup {x}) = Cardinality(Stranded) + 1
      BY <3>1, FS_AddElement
    <3>3. Cardinality(Stranded) \in Nat /\ failures \in Nat
      BY <3>1, FS_CardinalityType DEF TypeOK
    <3>4. QED
      BY <3>1, <3>2, <3>3
  <2>5. Stranded' \subseteq Stranded \cup {x}
    BY <2>1, <2>3
  <2>6. IsFiniteSet(Stranded') /\ Cardinality(Stranded') <= failures + 1
    BY <2>4, <2>5, FS_Subset, FS_CardinalityType DEF TypeOK
  <2>7. QED
    BY <1>1, <2>6 DEF FewStranded
<1>7. QED
  BY <1>3, <1>4, <1>5, <1>6

LEMMA SignalsKept == PInv /\ [Next]_vars => SignalInv'
<1> SUFFICES ASSUME PInv, [Next]_vars PROVE SignalInv'
  OBVIOUS
<1>0. failures \in Nat /\ SignalInv
  BY DEF PInv, TypeOK
<1>1. CASE WorldStep
  BY <1>0, <1>1, SignalsUntouched DEF WorldStep, pilotVars, cycleVars
<1>2. ASSUME NEW p \in Procs, UserStep(p) \/ UserLost(p) PROVE SignalInv'
  BY <1>0, <1>2, SignalsUntouched DEF UserStep, UserLost, pilotVars, cycleVars
<1>3. ASSUME NEW g \in Goals, NextWindow(g) PROVE SignalInv'
  BY <1>0, <1>3, SignalsUntouched DEF NextWindow, cycleVars
<1>4. ASSUME NEW p \in Loops, Begin(p) \/ StageRead(p) \/ StageSkip(p)
                              \/ StageWrite(p) \/ SyncFails(p) \/ Detect(p)
      PROVE  SignalInv'
  BY <1>0, <1>4, SignalsUntouched
     DEF Begin, StageRead, StageSkip, StageWrite, SyncFails, Detect, pilotVars,
         cycleVars
<1>5. ASSUME NEW p \in Loops, Audit(p) \/ End(p) PROVE SignalInv'
  BY <1>5, FlushKeepsSignals DEF Audit, End
<1>6. ASSUME NEW r \in Risky, Close(r) PROVE SignalInv'
  BY <1>0, <1>6, SignalsUntouched DEF Close, cycleVars
<1>7. CASE UNCHANGED vars
  BY <1>0, <1>7, SignalsUntouched DEF vars, pilotVars, cycleVars
<1>8. QED
  BY <1>1, <1>2, <1>3, <1>4, <1>5, <1>6, <1>7, RecordKeepsSignals,
     MakeTaskKeepsSignals, FailKeepsSignals DEF Next, Work

-----------------------------------------------------------------------------
THEOREM PilotInductive == Spec => []PInv
<1>1. Spec => []IInv
  BY CyclesIngest, Inductive
<1>2. PInv /\ IInv /\ [Next]_vars => PInv'
  BY TypesKept, SignalsKept DEF PInv
<1>3. QED
  BY <1>1, <1>2, InitPInv, PTL DEF Spec

\* The variables of the cycles keep their types.
THEOREM TypeCorrect == Spec => []TypeOK
<1>1. PInv => TypeOK
  BY DEF PInv
<1>2. QED
  BY <1>1, PilotInductive, PTL

\* However many cycles overlap, fail and are audited: one task for each signal
\* that is delegated, none for another, and one stranded signal at most per
\* cycle that failed.
THEOREM SignalsAreAccounted == Spec => []SignalsAccounted
<1>1. PInv => SignalsAccounted
  BY DEF PInv, SignalInv, SignalsAccounted, OneTaskEach, FewStranded
<1>2. QED
  BY <1>1, PilotInductive, PTL
=============================================================================
