-------------------------- MODULE LocalData_proofs ---------------------------
(***************************************************************************)
(* Proofs about LocalData and SchemaStore, for every number of processes,  *)
(* whatever the database they find: what is recorded was done, whoever is  *)
(* connected has the current schema, no database is stranded, and a        *)
(* restore keeps what it overwrites.                                       *)
(***************************************************************************)
EXTENDS LocalData, WellFoundedInduction, TLAPS

Versions == 1 .. EXPECTED_SCHEMA_VERSION

\* The kinds of statement, and those that make an object.
Makers == {"make", "script", "add", "bare", "try", "index", "rows",
           "fts", "heal", "drop", "create"}
Ops == Makers \cup {"look", "record", "recordFts", "commit"}
IsSeq(s) == \E S : s \in Seq(S)

\* What the blocks of the full-text index make, and what the bare ALTERs do.
FtsObjects == {"text_chunks_fts", "fts_triggers", "fts_rows"}
BareObject(v) == IF v = 42 THEN "factory_runs.persona_name"
                           ELSE "assistant_goals.persona_name"
BareObjects == {BareObject(42), BareObject(43)}

-----------------------------------------------------------------------------
(* The program of initialize_schema.  What the proofs need of it is Good,  *)
(* which holds of each block, and of two sequences of blocks together if   *)
(* it holds of each.                                                       *)

\* Where a kind of statement, or an object, may be.
Fit(s) ==
  /\ s.ver = 0 => s.op = "script"
  /\ s.op = "commit" <=> s.ver = Finish
  /\ s.op \in {"record", "try"} => s.ver \in Versions
  /\ s.op \in {"heal", "recordFts"} => s.ver = Heal
  /\ s.op = "fts" => s.ver = 17
  /\ s.op \in {"drop", "create"} => s.ver = 19 /\ s.obj = "fts_au"
  /\ s.op = "script" => s.ver # 41
  /\ s.op = "add" => s.obj # "fts_au"
  /\ s.obj = "fts_au" => s.ver \in {19, Heal}
  /\ s.ver = 17 => s.op = "record" \/ s.obj \in FtsObjects
  /\ s.ver \in {42, 43} => s.op = "record" \/ (s.op = "bare" /\ s.obj = BareObject(s.ver))
  /\ s.op = "bare" => s.ver \in {42, 43}
  /\ s.obj \in BareObjects => s.op = "bare"

\* A statement that is the last of its block.
Last(s) == s.op \in {"record", "commit"} \/ s.ver = 0

Good(s, a, b) ==
  /\ IsSeq(s)
  /\ \A i \in DOMAIN s : s[i].ver \in a .. b /\ s[i].op \in Ops /\ Fit(s[i])
  /\ \A i, j \in DOMAIN s :
       i < j => s[i].ver <= s[j].ver /\ (Last(s[i]) => s[i].ver < s[j].ver)
  /\ \A v \in a .. b : \E i \in DOMAIN s :
       s[i].ver = v /\ \A j \in DOMAIN s : j < i => s[j].ver < v
  /\ \A i \in DOMAIN s : s[i].ver \in Versions =>
       \E r \in DOMAIN s : s[r].ver = s[i].ver /\ s[r].op = "record"
  /\ \A i \in DOMAIN s : s[i].op = "try" =>
       \E k \in DOMAIN s : s[k].ver = s[i].ver /\ s[k].op = "index"
  /\ \A i \in DOMAIN s : s[i].ver \in {42, 43} =>
       \E k \in DOMAIN s : s[k].ver = s[i].ver /\ s[k].op = "bare"
  /\ \A i \in DOMAIN s : s[i].op = "recordFts" =>
       \A o \in FtsObjects : \E k \in DOMAIN s :
         k < i /\ s[k].ver = Heal /\ s[k].op \in Makers /\ s[k].obj = o

LEMMA ConcatGood ==
  ASSUME NEW a \in Nat, NEW b \in Nat, NEW c \in Nat, a <= b, b < c,
         NEW s, NEW t, Good(s, a, b), Good(t, b + 1, c)
  PROVE  Good(s \o t, a, c)
<1> DEFINE u == s \o t
           m == Len(s)
           n == Len(t)
<1>0. PICK S, T : s \in Seq(S) /\ t \in Seq(T)
  BY DEF Good, IsSeq
<1>1. m \in Nat /\ n \in Nat /\ DOMAIN s = 1 .. m /\ DOMAIN t = 1 .. n
  BY <1>0
<1>2. /\ IsSeq(u) /\ DOMAIN u = 1 .. m + n
      /\ \A i \in 1 .. m : u[i] = s[i]
      /\ \A i \in 1 .. n : u[m + i] = t[i]
  <2>1. s \in Seq(S \cup T) /\ t \in Seq(S \cup T)
    BY <1>0
  <2>2. u \in Seq(S \cup T) /\ Len(u) = m + n
    BY <2>1
  <2>3. IsSeq(u)
    BY <2>2 DEF IsSeq
  <2>4. QED
    BY <2>1, <2>2, <2>3
<1>3. \A i \in 1 .. m + n : i \in 1 .. m \/ (i - m \in 1 .. n /\ i = m + (i - m))
  BY <1>1
<1>4. /\ \A i \in 1 .. m : i \in 1 .. m + n
      /\ \A i \in 1 .. n : m + i \in 1 .. m + n
  BY <1>1
<1> HIDE DEF u, m, n
<1>5. \A i \in DOMAIN u : (i \in 1 .. m /\ u[i] = s[i])
                          \/ (i > m /\ i - m \in 1 .. n /\ u[i] = t[i - m])
  BY <1>1, <1>2, <1>3
<1>6. \A i \in DOMAIN s : i \in DOMAIN u /\ u[i] = s[i]
  BY <1>1, <1>2, <1>4
<1>7. \A i \in DOMAIN t : m + i \in DOMAIN u /\ u[m + i] = t[i]
  BY <1>1, <1>2, <1>4
<1>8. /\ \A i \in DOMAIN s : s[i].ver \in a .. b /\ s[i].op \in Ops /\ Fit(s[i])
      /\ \A i \in DOMAIN t : t[i].ver \in b + 1 .. c /\ t[i].op \in Ops /\ Fit(t[i])
  BY DEF Good
<1>9. \A i \in DOMAIN u : u[i].ver \in a .. c /\ u[i].op \in Ops /\ Fit(u[i])
  <2> SUFFICES ASSUME NEW i \in DOMAIN u
               PROVE  u[i].ver \in a .. c /\ u[i].op \in Ops /\ Fit(u[i])
    OBVIOUS
  <2>1. CASE i \in 1 .. m /\ u[i] = s[i]
    <3>1. s[i].ver \in a .. b /\ s[i].op \in Ops /\ Fit(s[i])
      BY <1>1, <1>8, <2>1
    <3>2. QED
      BY <2>1, <3>1
  <2>2. CASE i - m \in 1 .. n /\ u[i] = t[i - m]
    <3>1. t[i - m].ver \in b + 1 .. c /\ t[i - m].op \in Ops /\ Fit(t[i - m])
      BY <1>1, <1>8, <2>2
    <3>2. QED
      BY <2>2, <3>1
  <2>3. QED
    BY <1>5, <2>1, <2>2
<1>10. ASSUME NEW i \in DOMAIN u, NEW j \in DOMAIN u, i < j
       PROVE  u[i].ver <= u[j].ver /\ (Last(u[i]) => u[i].ver < u[j].ver)
  <2>0. i \in 1 .. m + n /\ j \in 1 .. m + n
    BY <1>2
  <2>1. CASE j \in 1 .. m /\ u[j] = s[j]
    <3>1. i \in 1 .. m /\ u[i] = s[i]
      BY <1>1, <1>2, <1>10, <2>0, <2>1
    <3>2. QED
      BY <1>1, <1>10, <2>1, <3>1 DEF Good
  <2>2. CASE i \in 1 .. m /\ u[i] = s[i] /\ j - m \in 1 .. n /\ u[j] = t[j - m]
    <3>1. s[i].ver \in a .. b /\ t[j - m].ver \in b + 1 .. c
      BY <1>1, <1>8, <2>2
    <3>2. QED
      BY <2>2, <3>1
  <2>3. CASE i > m /\ i - m \in 1 .. n /\ u[i] = t[i - m] /\ j - m \in 1 .. n /\ u[j] = t[j - m]
    <3>1. i - m < j - m
      BY <1>1, <1>10, <2>0
    <3>2. QED
      BY <1>1, <2>3, <3>1 DEF Good
  <2>4. QED
    BY <1>5, <2>1, <2>2, <2>3
<1>11. ASSUME NEW v \in a .. c
       PROVE  \E i \in DOMAIN u : u[i].ver = v /\ \A j \in DOMAIN u : j < i => u[j].ver < v
  <2>1. CASE v \in a .. b
    <3>1. PICK i \in DOMAIN s : s[i].ver = v /\ \A j \in DOMAIN s : j < i => s[j].ver < v
      BY <2>1 DEF Good
    <3>2. \A j \in DOMAIN u : j < i => j \in DOMAIN s
      BY <1>1, <1>2
    <3>3. QED
      BY <1>6, <3>1, <3>2
  <2>2. CASE v \in b + 1 .. c
    <3>1. PICK i \in DOMAIN t : t[i].ver = v /\ \A j \in DOMAIN t : j < i => t[j].ver < v
      BY <2>2 DEF Good
    <3>2. ASSUME NEW j \in DOMAIN u, j < m + i
          PROVE  u[j].ver < v
      <4>0. j \in 1 .. m + n /\ i \in 1 .. n
        BY <1>1, <1>2
      <4>1. CASE j \in 1 .. m /\ u[j] = s[j]
        <5>1. s[j].ver \in a .. b
          BY <1>1, <1>8, <4>1
        <5>2. QED
          BY <2>2, <4>1, <5>1
      <4>2. CASE j - m \in 1 .. n /\ u[j] = t[j - m]
        <5>1. j - m < i
          BY <1>1, <3>2, <4>0
        <5>2. QED
          BY <1>1, <3>1, <4>2, <5>1
      <4>3. QED
        BY <1>5, <4>1, <4>2
    <3>3. QED
      BY <1>7, <3>1, <3>2
  <2>3. QED
    BY <2>1, <2>2
<1>12. ASSUME NEW i \in DOMAIN u
       PROVE  /\ u[i].ver \in Versions =>
                   \E r \in DOMAIN u : u[r].ver = u[i].ver /\ u[r].op = "record"
              /\ u[i].op = "try" =>
                   \E k \in DOMAIN u : u[k].ver = u[i].ver /\ u[k].op = "index"
              /\ u[i].ver \in {42, 43} =>
                   \E k \in DOMAIN u : u[k].ver = u[i].ver /\ u[k].op = "bare"
  <2>1. CASE i \in 1 .. m /\ u[i] = s[i]
    <3>1. i \in DOMAIN s
      BY <1>1, <2>1
    <3>2. /\ s[i].ver \in Versions =>
               \E r \in DOMAIN s : s[r].ver = s[i].ver /\ s[r].op = "record"
          /\ s[i].op = "try" =>
               \E k \in DOMAIN s : s[k].ver = s[i].ver /\ s[k].op = "index"
          /\ s[i].ver \in {42, 43} =>
               \E k \in DOMAIN s : s[k].ver = s[i].ver /\ s[k].op = "bare"
      BY <3>1 DEF Good
    <3>3. QED
      BY <1>6, <2>1, <3>2
  <2>2. CASE i - m \in 1 .. n /\ u[i] = t[i - m]
    <3>1. i - m \in DOMAIN t
      BY <1>1, <2>2
    <3>2. /\ t[i - m].ver \in Versions =>
               \E r \in DOMAIN t : t[r].ver = t[i - m].ver /\ t[r].op = "record"
          /\ t[i - m].op = "try" =>
               \E k \in DOMAIN t : t[k].ver = t[i - m].ver /\ t[k].op = "index"
          /\ t[i - m].ver \in {42, 43} =>
               \E k \in DOMAIN t : t[k].ver = t[i - m].ver /\ t[k].op = "bare"
      BY <3>1 DEF Good
    <3>3. QED
      BY <1>7, <2>2, <3>2
  <2>3. QED
    BY <1>5, <2>1, <2>2
<1>13. ASSUME NEW i \in DOMAIN u, u[i].op = "recordFts", NEW o \in FtsObjects
       PROVE  \E k \in DOMAIN u : k < i /\ u[k].ver = Heal /\ u[k].op \in Makers /\ u[k].obj = o
  <2>1. CASE i \in 1 .. m /\ u[i] = s[i]
    <3>1. i \in DOMAIN s
      BY <1>1, <2>1
    <3>2. PICK k \in DOMAIN s : k < i /\ s[k].ver = Heal /\ s[k].op \in Makers /\ s[k].obj = o
      BY <1>13, <2>1, <3>1 DEF Good
    <3>3. QED
      BY <1>6, <3>2
  <2>2. CASE i - m \in 1 .. n /\ u[i] = t[i - m]
    <3>1. i - m \in DOMAIN t
      BY <1>1, <2>2
    <3>2. PICK k \in DOMAIN t :
            k < i - m /\ t[k].ver = Heal /\ t[k].op \in Makers /\ t[k].obj = o
      BY <1>13, <2>2, <3>1 DEF Good
    <3>3. m + k < i
      BY <1>1, <1>2, <3>2
    <3>4. QED
      BY <1>7, <3>2, <3>3
  <2>3. QED
    BY <1>5, <2>1, <2>2
<1>14. Good(u, a, c)
  BY <1>2, <1>9, <1>10, <1>11, <1>12, <1>13 DEF Good
<1>15. QED
  BY <1>14 DEF u

\* A statement of the source, in its version.
Placed(v, x) == [ver |-> v, op |-> x.op, obj |-> x.obj]

LEMMA PlacedFields ==
  ASSUME NEW v, NEW x
  PROVE  Placed(v, x).ver = v /\ Placed(v, x).op = x.op /\ Placed(v, x).obj = x.obj
BY DEF Placed

LEMMA RecordFields == Record.op = "record" /\ Record.obj = None
BY DEF Record, Stmt

\* What a version's statements must be, besides its row.
Fine(v, stmts) ==
  /\ IsSeq(stmts)
  /\ \A i \in DOMAIN stmts : stmts[i].op \in Makers \cup {"look"} /\ Fit(Placed(v, stmts[i]))
  /\ \A i \in DOMAIN stmts : stmts[i].op = "try" =>
       \E k \in DOMAIN stmts : stmts[k].op = "index"
  /\ v \in {42, 43} => \E k \in DOMAIN stmts : stmts[k].op = "bare"

LEMMA BlockGood ==
  ASSUME NEW v \in Versions, NEW stmts, Fine(v, stmts)
  PROVE  Good(Block(v, stmts), v, v)
<1> DEFINE n == Len(stmts)
           w == Append(stmts, Record)
           u == Block(v, stmts)
<1>0. PICK S : stmts \in Seq(S)
  BY DEF Fine, IsSeq
<1>1. /\ n \in Nat /\ DOMAIN stmts = 1 .. n
  BY <1>0
<1>2. /\ DOMAIN w = 1 .. n + 1
      /\ \A i \in 1 .. n : w[i] = stmts[i]
      /\ w[n + 1] = Record
  BY <1>0
<1>3. u = [i \in DOMAIN w |-> Placed(v, w[i])]
  BY DEF Block, InBlock, Placed
<1>4. \A i \in 1 .. n : stmts[i].op \in Makers \cup {"look"} /\ Fit(Placed(v, stmts[i]))
  BY <1>1 DEF Fine
<1>5. v \in 1 .. 46
  BY DEF Versions, EXPECTED_SCHEMA_VERSION
<1> HIDE DEF w, n, u
<1>6. \A i \in 1 .. n + 1 : i \in 1 .. n \/ i = n + 1
  BY <1>1
<1>7. /\ \A i \in 1 .. n : u[i] = Placed(v, stmts[i])
      /\ u[n + 1] = Placed(v, Record)
      /\ DOMAIN u = 1 .. n + 1
  BY <1>1, <1>2, <1>3
<1>8. \A i \in 1 .. n : /\ u[i].op \in Makers \cup {"look"}
                        /\ u[i].ver = v /\ u[i].op = stmts[i].op
  BY <1>4, <1>7, PlacedFields
<1>9. u[n + 1].ver = v /\ u[n + 1].op = "record" /\ u[n + 1].obj = None
  BY <1>7, PlacedFields, RecordFields
<1>10. IsSeq(u)
  <2>1. \A i \in 1 .. n + 1 : u[i] \in {u[j] : j \in 1 .. n + 1}
    OBVIOUS
  <2>2. u = [i \in 1 .. n + 1 |-> u[i]]
    BY <1>3, <1>7
  <2>3. u \in Seq({u[j] : j \in 1 .. n + 1})
    BY <1>1, <2>1, <2>2
  <2>4. QED
    BY <2>3 DEF IsSeq
<1>11. /\ \A i \in DOMAIN u : u[i].ver = v /\ u[i].op \in Ops
       /\ \A i \in 1 .. n : u[i].op \notin {"record", "commit", "recordFts"}
  <2>1. {"record", "commit", "recordFts"} \cap (Makers \cup {"look"}) = {}
    BY DEF Makers
  <2>2. Makers \cup {"look"} \subseteq Ops /\ "record" \in Ops
    BY DEF Ops
  <2>3. QED
    BY <1>6, <1>7, <1>8, <1>9, <2>1, <2>2
<1>12. \A i \in DOMAIN u : Fit(u[i])
  <2>1. Fit(u[n + 1])
    <3>1. Finish = 48 /\ Heal = 47 /\ None \notin BareObjects
      BY DEF None, BareObjects, BareObject, Finish, Heal, EXPECTED_SCHEMA_VERSION
    <3>2. v # 0 /\ v # Finish /\ "record" # "commit"
      BY <1>5, <3>1
    <3>3. /\ u[n + 1].ver = v /\ v \in Versions
          /\ u[n + 1].op = "record" /\ u[n + 1].obj = None /\ None \notin BareObjects
          /\ None # "fts_au" /\ "record" \notin {"heal", "recordFts", "fts", "drop", "create",
                                               "script", "add", "bare"}
      BY <1>9, <3>1 DEF None
    <3>4. QED
      BY <3>2, <3>3 DEF Fit
  <2>2. \A i \in 1 .. n : Fit(u[i])
    BY <1>4, <1>7
  <2>3. QED
    BY <1>6, <1>7, <2>1, <2>2
<1>13. ASSUME NEW i \in DOMAIN u, NEW j \in DOMAIN u, i < j
       PROVE  ~Last(u[i])
  <2>1. i \in 1 .. n
    BY <1>1, <1>7, <1>13
  <2>2. QED
    BY <1>5, <1>11, <2>1, <1>13 DEF Last
<1>14. n + 1 \in DOMAIN u /\ 1 \in DOMAIN u /\ \A j \in DOMAIN u : ~(j < 1)
  BY <1>1, <1>7
<1>15. ASSUME NEW i \in DOMAIN u
       PROVE  /\ u[i].op = "try" => \E k \in DOMAIN u : u[k].op = "index"
              /\ v \in {42, 43} => \E k \in DOMAIN u : u[k].op = "bare"
              /\ u[i].op # "recordFts"
  <2>1. \A k \in 1 .. n : k \in DOMAIN u /\ u[k].op = stmts[k].op
    BY <1>1, <1>7, <1>8
  <2>2. u[i].op = "try" => i \in 1 .. n
    BY <1>6, <1>7, <1>9
  <2>3. u[i].op # "recordFts"
    BY <1>6, <1>7, <1>9, <1>11
  <2>4. v \in {42, 43} => \E k \in 1 .. n : stmts[k].op = "bare"
    BY <1>1 DEF Fine
  <2>5. ASSUME u[i].op = "try"
        PROVE  \E k \in 1 .. n : stmts[k].op = "index"
    <3>1. i \in 1 .. n /\ stmts[i].op = "try"
      BY <2>1, <2>2, <2>5
    <3>2. QED
      BY <1>1, <3>1 DEF Fine
  <2>6. QED
    BY <2>1, <2>3, <2>4, <2>5
<1>16. Good(u, v, v)
  <2>1. \A i \in DOMAIN u : u[i].ver \in v .. v
    BY <1>5, <1>11
  <2>2. \A x \in v .. v : x = v
    BY <1>5
  <2>3. v <= v
    BY <1>5
  <2>4. \A i, j \in DOMAIN u : i < j => u[i].ver <= u[j].ver /\ (Last(u[i]) => u[i].ver < u[j].ver)
    BY <1>11, <1>13, <2>3
  <2>5. \A x \in v .. v : \E i \in DOMAIN u :
          u[i].ver = x /\ \A j \in DOMAIN u : j < i => u[j].ver < x
    BY <1>11, <1>14, <2>2
  <2>6. \A i \in DOMAIN u : \E r \in DOMAIN u : u[r].ver = u[i].ver /\ u[r].op = "record"
    BY <1>9, <1>11, <1>14
  <2>7. \A i \in DOMAIN u :
          /\ u[i].op = "try" => \E k \in DOMAIN u : u[k].ver = u[i].ver /\ u[k].op = "index"
          /\ u[i].ver \in {42, 43} => \E k \in DOMAIN u : u[k].ver = u[i].ver /\ u[k].op = "bare"
          /\ u[i].op # "recordFts"
    BY <1>11, <1>15
  <2>8. \A i \in DOMAIN u : u[i].ver \in v .. v /\ u[i].op \in Ops /\ Fit(u[i])
    BY <1>11, <1>12, <2>1
  <2>9. \A i \in DOMAIN u : u[i].ver \in Versions =>
          \E r \in DOMAIN u : u[r].ver = u[i].ver /\ u[r].op = "record"
    BY <2>6
  <2>10. QED
    BY <1>10, <2>4, <2>5, <2>7, <2>8, <2>9 DEF Good
<1>17. QED
  BY <1>16 DEF u

\* A statement that may be in version v.
Plain(v, x) == x.op \in Makers \cup {"look"} /\ Fit(Placed(v, x))

Ordinary == Versions \ {17, 19, 41, 42, 43}

LEMMA Numbers ==
  /\ EXPECTED_SCHEMA_VERSION = 46 /\ Heal = 47 /\ Finish = 48
  /\ Versions = 1 .. 46 /\ Blocks = 0 .. 48
BY DEF EXPECTED_SCHEMA_VERSION, Heal, Finish, Versions, Blocks

LEMMA Kinds ==
  ASSUME NEW o
  PROVE  /\ Make(o).op = "make" /\ Make(o).obj = o
         /\ Script(o).op = "script" /\ Script(o).obj = o
         /\ Add(o).op = "add" /\ Add(o).obj = o
         /\ Bare(o).op = "bare" /\ Bare(o).obj = o
         /\ Try(o).op = "try" /\ Try(o).obj = o
         /\ Index(o).op = "index" /\ Index(o).obj = o
         /\ Rows(o).op = "rows" /\ Rows(o).obj = o
         /\ Look.op = "look" /\ Look.obj = None
         /\ \A k : Stmt(k, o).op = k /\ Stmt(k, o).obj = o
BY DEF Make, Script, Add, Bare, Try, Index, Rows, Look, Stmt

\* In most versions, statements of most kinds may be.
LEMMA PlainIn ==
  ASSUME NEW v \in Ordinary, NEW x, x.obj \notin BareObjects, x.obj # "fts_au",
         x.op \in {"make", "script", "add", "try", "index", "rows", "look"}
  PROVE  Plain(v, x)
<1>1. /\ Placed(v, x).ver = v /\ Placed(v, x).op = x.op /\ Placed(v, x).obj = x.obj
  BY PlacedFields
<1>2. v # 0 /\ v # Finish /\ v # 17 /\ v # 19 /\ v # 41 /\ v \notin {42, 43} /\ v \in Versions
  BY Numbers DEF Ordinary
<1>3. Fit(Placed(v, x))
  BY <1>1, <1>2 DEF Fit
<1>4. QED
  BY <1>3 DEF Plain, Makers

LEMMA BlockOf0 ==
  ASSUME NEW v \in Versions \ {42, 43}
  PROVE  Good(Block(v, << >>), v, v)
<1>1. IsSeq(<< >>)
  BY DEF IsSeq
<1>2. Fine(v, << >>)
  BY <1>1 DEF Fine
<1>3. QED
  BY <1>2, BlockGood

LEMMA BlockOf1 ==
  ASSUME NEW v \in Versions, NEW x, Plain(v, x), x.op # "try",
         v \in {42, 43} => x.op = "bare"
  PROVE  Good(Block(v, <<x>>), v, v)
<1>1. <<x>> \in Seq({x}) /\ DOMAIN <<x>> = 1 .. 1 /\ <<x>>[1] = x
  OBVIOUS
<1>2. \A i \in DOMAIN <<x>> : <<x>>[i] = x
  BY <1>1
<1>3. IsSeq(<<x>>)
  BY <1>1 DEF IsSeq
<1>4. 1 \in DOMAIN <<x>>
  BY <1>1
<1>5. Fine(v, <<x>>)
  BY <1>2, <1>3, <1>4 DEF Fine, Plain
<1>6. QED
  BY <1>5, BlockGood

LEMMA BlockOf2 ==
  ASSUME NEW v \in Versions \ {42, 43}, NEW x, NEW y, Plain(v, x), Plain(v, y),
         x.op # "try", y.op # "try"
  PROVE  Good(Block(v, <<x, y>>), v, v)
<1> DEFINE s == <<x, y>>
<1>1. s \in Seq({x, y}) /\ \A i \in DOMAIN s : s[i] \in {x, y}
  OBVIOUS
<1>2. IsSeq(s)
  BY <1>1 DEF IsSeq
<1> HIDE DEF s
<1>3. Fine(v, s)
  BY <1>1, <1>2 DEF Fine, Plain
<1>4. Good(Block(v, s), v, v)
  BY <1>3, BlockGood
<1>5. QED
  BY <1>4 DEF s

LEMMA BlockOf3 ==
  ASSUME NEW v \in Versions \ {42, 43}, NEW x, NEW y, NEW z,
         Plain(v, x), Plain(v, y), Plain(v, z),
         z.op # "try", x.op = "try" \/ y.op = "try" => z.op = "index"
  PROVE  Good(Block(v, <<x, y, z>>), v, v)
<1> DEFINE s == <<x, y, z>>
<1>1. /\ s \in Seq({x, y, z}) /\ \A i \in DOMAIN s : s[i] \in {x, y, z}
      /\ 3 \in DOMAIN s /\ s[3] = z
  OBVIOUS
<1>2. IsSeq(s)
  BY <1>1 DEF IsSeq
<1> HIDE DEF s
<1>3. Fine(v, s)
  BY <1>1, <1>2 DEF Fine, Plain
<1>4. Good(Block(v, s), v, v)
  BY <1>3, BlockGood
<1>5. QED
  BY <1>4 DEF s

LEMMA BlockOf4 ==
  ASSUME NEW v \in Versions \ {42, 43}, NEW x, NEW y, NEW z, NEW w,
         Plain(v, x), Plain(v, y), Plain(v, z), Plain(v, w),
         x.op # "try", y.op # "try", z.op # "try", w.op # "try"
  PROVE  Good(Block(v, <<x, y, z, w>>), v, v)
<1> DEFINE s == <<x, y, z, w>>
<1>1. s \in Seq({x, y, z, w}) /\ \A i \in DOMAIN s : s[i] \in {x, y, z, w}
  OBVIOUS
<1>2. IsSeq(s)
  BY <1>1 DEF IsSeq
<1> HIDE DEF s
<1>3. Fine(v, s)
  BY <1>1, <1>2 DEF Fine, Plain
<1>4. Good(Block(v, s), v, v)
  BY <1>3, BlockGood
<1>5. QED
  BY <1>4 DEF s

LEMMA Join ==
  ASSUME NEW a \in Nat, NEW b \in Nat, NEW c \in Nat, NEW d \in Nat,
         a <= b, d = b + 1, d <= c,
         NEW s, NEW t, Good(s, a, b), Good(t, d, c)
  PROVE  Good(s \o t, a, c)
<1>1. b < c
  OBVIOUS
<1>2. Good(t, b + 1, c)
  OBVIOUS
<1>3. QED
  BY <1>1, <1>2, ConcatGood

Special == BareObjects \cup {"fts_au"}

LEMMA OrdinaryKinds ==
  ASSUME NEW v \in Ordinary, NEW o, o \notin Special
  PROVE  /\ Plain(v, Make(o)) /\ Plain(v, Script(o)) /\ Plain(v, Add(o))
         /\ Plain(v, Try(o)) /\ Plain(v, Index(o)) /\ Plain(v, Rows(o))
         /\ Plain(v, Look)
<1>1. None \notin BareObjects /\ None # "fts_au"
  BY DEF None, BareObjects, BareObject
<1>2. o \notin BareObjects /\ o # "fts_au"
  BY DEF Special
<1>3. QED
  BY <1>1, <1>2, Kinds, PlainIn

LEMMA Simple ==
  ASSUME NEW v \in Ordinary, NEW o, o \notin Special
  PROVE  /\ Good(Block(v, <<Make(o)>>), v, v)
         /\ Good(Block(v, <<Script(o)>>), v, v)
BY OrdinaryKinds, Kinds, BlockOf1 DEF Ordinary

LEMMA Good1 == Good(Migrations1to5, 1, 5)
<1> DEFINE b1 == Block(1, << >>)
           b2 == Block(2, <<Look, Add("provenance_id")>>)
           b3 == Block(3, <<Make("external_imports")>>)
           b4 == Block(4, <<Make("media_imports")>>)
           b5 == Block(5, <<Make("review_evidence")>>)
<1>0. /\ {1, 2, 3, 4, 5} \subseteq Ordinary
      /\ \A o \in {"provenance_id", "external_imports", "media_imports",
                   "review_evidence"} : o \notin Special
  BY Numbers DEF Ordinary, Special, BareObjects, BareObject
<1>1. Good(b1, 1, 1)
  BY <1>0, BlockOf0 DEF Ordinary
<1>2. Good(b2, 2, 2)
  BY <1>0, BlockOf2, OrdinaryKinds, Kinds DEF Ordinary
<1>3. Good(b3, 3, 3)
  BY <1>0, Simple
<1>4. Good(b4, 4, 4)
  BY <1>0, Simple
<1>5. Good(b5, 5, 5)
  BY <1>0, Simple
<1> HIDE DEF b1, b2, b3, b4, b5
<1>6. Good(b1 \o b2, 1, 2)
  BY <1>1, <1>2, Join
<1>7. Good(b1 \o b2 \o b3, 1, 3)
  BY <1>6, <1>3, Join
<1>8. Good(b1 \o b2 \o b3 \o b4, 1, 4)
  BY <1>7, <1>4, Join
<1>9. Good(b1 \o b2 \o b3 \o b4 \o b5, 1, 5)
  BY <1>8, <1>5, Join
<1>10. QED
  BY <1>9 DEF Migrations1to5, b1, b2, b3, b4, b5

LEMMA Good6 == Good(Migration6, 6, 6)
<1>0. /\ {6} \subseteq Ordinary
      /\ \A o \in {"inbox_merged", "idx_inbox_dedupe", "work_items_merged",
                   "pipeline_locks"} : o \notin Special
  BY Numbers DEF Ordinary, Special, BareObjects, BareObject
<1>1. Good(Block(6, <<Rows("inbox_merged"), Make("idx_inbox_dedupe"), Rows("work_items_merged"),
                      Make("pipeline_locks")>>), 6, 6)
  BY <1>0, BlockOf4, OrdinaryKinds, Kinds DEF Ordinary
<1>2. QED
  BY <1>1 DEF Migration6

LEMMA Good7 == Good(Migrations7to9, 7, 9)
<1> DEFINE b7 == Block(7, <<Make("workflow_runs")>>)
           b8 == Block(8, <<Make("assistant_policies"), Rows("policy_defaults")>>)
           b9 == Block(9, <<Make("workflow_queue")>>)
<1>0. /\ {7, 8, 9} \subseteq Ordinary
      /\ \A o \in {"workflow_runs", "assistant_policies", "policy_defaults",
                   "workflow_queue"} : o \notin Special
  BY Numbers DEF Ordinary, Special, BareObjects, BareObject
<1>1. Good(b7, 7, 7)
  BY <1>0, Simple
<1>2. Good(b8, 8, 8)
  BY <1>0, BlockOf2, OrdinaryKinds, Kinds DEF Ordinary
<1>3. Good(b9, 9, 9)
  BY <1>0, Simple
<1> HIDE DEF b7, b8, b9
<1>4. Good(b7 \o b8, 7, 8)
  BY <1>1, <1>2, Join
<1>5. Good(b7 \o b8 \o b9, 7, 9)
  BY <1>4, <1>3, Join
<1>6. QED
  BY <1>5 DEF Migrations7to9, b7, b8, b9

LEMMA Good10 == Good(Migrations10to11, 10, 11)
<1> DEFINE b10 == Block(10, <<Make("agent_tasks")>>)
           b11 == Block(11, <<Make("autopilot_runs")>>)
<1>0. /\ {10, 11} \subseteq Ordinary
      /\ \A o \in {"agent_tasks", "autopilot_runs"} : o \notin Special
  BY Numbers DEF Ordinary, Special, BareObjects, BareObject
<1>1. Good(b10, 10, 10)
  BY <1>0, Simple
<1>2. Good(b11, 11, 11)
  BY <1>0, Simple
<1> HIDE DEF b10, b11
<1>3. Good(b10 \o b11, 10, 11)
  BY <1>1, <1>2, Join
<1>4. QED
  BY <1>3 DEF Migrations10to11, b10, b11

LEMMA Good12 == Good(Migrations12to16, 12, 16)
<1> DEFINE b12 == Block(12, <<Make("ai_provider_calls"), Rows("provider_defaults")>>)
           b13 == Block(13, <<Make("assistant_digests")>>)
           b14 == Block(14, <<Make("assistant_goals")>>)
           b15 == Block(15, <<Make("action_outbox")>>)
           b16 == Block(16, <<Make("assistant_watch_dirs")>>)
<1>0. /\ {12, 13, 14, 15, 16} \subseteq Ordinary
      /\ \A o \in {"ai_provider_calls", "provider_defaults", "assistant_digests",
                   "assistant_goals", "action_outbox", "assistant_watch_dirs"} : o \notin Special
  BY Numbers DEF Ordinary, Special, BareObjects, BareObject
<1>1. Good(b12, 12, 12)
  BY <1>0, BlockOf2, OrdinaryKinds, Kinds DEF Ordinary
<1>2. Good(b13, 13, 13)
  BY <1>0, Simple
<1>3. Good(b14, 14, 14)
  BY <1>0, Simple
<1>4. Good(b15, 15, 15)
  BY <1>0, Simple
<1>5. Good(b16, 16, 16)
  BY <1>0, Simple
<1> HIDE DEF b12, b13, b14, b15, b16
<1>6. Good(b12 \o b13, 12, 13)
  BY <1>1, <1>2, Join
<1>7. Good(b12 \o b13 \o b14, 12, 14)
  BY <1>6, <1>3, Join
<1>8. Good(b12 \o b13 \o b14 \o b15, 12, 15)
  BY <1>7, <1>4, Join
<1>9. Good(b12 \o b13 \o b14 \o b15 \o b16, 12, 16)
  BY <1>8, <1>5, Join
<1>10. QED
  BY <1>9 DEF Migrations12to16, b12, b13, b14, b15, b16

LEMMA Good17 == Good(Migration17, 17, 17)
<1> DEFINE x == Stmt("fts", "text_chunks_fts")
           y == Script("fts_triggers")
           z == Rows("fts_rows")
<1>1. /\ x.op = "fts" /\ x.obj = "text_chunks_fts"
      /\ y.op = "script" /\ y.obj = "fts_triggers"
      /\ z.op = "rows" /\ z.obj = "fts_rows"
  BY Kinds
<1>2. /\ {"text_chunks_fts", "fts_triggers", "fts_rows"} \subseteq FtsObjects
      /\ \A o \in FtsObjects : o \notin BareObjects /\ o # "fts_au"
  BY DEF FtsObjects, BareObjects, BareObject
<1>3. 17 \in Versions \ {42, 43} /\ 17 # Finish
  BY Numbers
<1> HIDE DEF x, y, z
<1>4. ASSUME NEW s, s.obj \in FtsObjects, s.op \in {"fts", "script", "rows"}
      PROVE  Plain(17, s)
  <2>1. Placed(17, s).ver = 17 /\ Placed(17, s).op = s.op /\ Placed(17, s).obj = s.obj
    BY PlacedFields
  <2>2. Fit(Placed(17, s))
    BY <1>2, <1>3, <1>4, <2>1 DEF Fit
  <2>3. QED
    BY <1>4, <2>2 DEF Plain, Makers
<1>5. Plain(17, x) /\ Plain(17, y) /\ Plain(17, z)
  BY <1>1, <1>2, <1>4
<1>6. Good(Block(17, <<x, y, z>>), 17, 17)
  BY <1>1, <1>3, <1>5, BlockOf3
<1>7. QED
  BY <1>6 DEF Migration17, x, y, z

LEMMA Good18 == Good(Migrations18to19, 18, 19)
<1> DEFINE x == Stmt("drop", "fts_au")
           y == Stmt("create", "fts_au")
           b18 == Block(18, <<Make("people"), Try("person_id"), Index("idx_review_evidence_person")>>)
           b19 == Block(19, <<x, y>>)
<1>0. /\ 18 \in Ordinary /\ 19 \in Versions \ {42, 43} /\ 19 # Finish
      /\ \A o \in {"people", "person_id", "idx_review_evidence_person"} : o \notin Special
      /\ "fts_au" \notin BareObjects
  BY Numbers DEF Ordinary, Special, BareObjects, BareObject
<1>1. Good(b18, 18, 18)
  BY <1>0, BlockOf3, OrdinaryKinds, Kinds DEF Ordinary
<1>2. /\ x.op = "drop" /\ x.obj = "fts_au"
      /\ y.op = "create" /\ y.obj = "fts_au"
  BY DEF Stmt
<1> HIDE DEF x, y
<1>3. ASSUME NEW s, s.obj = "fts_au", s.op \in {"drop", "create"}
      PROVE  Plain(19, s)
  <2>1. Placed(19, s).ver = 19 /\ Placed(19, s).op = s.op /\ Placed(19, s).obj = s.obj
    BY PlacedFields
  <2>2. Fit(Placed(19, s))
    BY <1>0, <1>3, <2>1 DEF Fit
  <2>3. QED
    BY <1>3, <2>2 DEF Plain, Makers
<1>4. Plain(19, x) /\ Plain(19, y)
  BY <1>2, <1>3
<1>5. Good(b19, 19, 19)
  BY <1>0, <1>2, <1>4, BlockOf2
<1> HIDE DEF b18, b19
<1>6. Good(b18 \o b19, 18, 19)
  BY <1>1, <1>5, Join
<1>7. QED
  BY <1>6 DEF Migrations18to19, b18, b19, x, y

LEMMA Good20 == Good(Migrations20to21, 20, 21)
<1> DEFINE b20 == Block(20, <<Script("conversations")>>)
           b21 == Block(21, <<Script("intents")>>)
<1>0. /\ {20, 21} \subseteq Ordinary
      /\ \A o \in {"conversations", "intents"} : o \notin Special
  BY Numbers DEF Ordinary, Special, BareObjects, BareObject
<1>1. Good(b20, 20, 20)
  BY <1>0, Simple
<1>2. Good(b21, 21, 21)
  BY <1>0, Simple
<1> HIDE DEF b20, b21
<1>3. Good(b20 \o b21, 20, 21)
  BY <1>1, <1>2, Join
<1>4. QED
  BY <1>3 DEF Migrations20to21, b20, b21

LEMMA Good22 == Good(Migrations22to24, 22, 24)
<1> DEFINE b22 == Block(22, <<Script("entities")>>)
           b23 == Block(23, <<Script("relationships")>>)
           b24 == Block(24, <<Script("retrieval_runs")>>)
<1>0. /\ {22, 23, 24} \subseteq Ordinary
      /\ \A o \in {"entities", "relationships", "retrieval_runs"} : o \notin Special
  BY Numbers DEF Ordinary, Special, BareObjects, BareObject
<1>1. Good(b22, 22, 22)
  BY <1>0, Simple
<1>2. Good(b23, 23, 23)
  BY <1>0, Simple
<1>3. Good(b24, 24, 24)
  BY <1>0, Simple
<1> HIDE DEF b22, b23, b24
<1>4. Good(b22 \o b23, 22, 23)
  BY <1>1, <1>2, Join
<1>5. Good(b22 \o b23 \o b24, 22, 24)
  BY <1>4, <1>3, Join
<1>6. QED
  BY <1>5 DEF Migrations22to24, b22, b23, b24

LEMMA Good25 == Good(Migrations25to28, 25, 28)
<1> DEFINE b25 == Block(25, <<Script("plans")>>)
           b26 == Block(26, <<Look, Add("retrieval_run_ids")>>)
           b27 == Block(27, <<Script("claims")>>)
           b28 == Block(28, <<Script("action_execution_receipts")>>)
<1>0. /\ {25, 26, 27, 28} \subseteq Ordinary
      /\ \A o \in {"plans", "retrieval_run_ids", "claims",
                   "action_execution_receipts"} : o \notin Special
  BY Numbers DEF Ordinary, Special, BareObjects, BareObject
<1>1. Good(b25, 25, 25)
  BY <1>0, Simple
<1>2. Good(b26, 26, 26)
  BY <1>0, BlockOf2, OrdinaryKinds, Kinds DEF Ordinary
<1>3. Good(b27, 27, 27)
  BY <1>0, Simple
<1>4. Good(b28, 28, 28)
  BY <1>0, Simple
<1> HIDE DEF b25, b26, b27, b28
<1>5. Good(b25 \o b26, 25, 26)
  BY <1>1, <1>2, Join
<1>6. Good(b25 \o b26 \o b27, 25, 27)
  BY <1>5, <1>3, Join
<1>7. Good(b25 \o b26 \o b27 \o b28, 25, 28)
  BY <1>6, <1>4, Join
<1>8. QED
  BY <1>7 DEF Migrations25to28, b25, b26, b27, b28

LEMMA Good29 == Good(Migrations29to30, 29, 30)
<1> DEFINE b29 == Block(29, <<Script("factory_runs")>>)
           b30 == Block(30, <<Script("route_feedback")>>)
<1>0. /\ {29, 30} \subseteq Ordinary
      /\ \A o \in {"factory_runs", "route_feedback"} : o \notin Special
  BY Numbers DEF Ordinary, Special, BareObjects, BareObject
<1>1. Good(b29, 29, 29)
  BY <1>0, Simple
<1>2. Good(b30, 30, 30)
  BY <1>0, Simple
<1> HIDE DEF b29, b30
<1>3. Good(b29 \o b30, 29, 30)
  BY <1>1, <1>2, Join
<1>4. QED
  BY <1>3 DEF Migrations29to30, b29, b30

LEMMA Good31 == Good(Migrations31to33, 31, 33)
<1> DEFINE b31 == Block(31, <<Look, Add("text_hash"), Script("route_overrides")>>)
           b32 == Block(32, <<Script("execution_traces")>>)
           b33 == Block(33, <<Script("autonomy_eval_runs")>>)
<1>0. /\ {31, 32, 33} \subseteq Ordinary
      /\ \A o \in {"text_hash", "route_overrides", "execution_traces",
                   "autonomy_eval_runs"} : o \notin Special
  BY Numbers DEF Ordinary, Special, BareObjects, BareObject
<1>1. Good(b31, 31, 31)
  BY <1>0, BlockOf3, OrdinaryKinds, Kinds DEF Ordinary
<1>2. Good(b32, 32, 32)
  BY <1>0, Simple
<1>3. Good(b33, 33, 33)
  BY <1>0, Simple
<1> HIDE DEF b31, b32, b33
<1>4. Good(b31 \o b32, 31, 32)
  BY <1>1, <1>2, Join
<1>5. Good(b31 \o b32 \o b33, 31, 33)
  BY <1>4, <1>3, Join
<1>6. QED
  BY <1>5 DEF Migrations31to33, b31, b32, b33

LEMMA Good34 == Good(Migrations34to38, 34, 38)
<1> DEFINE b34 == Block(34, <<Script("autonomy_run_ledger")>>)
           b35 == Block(35, <<Script("recommendation_feedback")>>)
           b36 == Block(36, <<Look, Add("executor_backend"), Add("executor_context_json")>>)
           b37 == Block(37, <<Look, Add("payload_hash"), Add("approved_at")>>)
           b38 == Block(38, <<Look, Add("compensating_action_json"), Add("rollback_action_id")>>)
<1>0. /\ {34, 35, 36, 37, 38} \subseteq Ordinary
      /\ \A o \in {"autonomy_run_ledger", "recommendation_feedback", "executor_backend",
                   "executor_context_json", "payload_hash", "approved_at",
                   "compensating_action_json", "rollback_action_id"} : o \notin Special
  BY Numbers DEF Ordinary, Special, BareObjects, BareObject
<1>1. Good(b34, 34, 34)
  BY <1>0, Simple
<1>2. Good(b35, 35, 35)
  BY <1>0, Simple
<1>3. Good(b36, 36, 36)
  BY <1>0, BlockOf3, OrdinaryKinds, Kinds DEF Ordinary
<1>4. Good(b37, 37, 37)
  BY <1>0, BlockOf3, OrdinaryKinds, Kinds DEF Ordinary
<1>5. Good(b38, 38, 38)
  BY <1>0, BlockOf3, OrdinaryKinds, Kinds DEF Ordinary
<1> HIDE DEF b34, b35, b36, b37, b38
<1>6. Good(b34 \o b35, 34, 35)
  BY <1>1, <1>2, Join
<1>7. Good(b34 \o b35 \o b36, 34, 36)
  BY <1>6, <1>3, Join
<1>8. Good(b34 \o b35 \o b36 \o b37, 34, 37)
  BY <1>7, <1>4, Join
<1>9. Good(b34 \o b35 \o b36 \o b37 \o b38, 34, 38)
  BY <1>8, <1>5, Join
<1>10. QED
  BY <1>9 DEF Migrations34to38, b34, b35, b36, b37, b38

LEMMA Good39 == Good(Migrations39to41, 39, 41)
<1> DEFINE x == Rows("external_items_scrubbed")
           b39 == Block(39, <<Script("reminders")>>)
           b40 == Block(40, <<Script("personas")>>)
           b41 == Block(41, <<x>>)
<1>0. /\ {39, 40} \subseteq Ordinary /\ 41 \in Versions \ {42, 43} /\ 41 # Finish
      /\ \A o \in {"reminders", "personas", "external_items_scrubbed"} : o \notin Special
      /\ "external_items_scrubbed" \notin BareObjects \cup {"fts_au"}
  BY Numbers DEF Ordinary, Special, BareObjects, BareObject
<1>1. Good(b39, 39, 39)
  BY <1>0, Simple
<1>2. Good(b40, 40, 40)
  BY <1>0, Simple
<1>3. x.op = "rows" /\ x.obj = "external_items_scrubbed"
  BY Kinds
<1> HIDE DEF x
<1>4. Plain(41, x)
  <2>1. Placed(41, x).ver = 41 /\ Placed(41, x).op = x.op /\ Placed(41, x).obj = x.obj
    BY PlacedFields
  <2>2. Fit(Placed(41, x))
    BY <1>0, <1>3, <2>1 DEF Fit
  <2>3. QED
    BY <1>3, <2>2 DEF Plain, Makers
<1>5. Good(b41, 41, 41)
  BY <1>0, <1>3, <1>4, BlockOf1
<1> HIDE DEF b39, b40, b41
<1>6. Good(b39 \o b40, 39, 40)
  BY <1>1, <1>2, Join
<1>7. Good(b39 \o b40 \o b41, 39, 41)
  BY <1>6, <1>5, Join
<1>8. QED
  BY <1>7 DEF Migrations39to41, b39, b40, b41, x

LEMMA Good42 == Good(Migrations42to43, 42, 43)
<1> DEFINE x == Bare("factory_runs.persona_name")
           y == Bare("assistant_goals.persona_name")
           b42 == Block(42, <<x>>)
           b43 == Block(43, <<y>>)
<1>0. /\ 42 \in Versions /\ 43 \in Versions /\ 42 # Finish /\ 43 # Finish
      /\ BareObject(42) = "factory_runs.persona_name"
      /\ BareObject(43) = "assistant_goals.persona_name"
      /\ "fts_au" \notin BareObjects
  BY Numbers DEF BareObjects, BareObject
<1>1. x.op = "bare" /\ x.obj = BareObject(42) /\ y.op = "bare" /\ y.obj = BareObject(43)
  BY <1>0, Kinds
<1> HIDE DEF x, y
<1>2. ASSUME NEW v \in {42, 43}, NEW s, s.op = "bare", s.obj = BareObject(v)
      PROVE  Plain(v, s)
  <2>1. Placed(v, s).ver = v /\ Placed(v, s).op = s.op /\ Placed(v, s).obj = s.obj
    BY PlacedFields
  <2>2. s.obj # "fts_au" /\ v # 0 /\ v # 17 /\ v # Finish
    BY <1>0, <1>2 DEF BareObjects
  <2>3. Fit(Placed(v, s))
    BY <1>2, <2>1, <2>2 DEF Fit
  <2>4. QED
    BY <1>2, <2>3 DEF Plain, Makers
<1>3. Plain(42, x) /\ Plain(43, y)
  BY <1>1, <1>2
<1>4. Good(b42, 42, 42)
  BY <1>0, <1>1, <1>3, BlockOf1
<1>5. Good(b43, 43, 43)
  BY <1>0, <1>1, <1>3, BlockOf1
<1> HIDE DEF b42, b43
<1>6. Good(b42 \o b43, 42, 43)
  BY <1>4, <1>5, Join
<1>7. QED
  BY <1>6 DEF Migrations42to43, b42, b43, x, y

LEMMA Good44 == Good(Migrations44to46, 44, 46)
<1> DEFINE b44 == Block(44, <<Make("embedding_cache")>>)
           b45 == Block(45, <<Try("source_type"), Try("source_id"), Index("idx_digests_source")>>)
           b46 == Block(46, <<Make("approval_rules")>>)
<1>0. /\ {44, 45, 46} \subseteq Ordinary
      /\ \A o \in {"embedding_cache", "source_type", "source_id", "idx_digests_source",
                   "approval_rules"} : o \notin Special
  BY Numbers DEF Ordinary, Special, BareObjects, BareObject
<1>1. Good(b44, 44, 44)
  BY <1>0, Simple
<1>2. Good(b45, 45, 45)
  BY <1>0, BlockOf3, OrdinaryKinds, Kinds DEF Ordinary
<1>3. Good(b46, 46, 46)
  BY <1>0, Simple
<1> HIDE DEF b44, b45, b46
<1>4. Good(b44 \o b45, 44, 45)
  BY <1>1, <1>2, Join
<1>5. Good(b44 \o b45 \o b46, 44, 46)
  BY <1>4, <1>3, Join
<1>6. QED
  BY <1>5 DEF Migrations44to46, b44, b45, b46

\* The blocks that every connect goes through.
LEMMA Placing ==
  ASSUME NEW v, NEW s, IsSeq(s)
  PROVE  /\ IsSeq(InBlock(v, s)) /\ DOMAIN InBlock(v, s) = DOMAIN s
         /\ \A i \in DOMAIN s : /\ InBlock(v, s)[i].ver = v
                                /\ InBlock(v, s)[i].op = s[i].op
                                /\ InBlock(v, s)[i].obj = s[i].obj
<1> DEFINE u == InBlock(v, s)
<1>1. PICK S : s \in Seq(S)
  BY DEF IsSeq
<1>2. u = [i \in DOMAIN s |-> Placed(v, s[i])]
  BY DEF InBlock, Placed
<1>3. Len(s) \in Nat /\ DOMAIN s = 1 .. Len(s)
  BY <1>1
<1> HIDE DEF u
<1>4. DOMAIN u = DOMAIN s /\ \A i \in DOMAIN s : u[i] = Placed(v, s[i])
  BY <1>2
<1>5. u \in Seq({u[j] : j \in DOMAIN s})
  <2>1. u = [i \in 1 .. Len(s) |-> u[i]]
    BY <1>2, <1>3, <1>4
  <2>2. \A i \in 1 .. Len(s) : u[i] \in {u[j] : j \in DOMAIN s}
    BY <1>3
  <2>3. QED
    BY <1>3, <2>1, <2>2
<1>6. IsSeq(u)
  BY <1>5 DEF IsSeq
<1>7. \A i \in DOMAIN s : u[i].ver = v /\ u[i].op = s[i].op /\ u[i].obj = s[i].obj
  BY <1>4, PlacedFields
<1>8. QED
  BY <1>4, <1>6, <1>7 DEF u

LEMMA Good0 == Good(BaseTables, 0, 0)
<1> DEFINE x == Script("inbox_items")
           s == <<x>>
           u == InBlock(0, s)
<1>1. x.op = "script" /\ x.obj = "inbox_items"
  BY Kinds
<1> HIDE DEF x
<1>2. s \in Seq({x}) /\ DOMAIN s = {1} /\ s[1] = x
  OBVIOUS
<1> HIDE DEF s
<1>3. IsSeq(s)
  BY <1>2 DEF IsSeq
<1>4. /\ IsSeq(u) /\ DOMAIN u = {1} /\ u[1].ver = 0 /\ u[1].op = "script"
      /\ u[1].obj = "inbox_items"
  BY <1>1, <1>2, <1>3, Placing
<1> HIDE DEF u
<1>5. 0 \notin Versions /\ 0 # Finish /\ "inbox_items" \notin BareObjects
  BY Numbers DEF BareObjects, BareObject
<1>6. Fit(u[1]) /\ u[1].op \in Ops
  BY <1>4, <1>5 DEF Fit, Ops, Makers
<1>7. Good(u, 0, 0)
  <2>1. \A i \in DOMAIN u : i = 1
    BY <1>4
  <2>2. /\ \A i \in DOMAIN u : u[i].ver = 0 /\ u[i].op = "script"
        /\ \A i, j \in DOMAIN u : ~(i < j)
        /\ \A v \in 0 .. 0 : v = 0
        /\ 0 \in 0 .. 0
    BY <1>4, <2>1
  <2>3. \A i \in DOMAIN u : u[i].ver \in 0 .. 0 /\ u[i].op \in Ops /\ Fit(u[i])
    BY <1>6, <2>1, <2>2
  <2>4. \A v \in 0 .. 0 : \E i \in DOMAIN u :
          u[i].ver = v /\ \A j \in DOMAIN u : j < i => u[j].ver < v
    BY <1>4, <2>2
  <2>5. \A i \in DOMAIN u : /\ u[i].ver \notin Versions /\ u[i].op # "try"
                            /\ u[i].ver \notin {42, 43} /\ u[i].op # "recordFts"
    BY <1>5, <2>2
  <2>6. QED
    BY <1>4, <2>2, <2>3, <2>4, <2>5 DEF Good
<1>8. QED
  BY <1>7 DEF BaseTables, u, s, x

LEMMA Good47 == Good(EnsureFts5, 47, 47)
<1> DEFINE x1 == Stmt("heal", "text_chunks_fts")
           x2 == Script("fts_triggers")
           x3 == Script("fts_au")
           x4 == Rows("fts_rows")
           x5 == Stmt("recordFts", None)
           s == <<x1, x2, x3, x4, x5>>
           u == InBlock(Heal, s)
<1>1. /\ x1.op = "heal" /\ x1.obj = "text_chunks_fts"
      /\ x5.op = "recordFts" /\ x5.obj = None
  BY DEF Stmt
<1>2. /\ x2.op = "script" /\ x2.obj = "fts_triggers"
      /\ x3.op = "script" /\ x3.obj = "fts_au"
      /\ x4.op = "rows" /\ x4.obj = "fts_rows"
  BY Kinds
<1> HIDE DEF x1, x2, x3, x4, x5
<1>3. /\ s \in Seq({x1, x2, x3, x4, x5}) /\ DOMAIN s = 1 .. 5
      /\ s[1] = x1 /\ s[2] = x2 /\ s[3] = x3 /\ s[4] = x4 /\ s[5] = x5
  OBVIOUS
<1> HIDE DEF s
<1>4. IsSeq(s)
  BY <1>3 DEF IsSeq
<1>5. /\ IsSeq(u) /\ DOMAIN u = 1 .. 5 /\ \A i \in 1 .. 5 : u[i].ver = 47
      /\ \A i \in 1 .. 5 : u[i].op = s[i].op /\ u[i].obj = s[i].obj
  BY <1>3, <1>4, Placing, Numbers
<1> HIDE DEF u
<1>6. /\ u[1].op = "heal" /\ u[1].obj = "text_chunks_fts"
      /\ u[2].op = "script" /\ u[2].obj = "fts_triggers"
      /\ u[3].op = "script" /\ u[3].obj = "fts_au"
      /\ u[4].op = "rows" /\ u[4].obj = "fts_rows"
      /\ u[5].op = "recordFts" /\ u[5].obj = None
  <2>1. 1 \in 1 .. 5 /\ 2 \in 1 .. 5 /\ 3 \in 1 .. 5 /\ 4 \in 1 .. 5 /\ 5 \in 1 .. 5
    OBVIOUS
  <2>2. QED
    BY <1>1, <1>2, <1>3, <1>5, <2>1
<1>7. \A i \in 1 .. 5 : i = 1 \/ i = 2 \/ i = 3 \/ i = 4 \/ i = 5
  OBVIOUS
<1>8. \A i \in 1 .. 5 : /\ u[i].op \in {"heal", "script", "rows", "recordFts"}
                        /\ u[i].obj \in FtsObjects \cup {"fts_au", None}
                        /\ u[i].op = "recordFts" <=> i = 5
  BY <1>6, <1>7 DEF FtsObjects
<1>9. /\ 47 \notin Versions /\ 47 = Heal /\ 47 # Finish
      /\ \A o \in FtsObjects \cup {"fts_au", None} : o \notin BareObjects
  BY Numbers DEF FtsObjects, BareObjects, BareObject, None
<1>10. \A i \in 1 .. 5 : u[i].op \in Ops /\ Fit(u[i])
  BY <1>5, <1>8, <1>9 DEF Fit, Ops, Makers
<1>11. Good(u, 47, 47)
  <2>1. /\ 47 \in 47 .. 47 /\ \A v \in 47 .. 47 : v = 47
        /\ 1 \in DOMAIN u
    BY <1>5
  <2>2. \A i \in DOMAIN u : u[i].ver \in 47 .. 47 /\ u[i].op \in Ops /\ Fit(u[i])
    BY <1>5, <1>10, <2>1
  <2>3. \A i \in DOMAIN u : /\ ~Last(u[i]) /\ u[i].ver \notin Versions /\ u[i].op # "try"
                            /\ u[i].ver \notin {42, 43}
    BY <1>5, <1>8, <1>9 DEF Last
  <2>4. \A i, j \in DOMAIN u :
          i < j => u[i].ver <= u[j].ver /\ (Last(u[i]) => u[i].ver < u[j].ver)
    BY <1>5, <2>3
  <2>5. \A v \in 47 .. 47 : \E i \in DOMAIN u :
          u[i].ver = v /\ \A j \in DOMAIN u : j < i => u[j].ver < v
    <3>1. \A j \in DOMAIN u : ~(j < 1)
      BY <1>5
    <3>2. QED
      BY <1>5, <2>1, <3>1
  <2>6. ASSUME NEW i \in DOMAIN u, u[i].op = "recordFts", NEW o \in FtsObjects
        PROVE  \E k \in DOMAIN u : k < i /\ u[k].ver = Heal /\ u[k].op \in Makers /\ u[k].obj = o
    <3>1. i = 5
      BY <1>5, <1>8, <2>6
    <3>2. \E k \in {1, 2, 4} : u[k].op \in Makers /\ u[k].obj = o
      BY <1>6 DEF FtsObjects, Makers
    <3>3. QED
      BY <1>5, <1>9, <3>1, <3>2
  <2>7. QED
    BY <1>5, <2>2, <2>3, <2>4, <2>5, <2>6 DEF Good
<1>12. QED
  BY <1>11 DEF EnsureFts5, u, s, x1, x2, x3, x4, x5

LEMMA Good48 == Good(InBlock(Finish, <<Stmt("commit", None)>>), 48, 48)
<1> DEFINE x == Stmt("commit", None)
           s == <<x>>
           u == InBlock(Finish, s)
<1>1. x.op = "commit" /\ x.obj = None
  BY DEF Stmt
<1> HIDE DEF x
<1>2. s \in Seq({x}) /\ DOMAIN s = {1} /\ s[1] = x
  OBVIOUS
<1> HIDE DEF s
<1>3. IsSeq(s)
  BY <1>2 DEF IsSeq
<1>4. /\ IsSeq(u) /\ DOMAIN u = {1} /\ u[1].ver = 48 /\ u[1].op = "commit" /\ u[1].obj = None
  BY <1>1, <1>2, <1>3, Placing, Numbers
<1> HIDE DEF u
<1>5. 48 \notin Versions /\ 48 = Finish /\ 48 # Heal /\ None \notin BareObjects /\ None # "fts_au"
  BY Numbers DEF BareObjects, BareObject, None
<1>6. Fit(u[1]) /\ u[1].op \in Ops
  BY <1>4, <1>5 DEF Fit, Ops, Makers
<1>7. Good(u, 48, 48)
  <2>1. \A i \in DOMAIN u : i = 1
    BY <1>4
  <2>2. /\ \A i \in DOMAIN u : u[i].ver = 48 /\ u[i].op = "commit"
        /\ \A i, j \in DOMAIN u : ~(i < j)
        /\ \A v \in 48 .. 48 : v = 48
        /\ 48 \in 48 .. 48
    BY <1>4, <2>1
  <2>3. \A i \in DOMAIN u : u[i].ver \in 48 .. 48 /\ u[i].op \in Ops /\ Fit(u[i])
    BY <1>6, <2>1, <2>2
  <2>4. \A v \in 48 .. 48 : \E i \in DOMAIN u :
          u[i].ver = v /\ \A j \in DOMAIN u : j < i => u[j].ver < v
    BY <1>4, <2>2
  <2>5. \A i \in DOMAIN u : /\ u[i].ver \notin Versions /\ u[i].op # "try"
                            /\ u[i].ver \notin {42, 43} /\ u[i].op # "recordFts"
    BY <1>5, <2>2
  <2>6. QED
    BY <1>4, <2>2, <2>3, <2>4, <2>5 DEF Good
<1>8. QED
  BY <1>7 DEF u, s, x

\* The whole program: every version in its order, each from its first
\* statement to its row.
LEMMA GoodProgram == Good(Program, 0, 48)
<1> DEFINE last == InBlock(Finish, <<Stmt("commit", None)>>)
<1>0. Good(last, 48, 48)
  BY Good48
<1> HIDE DEF last
<1> DEFINE q1 == BaseTables \o Migrations1to5
           q2 == q1 \o Migration6
           q3 == q2 \o Migrations7to9
           q4 == q3 \o Migrations10to11
           q5 == q4 \o Migrations12to16
           q6 == q5 \o Migration17
           q7 == q6 \o Migrations18to19
           q8 == q7 \o Migrations20to21
           q9 == q8 \o Migrations22to24
           q10 == q9 \o Migrations25to28
           q11 == q10 \o Migrations29to30
           q12 == q11 \o Migrations31to33
           q13 == q12 \o Migrations34to38
           q14 == q13 \o Migrations39to41
           q15 == q14 \o Migrations42to43
           q16 == q15 \o Migrations44to46
           q17 == q16 \o EnsureFts5
<1>1. Good(q1, 0, 5)
  BY Good0, Good1, Join
<1> HIDE DEF q1
<1>2. Good(q2, 0, 6)
  BY <1>1, Good6, Join
<1> HIDE DEF q2
<1>3. Good(q3, 0, 9)
  BY <1>2, Good7, Join
<1> HIDE DEF q3
<1>4. Good(q4, 0, 11)
  BY <1>3, Good10, Join
<1> HIDE DEF q4
<1>5. Good(q5, 0, 16)
  BY <1>4, Good12, Join
<1> HIDE DEF q5
<1>6. Good(q6, 0, 17)
  BY <1>5, Good17, Join
<1> HIDE DEF q6
<1>7. Good(q7, 0, 19)
  BY <1>6, Good18, Join
<1> HIDE DEF q7
<1>8. Good(q8, 0, 21)
  BY <1>7, Good20, Join
<1> HIDE DEF q8
<1>9. Good(q9, 0, 24)
  BY <1>8, Good22, Join
<1> HIDE DEF q9
<1>10. Good(q10, 0, 28)
  BY <1>9, Good25, Join
<1> HIDE DEF q10
<1>11. Good(q11, 0, 30)
  BY <1>10, Good29, Join
<1> HIDE DEF q11
<1>12. Good(q12, 0, 33)
  BY <1>11, Good31, Join
<1> HIDE DEF q12
<1>13. Good(q13, 0, 38)
  BY <1>12, Good34, Join
<1> HIDE DEF q13
<1>14. Good(q14, 0, 41)
  BY <1>13, Good39, Join
<1> HIDE DEF q14
<1>15. Good(q15, 0, 43)
  BY <1>14, Good42, Join
<1> HIDE DEF q15
<1>16. Good(q16, 0, 46)
  BY <1>15, Good44, Join
<1> HIDE DEF q16
<1>17. Good(q17, 0, 47)
  BY <1>16, Good47, Join
<1> HIDE DEF q17
<1>18. Good(q17 \o last, 0, 48)
  BY <1>17, <1>0, Join
<1>19. QED
  BY <1>18 DEF Program, last, q1, q2, q3, q4, q5, q6, q7, q8, q9, q10, q11, q12, q13, q14, q15, q16, q17

-----------------------------------------------------------------------------
(* The invariants.                                                         *)

Ver(i) == Program[i].ver

\* The versions whose rows nothing else repairs.
Firm == Versions \ {17, 19, 41}

\* A database, committed or as its writer sees it: what is recorded was done,
\* and in order.
DbOK(d) ==
  /\ d = [objs |-> d.objs, recs |-> d.recs]
  /\ d.recs \subseteq Versions
  /\ \A v \in d.recs \ {19} : ObjectsOf[v] \subseteq d.objs
  /\ \A v \in d.recs : \A u \in Firm : u < v => u \in d.recs

FileOK(f) == f = [db |-> f.db, rows |-> f.rows] /\ DbOK(f.db) /\ f.rows \subseteq Procs

\* e has what d has; only the trigger is ever dropped.
Extends(d, e) ==
  d.recs \subseteq e.recs /\ d.objs \ {"fts_au"} \subseteq e.objs

\* What a process that is at i, having read version n, can rely on.
ProcOK(i, n, fs, d) ==
  /\ i = Closed => fs = {}
  /\ i # Closed =>
       /\ \A u \in Firm : u <= n => u \in d.recs
       /\ \A u \in Versions \ {17, 19} : (i = Open \/ u < Ver(i)) => u \in d.recs
       /\ fs \ {"fts_au"} \subseteq d.objs
  /\ i \in DOMAIN Program => \A j \in DOMAIN Program :
       /\ j < i /\ Ver(j) = Ver(i) /\ Program[j].op \in Makers \ {"try"}
            => Program[j].obj \in d.objs \cup {"fts_au"}
       /\ j < i /\ Ver(j) = Ver(i) /\ Program[j].op = "index"
            => TriedIn[Ver(j)] \subseteq d.objs \cup {"fts_au"}

\* No backup is of a version before a bare ALTER.
Sound(d) ==
  /\ \A v \in {42, 43} : BareObject(v) \in d.objs => v \in d.recs
  /\ d.recs \cap {41, 42} # {} => 43 \in d.recs

AtBare(p) == at[p] \in DOMAIN Program /\ Ver(at[p]) \in {42, 43}

HasCopy == copy # NoCopy \/ \E p \in Procs : stage[p] = "overwrite"

SoundProc(p) ==
  /\ at[p] # Closed => seen[p] \notin {41, 42}
  /\ AtBare(p) => writer = p /\ seen[p] < 41

SoundSchema ==
  /\ Sound(disk)
  /\ \A p \in Procs : SoundProc(p)
  /\ writer # NoProc /\ ~AtBare(writer) => Sound(pend)

Orderly ==
  /\ lost = {} /\ ~damaged /\ wal # "foreign"
  /\ \A p, q \in Procs : stage[p] # "none" /\ stage[q] # "none" => p = q
  /\ Attached = {} => wal = "none"
  /\ \A p \in Procs : stage[p] \in {"overwrite", "unlink"} => Attached = {}
  /\ \A p \in Procs : stage[p] = "overwrite" => safety = main

RestoreInv == ~shared /\ ~unclean => Orderly

-----------------------------------------------------------------------------
(* Facts about the program, the least and the greatest of a set, and which *)
(* statement is next.                                                      *)

LEMMA LeastOf ==
  ASSUME NEW S, S \subseteq Nat, S # {}
  PROVE  Min(S) \in S /\ \A y \in S : Min(S) <= y
<1>1. PICK x \in S : \A y \in S : ~ (<<y, x>> \in OpToRel(<, Nat))
  BY WFMin, NatLessThanWellFounded, Zenon
<1>2. ASSUME NEW y \in S
      PROVE  x <= y
  <2>1. y \in Nat /\ x \in Nat
    OBVIOUS
  <2>2. y < x => <<y, x>> \in OpToRel(<, Nat)
    BY <2>1 DEF OpToRel
  <2>3. ~ (y < x)
    BY <1>1, <2>2, Zenon
  <2>4. QED
    BY <2>1, <2>3
<1>3. QED
  BY <1>2 DEF Min

LEMMA GreatestOf ==
  ASSUME NEW n \in Nat, NEW S, S \subseteq 0 .. n, S # {}
  PROVE  Max(S) \in S /\ \A y \in S : y <= Max(S)
<1> DEFINE R == {n - y : y \in S}
           x == n - Min(R)
<1>1. R \subseteq Nat /\ R # {}
  <2>1. \A y \in S : n - y \in Nat
    OBVIOUS
  <2>2. QED
    BY <2>1
<1>2. Min(R) \in R /\ \A y \in R : Min(R) <= y
  BY <1>1, LeastOf
<1>3. x \in S
  <2>1. PICK y \in S : Min(R) = n - y
    BY <1>2
  <2>2. y \in 0 .. n
    OBVIOUS
  <2>3. n - (n - y) = y
    BY <2>2
  <2>4. x = n - (n - y)
    BY <2>1
  <2>5. QED
    BY <2>3, <2>4
<1>4. \A y \in S : y <= x
  <2> SUFFICES ASSUME NEW y \in S PROVE y <= x
    OBVIOUS
  <2>1. n - y \in R
    OBVIOUS
  <2>2. Min(R) <= n - y /\ Min(R) \in Nat
    BY <1>1, <1>2, <2>1
  <2>3. QED
    BY <2>2
<1> HIDE DEF x
<1>5. QED
  BY <1>3, <1>4 DEF Max

LEMMA ProgramFacts ==
  /\ Len(Program) \in Nat /\ Len(Program) >= 1 /\ DOMAIN Program = 1 .. Len(Program)
  /\ \A i \in DOMAIN Program :
       Ver(i) \in 0 .. 48 /\ Program[i].op \in Ops /\ Fit(Program[i])
  /\ \A i, j \in DOMAIN Program :
       i < j => Ver(i) <= Ver(j) /\ (Last(Program[i]) => Ver(i) < Ver(j))
  /\ \A i \in DOMAIN Program : Ver(i) = 0 => i = 1
<1>1. PICK S : Program \in Seq(S)
  BY GoodProgram DEF Good, IsSeq
<1>2. Len(Program) \in Nat /\ DOMAIN Program = 1 .. Len(Program)
  BY <1>1
<1>3. PICK b \in DOMAIN Program :
        Program[b].ver = 0 /\ \A j \in DOMAIN Program : j < b => Program[j].ver < 0
  <2>1. 0 \in 0 .. 48
    OBVIOUS
  <2>2. QED
    BY <2>1, GoodProgram DEF Good
<1>4. Len(Program) >= 1
  BY <1>2, <1>3
<1>5. \A i \in DOMAIN Program :
        Program[i].ver \in 0 .. 48 /\ Program[i].op \in Ops /\ Fit(Program[i])
  BY GoodProgram DEF Good
<1>6. \A i, j \in DOMAIN Program :
        i < j => Program[i].ver <= Program[j].ver
                 /\ (Last(Program[i]) => Program[i].ver < Program[j].ver)
  BY GoodProgram DEF Good
<1>7. ASSUME NEW i \in DOMAIN Program, Program[i].ver = 0
      PROVE  i = 1
  <2>1. 1 \in DOMAIN Program /\ i \in 1 .. Len(Program)
    BY <1>2, <1>4
  <2>2. i # 1 => 1 < i
    BY <1>2, <2>1
  <2>3. i # 1 => Program[1].ver < Program[i].ver \/ Program[1].ver # 0
    BY <1>6, <1>7, <2>1, <2>2 DEF Last
  <2>4. i # 1 => Program[1].ver <= Program[i].ver
    BY <1>6, <2>1, <2>2
  <2>5. Program[1].ver \in 0 .. 48
    BY <1>5, <2>1
  <2>6. QED
    BY <1>7, <2>3, <2>4, <2>5
<1>8. QED
  BY <1>2, <1>4, <1>5, <1>6, <1>7 DEF Ver

LEMMA FirstFacts ==
  ASSUME NEW v \in 0 .. 48
  PROVE  /\ FirstOf[v] \in DOMAIN Program /\ Ver(FirstOf[v]) = v
         /\ \A j \in DOMAIN Program : j < FirstOf[v] <=> Ver(j) < v
<1> DEFINE First(i) == Program[i].ver = v /\ (i = 1 \/ Program[i - 1].ver # v)
<1>1. FirstOf[v] = CHOOSE i \in DOMAIN Program : First(i)
  BY Numbers DEF FirstOf
<1>2. PICK b \in DOMAIN Program :
        Program[b].ver = v /\ \A j \in DOMAIN Program : j < b => Program[j].ver < v
  BY GoodProgram DEF Good
<1>3. First(b)
  <2>1. b = 1 \/ (b - 1 \in DOMAIN Program /\ b - 1 < b)
    BY ProgramFacts
  <2>2. QED
    BY <1>2, <2>1
<1>4. FirstOf[v] \in DOMAIN Program /\ First(FirstOf[v])
  BY <1>1, <1>3
<1>5. ASSUME NEW j \in DOMAIN Program, j < FirstOf[v]
      PROVE  Ver(j) < v
  <2> DEFINE f == FirstOf[v]
  <2>1. f \in 1 .. Len(Program) /\ j \in 1 .. Len(Program) /\ Len(Program) \in Nat
    BY <1>4, ProgramFacts
  <2>2. f # 1 /\ f - 1 \in DOMAIN Program /\ f - 1 < f
    BY <1>5, <2>1, ProgramFacts
  <2>3. Ver(f - 1) <= Ver(f) /\ Ver(f - 1) # v /\ Ver(f) = v
    BY <1>4, <2>2, ProgramFacts DEF Ver
  <2>4. j = f - 1 \/ j < f - 1
    BY <1>5, <2>1
  <2>5. Ver(j) <= Ver(f - 1)
    <3>1. Ver(j) \in 0 .. 48
      BY ProgramFacts
    <3>2. CASE j = f - 1
      BY <3>1, <3>2
    <3>3. CASE j < f - 1
      BY <2>2, <3>3, ProgramFacts
    <3>4. QED
      BY <2>4, <3>2, <3>3
  <2>6. Ver(j) \in 0 .. 48 /\ Ver(f - 1) \in 0 .. 48
    BY <2>2, ProgramFacts
  <2>7. QED
    BY <2>3, <2>5, <2>6
<1>6. ASSUME NEW j \in DOMAIN Program, ~(j < FirstOf[v])
      PROVE  ~(Ver(j) < v)
  <2> DEFINE f == FirstOf[v]
  <2>1. f \in DOMAIN Program /\ Ver(f) = v
    BY <1>4 DEF Ver
  <2>2. j = f \/ f < j
    BY <1>6, <2>1, ProgramFacts
  <2>3. Ver(f) <= Ver(j)
    <3>1. CASE j = f
      BY <2>1, <3>1
    <3>2. CASE f < j
      BY <2>1, <3>2, ProgramFacts
    <3>3. QED
      BY <2>2, <3>1, <3>2
  <2>4. Ver(j) \in 0 .. 48
    BY ProgramFacts
  <2>5. QED
    BY <2>1, <2>3, <2>4
<1>7. QED
  BY <1>4, <1>5, <1>6 DEF Ver

\* What is passed over is not due.
LEMMA NextDue ==
  ASSUME NEW p, seen[p] \in 0 .. 46, NEW k \in 2 .. Len(Program) + 1
  PROVE  /\ FirstDue(p, k) \in k .. Open
         /\ FirstDue(p, k) # Open => Due(p, FirstDue(p, k))
         /\ \A j \in DOMAIN Program : k <= j /\ j < FirstDue(p, k) => ~Due(p, j)
<1> DEFINE n == Len(Program)
           a == FirstOf[41]
           b == FirstOf[seen[p] + 1]
           D == {j \in {k, a, b} \cap (k .. n) : Due(p, j)}
           S == {Open} \cup D
           r == FirstDue(p, k)
<1>0. seen[p] + 1 \in 0 .. 48 /\ seen[p] \in Nat
  <2>1. \A m \in 0 .. 46 : m + 1 \in 0 .. 48 /\ m \in Nat
    OBVIOUS
  <2>2. seen[p] \in 0 .. 46
    OBVIOUS
  <2> HIDE DEF n, a, b, D, S, r
  <2>3. QED
    BY <2>1, <2>2
<1>1. n \in Nat /\ Open = n + 1 /\ DOMAIN Program = 1 .. n
  BY ProgramFacts DEF Open
<1>2. r = Min(S)
  BY DEF FirstDue
<1>3. S \subseteq k .. n + 1 /\ S \subseteq Nat /\ S # {}
  BY <1>1
<1>4. r \in S /\ \A y \in S : r <= y
  <2> HIDE DEF S, r
  <2>1. QED
    BY <1>2, <1>3, LeastOf
<1>5. r \in k .. Open /\ (r # Open => Due(p, r))
  BY <1>1, <1>3, <1>4
<1>6. ASSUME NEW j \in DOMAIN Program, k <= j, Due(p, j)
      PROVE  \E x \in D : x <= j
  <2> SUFFICES ASSUME ~Due(p, k) PROVE \E x \in D : x <= j
    BY <1>1, <1>6
  <2>1. j \in 1 .. n /\ k \in 2 .. n /\ k \in DOMAIN Program /\ k < j
    <3>1. j \in 1 .. n /\ k \in 2 .. n + 1 /\ k <= j
      BY <1>1, <1>6
    <3>2. j # k
      BY <1>6
    <3>3. QED
      BY <1>1, <3>1, <3>2
  <2>2. Ver(j) # 0 /\ Ver(k) <= Ver(j) /\ Ver(j) \in 0 .. 48 /\ Ver(k) \in 0 .. 48
    BY <2>1, ProgramFacts
  <2>3. CASE Ver(j) > seen[p]
    <3>1. ~(Ver(k) > seen[p])
      BY DEF Due, Ver
    <3>2. seen[p] + 1 \in 0 .. 48
      BY <1>0
    <3>3. b \in DOMAIN Program /\ Ver(b) = seen[p] + 1
          /\ \A i \in DOMAIN Program : i < b <=> Ver(i) < seen[p] + 1
      BY <3>2, FirstFacts
    <3>4. k < b /\ ~(j < b)
      <4> DEFINE vk == Ver(k)
                 vj == Ver(j)
                 m == seen[p]
      <4>1. vk \in 0 .. 48 /\ vj \in 0 .. 48 /\ m \in Nat /\ ~(vk > m) /\ vj > m
        BY <1>0, <2>2, <2>3, <3>1
      <4> HIDE DEF vk, vj, m
      <4>2. vk < m + 1 /\ ~(vj < m + 1)
        BY <4>1
      <4>3. QED
        BY <2>1, <3>3, <4>2 DEF vk, vj, m
    <3>5. Due(p, b)
      <4>1. Ver(b) > seen[p]
        BY <1>0, <3>3
      <4>2. QED
        BY <4>1 DEF Due, Ver
    <3>6. b \in D /\ b <= j
      BY <1>1, <2>1, <3>3, <3>4, <3>5
    <3>7. QED
      BY <3>6
  <2>4. CASE Ver(j) = 41 /\ 41 \notin View(p).recs
    <3>1. Ver(k) # 41
      BY <2>4 DEF Due, Ver
    <3>2. a \in DOMAIN Program /\ Ver(a) = 41
          /\ \A i \in DOMAIN Program : i < a <=> Ver(i) < 41
      <4>1. 41 \in 0 .. 48
        OBVIOUS
      <4>2. QED
        BY <4>1, FirstFacts
    <3>3. k < a /\ ~(j < a)
      <4> DEFINE vk == Ver(k)
                 vj == Ver(j)
      <4>1. vk \in 0 .. 48 /\ vk <= vj /\ vj = 41 /\ vk # 41
        BY <2>2, <2>4, <3>1
      <4>2. k \in DOMAIN Program /\ j \in DOMAIN Program
        BY <2>1
      <4>3. (k < a <=> vk < 41) /\ (j < a <=> vj < 41)
        BY <3>2, <4>2
      <4> HIDE DEF vk, vj
      <4>4. vk < 41 /\ ~(vj < 41)
        BY <4>1
      <4>5. QED
        BY <4>3, <4>4
    <3>4. Due(p, a)
      BY <2>4, <3>2 DEF Due, Ver
    <3>5. a \in D /\ a <= j
      BY <1>1, <2>1, <3>2, <3>3, <3>4
    <3>6. QED
      BY <3>5
  <2>5. QED
    BY <1>6, <2>2, <2>3, <2>4 DEF Due, Ver
<1>7. ASSUME NEW j \in DOMAIN Program, k <= j, j < r
      PROVE  ~Due(p, j)
  <2>1. SUFFICES ASSUME Due(p, j) PROVE FALSE
    OBVIOUS
  <2>2. PICK x \in D : x <= j
    BY <1>6, <1>7, <2>1
  <2>3. r <= x /\ x \in Nat /\ r \in Nat /\ j \in Nat
    BY <1>1, <1>3, <1>4
  <2>4. QED
    BY <1>7, <2>2, <2>3
<1>8. QED
  BY <1>5, <1>7

LEMMA PassOver ==
  ASSUME NEW p, seen[p] \in 0 .. 46, NEW k \in 2 .. Len(Program) + 1,
         \A u \in Firm : u <= seen[p] => u \in View(p).recs
  PROVE  /\ \A j \in DOMAIN Program : k <= j /\ j < FirstDue(p, k) /\ Ver(j) \in Versions \ {17, 19}
              => Ver(j) \in View(p).recs
         /\ FirstDue(p, k) # Open => \A j \in DOMAIN Program :
              k <= j /\ j < FirstDue(p, k) => Ver(j) # Ver(FirstDue(p, k))
<1> DEFINE r == FirstDue(p, k)
<1>1. /\ r # Open => Due(p, r)
      /\ \A j \in DOMAIN Program : k <= j /\ j < r => ~Due(p, j)
  BY NextDue
<1> HIDE DEF r
<1>2. ASSUME NEW j \in DOMAIN Program, k <= j, j < r, Ver(j) \in Versions \ {17, 19}
      PROVE  Ver(j) \in View(p).recs
  <2>1. ~(Ver(j) > seen[p]) /\ (Ver(j) = 41 => 41 \in View(p).recs)
    BY <1>1, <1>2 DEF Due, Ver
  <2>2. Ver(j) \in 0 .. 48 /\ seen[p] \in 0 .. 46
    BY ProgramFacts
  <2>3. Ver(j) <= seen[p]
    <3>1. \A x \in 0 .. 48, y \in 0 .. 46 : ~(x > y) => x <= y
      OBVIOUS
    <3>2. QED
      BY <2>1, <2>2, <3>1
  <2>4. QED
    BY <1>2, <2>1, <2>3 DEF Firm
<1>3. ASSUME r # Open, NEW j \in DOMAIN Program, k <= j, j < r
      PROVE  Ver(j) # Ver(r)
  BY <1>1, <1>3 DEF Due, Ver
<1>4. QED
  BY <1>2, <1>3 DEF r

LEMMA ViewMono ==
  ASSUME NEW d, NEW e, Extends(d, e), NEW i, NEW n, NEW fs, ProcOK(i, n, fs, d)
  PROVE  ProcOK(i, n, fs, e)
<1>1. d.recs \subseteq e.recs /\ d.objs \ {"fts_au"} \subseteq e.objs
  BY DEF Extends
<1>2. i = Closed => fs = {}
  BY DEF ProcOK
<1>3. i # Closed =>
       /\ \A u \in Firm : u <= n => u \in e.recs
       /\ \A u \in Versions \ {17, 19} : (i = Open \/ u < Ver(i)) => u \in e.recs
       /\ fs \ {"fts_au"} \subseteq e.objs
  BY <1>1 DEF ProcOK
<1>4. ASSUME i \in DOMAIN Program, NEW j \in DOMAIN Program
      PROVE
       /\ j < i /\ Ver(j) = Ver(i) /\ Program[j].op \in Makers \ {"try"}
            => Program[j].obj \in e.objs \cup {"fts_au"}
       /\ j < i /\ Ver(j) = Ver(i) /\ Program[j].op = "index"
            => TriedIn[Ver(j)] \subseteq e.objs \cup {"fts_au"}
  BY <1>1, <1>4 DEF ProcOK
<1>5. QED
  BY <1>2, <1>3, <1>4 DEF ProcOK

\* A process that has executed its statement goes on.
LEMMA GoOnOK ==
  ASSUME NEW p, seen[p] \in 0 .. 46, NEW i \in DOMAIN Program, NEW fs, NEW e, NEW gs,
         ProcOK(i, seen[p], fs, View(p)), Extends(View(p), e),
         Program[i].op \in Makers \ {"try"} => Program[i].obj \in e.objs \cup {"fts_au"},
         Program[i].op = "index" => TriedIn[Ver(i)] \subseteq e.objs \cup {"fts_au"},
         Program[i].op = "record" => Ver(i) \in e.recs,
         gs \ {"fts_au"} \subseteq e.objs
  PROVE  ProcOK(After(p, i), seen[p], gs, e)
<1> DEFINE k == i + 1
           r == FirstDue(p, k)
           d == View(p)
<1>1. i \in 1 .. Len(Program) /\ k \in 2 .. Len(Program) + 1 /\ Len(Program) \in Nat
      /\ Open = Len(Program) + 1 /\ DOMAIN Program = 1 .. Len(Program)
  BY ProgramFacts DEF Open
<1>2. ProcOK(i, seen[p], fs, e)
  BY ViewMono
<1>3. i # Closed
  BY <1>1 DEF Closed
<1>4. /\ \A u \in Firm : u <= seen[p] => u \in e.recs /\ u \in d.recs
      /\ \A u \in Versions \ {17, 19} : u < Ver(i) => u \in e.recs
  BY <1>2, <1>3 DEF ProcOK
<1>5. d.recs \subseteq e.recs
  BY DEF Extends
<1>6. r \in k .. Open
  BY <1>1, NextDue
<1>7. /\ \A j \in DOMAIN Program : k <= j /\ j < r /\ Ver(j) \in Versions \ {17, 19}
           => Ver(j) \in d.recs
      /\ r # Open => \A j \in DOMAIN Program : k <= j /\ j < r => Ver(j) # Ver(r)
  BY <1>1, <1>4, PassOver
<1>8. r # Closed
  BY <1>1, <1>6 DEF Closed
<1> HIDE DEF r, k, d
<1>9. ASSUME NEW u \in Versions \ {17, 19}, r = Open \/ u < Ver(r)
      PROVE  u \in e.recs
  <2>0. u \in 0 .. 48 /\ Ver(i) \in 0 .. 48
    BY ProgramFacts, Numbers
  <2>1. CASE u < Ver(i)
    BY <1>4, <2>1
  <2>2. ASSUME NEW x \in DOMAIN Program, Ver(x) = u, i < x
        PROVE  u \in e.recs
    <3>1. k <= x
      BY <1>1, <2>2 DEF k
    <3>2. x < r
      <4>1. CASE r = Open
        BY <1>1, <4>1
      <4>2. CASE r # Open /\ u < Ver(r)
        <5>1. r \in DOMAIN Program
          BY <1>1, <1>6, <4>2
        <5>2. r < x => Ver(r) <= Ver(x)
          BY <5>1, ProgramFacts
        <5>3. Ver(r) \in 0 .. 48
          BY <5>1, ProgramFacts
        <5>4. ~(r < x) /\ r # x
          BY <2>0, <2>2, <4>2, <5>2, <5>3
        <5>5. r \in Nat /\ x \in Nat
          BY <1>1, <5>1
        <5>6. QED
          BY <5>4, <5>5
      <4>3. QED
        BY <1>9, <4>1, <4>2
    <3>3. QED
      BY <1>5, <1>7, <2>2, <3>1, <3>2
  <2>3. CASE u = Ver(i)
    <3>1. PICK x \in DOMAIN Program : Ver(x) = u /\ Program[x].op = "record"
      BY <2>3, GoodProgram DEF Good, Ver
    <3>2. CASE x = i
      BY <2>3, <3>1, <3>2
    <3>3. CASE x # i
      <4>1. ~(x < i)
        <5>1. x < i => Ver(x) < Ver(i)
          BY <3>1, ProgramFacts DEF Last
        <5>2. QED
          BY <2>0, <2>3, <3>1, <5>1
      <4>2. i < x
        BY <1>1, <3>3, <4>1
      <4>3. QED
        BY <2>2, <3>1, <4>2
    <3>4. QED
      BY <3>2, <3>3
  <2>4. CASE Ver(i) < u
    <3>1. PICK x : x = FirstOf[u] /\ x \in DOMAIN Program /\ Ver(x) = u
      BY <2>0, FirstFacts
    <3>2. x < i => Ver(x) <= Ver(i)
      BY <3>1, ProgramFacts
    <3>3. ~(x < i) /\ x # i
      BY <2>0, <2>4, <3>1, <3>2
    <3>4. i < x
      BY <1>1, <3>1, <3>3
    <3>5. QED
      BY <2>2, <3>1, <3>4
  <2>5. QED
    BY <2>0, <2>1, <2>3, <2>4
<1>10. ASSUME r \in DOMAIN Program, NEW j \in DOMAIN Program, j < r, Ver(j) = Ver(r)
       PROVE  /\ Program[j].op \in Makers \ {"try"} => Program[j].obj \in e.objs \cup {"fts_au"}
              /\ Program[j].op = "index" => TriedIn[Ver(j)] \subseteq e.objs \cup {"fts_au"}
  <2>1. r # Open
    BY <1>1, <1>10
  <2>2. ~(k <= j)
    BY <1>7, <1>10, <2>1
  <2>3. j = i \/ j < i
    BY <1>1, <2>2 DEF k
  <2>4. i < r
    BY <1>1, <1>6 DEF k
  <2>5. CASE j = i
    BY <2>5
  <2>6. CASE j < i
    <3>1. Ver(j) <= Ver(i) /\ Ver(i) <= Ver(r)
      BY <1>10, <2>4, <2>6, ProgramFacts
    <3>2. Ver(j) \in 0 .. 48 /\ Ver(i) \in 0 .. 48
      BY ProgramFacts
    <3>3. Ver(j) = Ver(i)
      BY <1>10, <3>1, <3>2
    <3>4. QED
      BY <1>2, <2>6, <3>3 DEF ProcOK
  <2>7. QED
    BY <2>3, <2>5, <2>6
<1>11. ProcOK(r, seen[p], gs, e)
  BY <1>4, <1>8, <1>9, <1>10 DEF ProcOK
<1>12. QED
  BY <1>11 DEF After, r, k

\* One that leaves a block of the full-text index goes on after it.
LEMMA SkipOK ==
  ASSUME NEW p, seen[p] \in 0 .. 46, at[p] \in DOMAIN Program,
         Ver(at[p]) \in {17, 19, Heal},
         ProcOK(at[p], seen[p], found[p], View(p))
  PROVE  ProcOK(NextBlock(p), seen[p], found[p], View(p))
<1> DEFINE i == at[p]
           k == FirstOf[Ver(i) + 1]
           r == FirstDue(p, k)
           d == View(p)
<1>1. i \in 1 .. Len(Program) /\ Len(Program) \in Nat
      /\ Open = Len(Program) + 1 /\ DOMAIN Program = 1 .. Len(Program)
  BY ProgramFacts DEF Open
<1>2. Ver(i) \in {17, 19, 47} /\ Ver(i) + 1 \in 0 .. 48
  BY Numbers
<1>3. k \in DOMAIN Program /\ Ver(k) = Ver(i) + 1
      /\ \A j \in DOMAIN Program : j < k <=> Ver(j) < Ver(i) + 1
  BY <1>2, FirstFacts
<1>4. i < k
  BY <1>1, <1>2, <1>3
<1>5. k \in 2 .. Len(Program) + 1
  BY <1>1, <1>3, <1>4
<1>6. i # Closed
  BY <1>1 DEF Closed
<1>7. /\ \A u \in Firm : u <= seen[p] => u \in d.recs
      /\ \A u \in Versions \ {17, 19} : u < Ver(i) => u \in d.recs
      /\ found[p] \ {"fts_au"} \subseteq d.objs
  BY <1>6 DEF ProcOK
<1>8. r \in k .. Open
  BY <1>5, NextDue
<1>9. /\ \A j \in DOMAIN Program : k <= j /\ j < r /\ Ver(j) \in Versions \ {17, 19}
           => Ver(j) \in d.recs
      /\ r # Open => \A j \in DOMAIN Program : k <= j /\ j < r => Ver(j) # Ver(r)
  BY <1>5, <1>7, PassOver
<1>10. r # Closed
  BY <1>1, <1>5, <1>8 DEF Closed
<1>11. r = NextBlock(p)
  BY DEF NextBlock, Ver
<1> HIDE DEF r, k, d, i
<1>12. ASSUME NEW u \in Versions \ {17, 19}, r = Open \/ u < Ver(r)
       PROVE  u \in d.recs
  <2>0. u \in 0 .. 48 /\ u # Ver(i)
    BY <1>2, Numbers
  <2>1. CASE u < Ver(i)
    BY <1>7, <2>1
  <2>2. CASE Ver(i) < u
    <3>1. PICK x : x = FirstOf[u] /\ x \in DOMAIN Program /\ Ver(x) = u
      BY <2>0, FirstFacts
    <3>2. ~(x < k)
      BY <1>2, <1>3, <2>0, <2>2, <3>1
    <3>3. k <= x
      BY <1>1, <1>3, <3>1, <3>2
    <3>4. x < r
      <4>1. CASE r = Open
        BY <1>1, <3>1, <4>1
      <4>2. CASE r # Open /\ u < Ver(r)
        <5>1. r \in DOMAIN Program
          BY <1>1, <1>3, <1>8, <4>2
        <5>2. r < x => Ver(r) <= Ver(x)
          BY <3>1, <5>1, ProgramFacts
        <5>3. Ver(r) \in 0 .. 48
          BY <5>1, ProgramFacts
        <5>4. ~(r < x) /\ r # x
          BY <2>0, <3>1, <4>2, <5>2, <5>3
        <5>5. r \in Nat /\ x \in Nat
          BY <1>1, <3>1, <5>1
        <5>6. QED
          BY <5>4, <5>5
      <4>3. QED
        BY <1>12, <4>1, <4>2
    <3>5. QED
      BY <1>9, <3>1, <3>3, <3>4
  <2>3. QED
    BY <1>2, <2>0, <2>1, <2>2
<1>13. ASSUME r \in DOMAIN Program, NEW j \in DOMAIN Program, j < r
       PROVE  Ver(j) # Ver(r)
  <2>1. r # Open
    BY <1>1, <1>13
  <2>2. CASE k <= j
    BY <1>9, <1>13, <2>1, <2>2
  <2>3. CASE ~(k <= j)
    <3>1. j < k
      BY <1>1, <1>3, <2>3
    <3>2. Ver(j) < Ver(k)
      BY <1>3, <3>1
    <3>3. r = k \/ k < r
      BY <1>1, <1>3, <1>8
    <3>4. Ver(k) = Ver(r) \/ Ver(k) <= Ver(r)
      BY <1>3, <1>13, <3>3, ProgramFacts
    <3>5. Ver(j) \in 0 .. 48 /\ Ver(k) \in 0 .. 48 /\ Ver(r) \in 0 .. 48
      BY <1>3, <1>13, ProgramFacts
    <3>6. QED
      BY <3>2, <3>4, <3>5
  <2>4. QED
    BY <2>2, <2>3
<1>14. ProcOK(r, seen[p], found[p], d)
  BY <1>7, <1>10, <1>12, <1>13 DEF ProcOK
<1>15. QED
  BY <1>11, <1>14 DEF d

LEMMA AfterFacts ==
  ASSUME NEW p, seen[p] \in 0 .. 46, NEW i \in DOMAIN Program
  PROVE  /\ After(p, i) \in 1 .. Open
         /\ Program[i].op # "commit" => After(p, i) \in DOMAIN Program
<1> DEFINE k == i + 1
           r == FirstDue(p, k)
<1>1. i \in 1 .. Len(Program) /\ k \in 2 .. Len(Program) + 1 /\ Len(Program) \in Nat
      /\ Open = Len(Program) + 1 /\ DOMAIN Program = 1 .. Len(Program)
  BY ProgramFacts DEF Open
<1>2. r \in k .. Open /\ \A j \in DOMAIN Program : k <= j /\ j < r => ~Due(p, j)
  BY <1>1, NextDue
<1> HIDE DEF r
<1>3. r \in 1 .. Open
  BY <1>1, <1>2
<1>4. ASSUME Program[i].op # "commit"
      PROVE  r \in DOMAIN Program
  <2>1. SUFFICES r # Open
    BY <1>1, <1>3
  <2>2. PICK x : x = FirstOf[48] /\ x \in DOMAIN Program /\ Ver(x) = 48
                 /\ \A j \in DOMAIN Program : j < x <=> Ver(j) < 48
    <3>1. 48 \in 0 .. 48
      OBVIOUS
    <3>2. QED
      BY <3>1, FirstFacts
  <2>3. Ver(i) # 48 /\ Ver(i) \in 0 .. 48
    BY <1>4, ProgramFacts, Numbers DEF Fit, Ver
  <2>4. i < x
    BY <2>2, <2>3
  <2>5. k <= x
    BY <1>1, <2>2, <2>4
  <2>6. Due(p, x)
    <3>1. \A n \in 0 .. 46 : 48 > n
      OBVIOUS
    <3>2. QED
      BY <2>2, <3>1 DEF Due, Ver
  <2>7. ~(x < r)
    BY <1>2, <2>2, <2>5, <2>6
  <2>8. QED
    BY <1>1, <2>2, <2>7
<1>5. QED
  BY <1>3, <1>4 DEF After, r

LEMMA NextBlockFacts ==
  ASSUME NEW p, seen[p] \in 0 .. 46, at[p] \in DOMAIN Program, Ver(at[p]) \in {17, 19, Heal}
  PROVE  NextBlock(p) \in DOMAIN Program
<1> DEFINE v == Ver(at[p]) + 1
           k == FirstOf[v]
           r == FirstDue(p, k)
<1>1. v \in {18, 20, 48} /\ v \in 0 .. 48
  BY Numbers
<1> HIDE DEF v
<1>2. k \in DOMAIN Program /\ Ver(k) = v
  BY <1>1, FirstFacts
<1>3. k # 1
  <2>1. 0 \in 0 .. 48
    OBVIOUS
  <2>2. PICK z \in DOMAIN Program : Ver(z) = 0
    BY <2>1, FirstFacts
  <2>3. z = 1
    BY <2>2, ProgramFacts
  <2>4. QED
    BY <1>1, <1>2, <2>2, <2>3
<1>4. k \in 2 .. Len(Program) + 1 /\ DOMAIN Program = 1 .. Len(Program) /\ Len(Program) \in Nat
      /\ Open = Len(Program) + 1
  BY <1>2, <1>3, ProgramFacts DEF Open
<1>5. r \in k .. Open /\ \A j \in DOMAIN Program : k <= j /\ j < r => ~Due(p, j)
  BY <1>4, NextDue
<1>6. r = NextBlock(p)
  BY DEF NextBlock, Ver, v
<1> HIDE DEF r
<1>7. PICK x : x = FirstOf[48] /\ x \in DOMAIN Program /\ Ver(x) = 48
               /\ \A j \in DOMAIN Program : j < x <=> Ver(j) < 48
  <2>1. 48 \in 0 .. 48
    OBVIOUS
  <2>2. QED
    BY <2>1, FirstFacts
<1>8. k <= x
  <2>1. \A j \in DOMAIN Program : x < j => Ver(x) <= Ver(j)
    BY <1>7, ProgramFacts
  <2>2. CASE x < k
    <3>1. Ver(k) = 48
      BY <1>1, <1>2, <1>7, <2>1, <2>2
    <3>2. k = FirstOf[48]
      BY <1>2, <3>1
    <3>3. QED
      BY <1>4, <1>7, <2>2, <3>2
  <2>3. QED
    BY <1>4, <1>7, <2>2
<1>9. Due(p, x)
  <2>1. \A n \in 0 .. 46 : 48 > n
    OBVIOUS
  <2>2. QED
    BY <1>7, <2>1 DEF Due, Ver
<1>10. ~(x < r)
  BY <1>5, <1>7, <1>8, <1>9
<1>11. r \in DOMAIN Program
  BY <1>4, <1>5, <1>7, <1>10
<1>12. QED
  BY <1>6, <1>11

-----------------------------------------------------------------------------
(* What a database keeps when a statement is added to it.                  *)

LEMMA ObjectsFacts ==
  /\ \A v \in 0 .. 48 : \A o : o \in ObjectsOf[v] <=>
       \E i \in DOMAIN Program : Ver(i) = v /\ Program[i].op \in Makers /\ Program[i].obj = o
  /\ \A v \in 0 .. 48 : \A o : o \in TriedIn[v] <=>
       \E i \in DOMAIN Program : Ver(i) = v /\ Program[i].op = "try" /\ Program[i].obj = o
BY Numbers DEF ObjectsOf, TriedIn, OfBlock, Makers, Ver

LEMMA FtsFacts ==
  /\ \A v \in Versions \ {19} : "fts_au" \notin ObjectsOf[v]
  /\ ObjectsOf[17] \subseteq FtsObjects
<1>1. ASSUME NEW v \in Versions \ {19}
      PROVE  "fts_au" \notin ObjectsOf[v]
  <2>1. v \in 0 .. 48 /\ v # 47
    BY Numbers
  <2>2. \A i \in DOMAIN Program : Program[i].obj = "fts_au" => Ver(i) \in {19, 47}
    BY ProgramFacts, Numbers DEF Fit, Ver
  <2>3. QED
    BY <2>1, <2>2, ObjectsFacts
<1>2. ASSUME NEW o \in ObjectsOf[17]
      PROVE  o \in FtsObjects
  <2>1. 17 \in 0 .. 48
    OBVIOUS
  <2>2. PICK i \in DOMAIN Program : Ver(i) = 17 /\ Program[i].op \in Makers /\ Program[i].obj = o
    BY <2>1, ObjectsFacts
  <2>3. Program[i].op # "record"
    BY <2>2 DEF Makers
  <2>4. QED
    BY <2>2, <2>3, ProgramFacts DEF Fit, Ver
<1>3. QED
  BY <1>1, <1>2

LEMMA WithFields ==
  ASSUME NEW d, NEW os, NEW rs
  PROVE  /\ With(d, os, rs).objs = d.objs \cup os
         /\ With(d, os, rs).recs = d.recs \cup rs
         /\ With(d, os, rs) = [objs |-> With(d, os, rs).objs, recs |-> With(d, os, rs).recs]
         /\ Extends(d, With(d, os, rs))
BY DEF With, Extends

\* What is there already changes nothing.
LEMMA WithThere ==
  ASSUME NEW d, DbOK(d), NEW o \in d.objs
  PROVE  With(d, {o}, {}) = d
<1>1. d = [objs |-> d.objs, recs |-> d.recs]
  BY DEF DbOK
<1>2. d.objs \cup {o} = d.objs /\ d.recs \cup {} = d.recs
  OBVIOUS
<1>3. QED
  BY <1>1, <1>2 DEF With

LEMMA DbMake ==
  ASSUME NEW d, DbOK(d), NEW os
  PROVE  DbOK(With(d, os, {}))
<1> DEFINE e == With(d, os, {})
<1>1. e.objs = d.objs \cup os /\ e.recs = d.recs /\ e = [objs |-> e.objs, recs |-> e.recs]
  BY WithFields
<1> HIDE DEF e
<1>2. DbOK(e)
  BY <1>1 DEF DbOK
<1>3. QED
  BY <1>2 DEF e

LEMMA DbDrop ==
  ASSUME NEW d, DbOK(d)
  PROVE  /\ DbOK([d EXCEPT !.objs = @ \ {"fts_au"}])
         /\ Extends(d, [d EXCEPT !.objs = @ \ {"fts_au"}])
<1> DEFINE e == [d EXCEPT !.objs = @ \ {"fts_au"}]
<1>1. d = [objs |-> d.objs, recs |-> d.recs]
  BY DEF DbOK
<1>2. e.objs = d.objs \ {"fts_au"} /\ e.recs = d.recs /\ e = [objs |-> e.objs, recs |-> e.recs]
  BY <1>1
<1> HIDE DEF e
<1>3. \A v \in e.recs \ {19} : ObjectsOf[v] \subseteq e.objs
  BY <1>2, FtsFacts DEF DbOK
<1>4. DbOK(e)
  BY <1>2, <1>3 DEF DbOK
<1>5. Extends(d, e)
  BY <1>2 DEF Extends
<1>6. QED
  BY <1>4, <1>5 DEF e

\* A version is recorded when all of it has been done.
LEMMA DbRecord ==
  ASSUME NEW i \in DOMAIN Program, Program[i].op = "record", NEW n, NEW fs, NEW d,
         DbOK(d), ProcOK(i, n, fs, d)
  PROVE  DbOK(With(d, {}, {Ver(i)}))
<1> DEFINE e == With(d, {}, {Ver(i)})
           v == Ver(i)
<1>0. i \in 1 .. Len(Program) /\ Len(Program) \in Nat /\ DOMAIN Program = 1 .. Len(Program)
  BY ProgramFacts
<1>1. e.objs = d.objs /\ e.recs = d.recs \cup {v} /\ e = [objs |-> e.objs, recs |-> e.recs]
  <2>1. d.objs \cup {} = d.objs
    OBVIOUS
  <2>2. QED
    BY <2>1 DEF With
<1>2. v \in Versions /\ v \in 0 .. 48
  BY ProgramFacts DEF Fit, Ver
<1>3. i # Closed
  BY <1>0 DEF Closed
<1>4. /\ \A u \in Versions \ {17, 19} : u < v => u \in d.recs
      /\ \A j \in DOMAIN Program :
           /\ j < i /\ Ver(j) = v /\ Program[j].op \in Makers \ {"try"}
                => Program[j].obj \in d.objs \cup {"fts_au"}
           /\ j < i /\ Ver(j) = v /\ Program[j].op = "index"
                => TriedIn[Ver(j)] \subseteq d.objs \cup {"fts_au"}
  BY <1>3 DEF ProcOK
<1> HIDE DEF e, v
<1>5. \A j \in DOMAIN Program : Ver(j) = v /\ j # i => j < i
  <2> SUFFICES ASSUME NEW j \in DOMAIN Program, Ver(j) = v, j # i PROVE j < i
    OBVIOUS
  <2>1. i < j => Ver(i) < Ver(j)
    BY ProgramFacts DEF Last
  <2>2. ~(i < j)
    BY <1>2, <2>1 DEF v
  <2>3. QED
    BY <1>0, <2>2
<1>6. ASSUME v # 19
      PROVE  ObjectsOf[v] \subseteq d.objs
  <2> SUFFICES ASSUME NEW o \in ObjectsOf[v] PROVE o \in d.objs
    OBVIOUS
  <2>1. o # "fts_au"
    BY <1>2, <1>6, FtsFacts
  <2>2. PICK j \in DOMAIN Program : Ver(j) = v /\ Program[j].op \in Makers /\ Program[j].obj = o
    BY <1>2, ObjectsFacts
  <2>3. j < i
    <3>1. "record" \notin Makers
      BY DEF Makers
    <3>2. QED
      BY <1>5, <2>2, <3>1
  <2>4. CASE Program[j].op # "try"
    BY <1>4, <2>1, <2>2, <2>3, <2>4
  <2>5. CASE Program[j].op = "try"
    <3>1. PICK k \in DOMAIN Program : Ver(k) = v /\ Program[k].op = "index"
      BY <2>2, <2>5, GoodProgram DEF Good, Ver
    <3>2. k < i
      BY <1>5, <3>1
    <3>3. o \in TriedIn[v]
      BY <1>2, <2>2, <2>5, ObjectsFacts
    <3>4. QED
      BY <1>4, <2>1, <3>1, <3>2, <3>3
  <2>6. QED
    BY <2>4, <2>5
<1>7. \A x \in e.recs \ {19} : ObjectsOf[x] \subseteq e.objs
  BY <1>1, <1>6 DEF DbOK
<1>8. \A x \in e.recs : \A u \in Firm : u < x => u \in e.recs
  BY <1>1, <1>4 DEF DbOK, Firm
<1>9. e.recs \subseteq Versions
  BY <1>1, <1>2 DEF DbOK
<1>10. DbOK(e)
  BY <1>1, <1>7, <1>8, <1>9 DEF DbOK
<1>11. QED
  BY <1>10 DEF e, v

\* The rows of 17 and 19 are written when the index is complete.
LEMMA DbRecordFts ==
  ASSUME NEW i \in DOMAIN Program, Program[i].op = "recordFts", NEW n, NEW fs, NEW d,
         DbOK(d), ProcOK(i, n, fs, d)
  PROVE  DbOK(With(d, {}, {17, 19}))
<1> DEFINE e == With(d, {}, {17, 19})
<1>0. i \in 1 .. Len(Program) /\ Len(Program) \in Nat /\ DOMAIN Program = 1 .. Len(Program)
  BY ProgramFacts
<1>1. e.objs = d.objs /\ e.recs = d.recs \cup {17, 19} /\ e = [objs |-> e.objs, recs |-> e.recs]
  <2>1. d.objs \cup {} = d.objs
    OBVIOUS
  <2>2. QED
    BY <2>1 DEF With
<1>2. Ver(i) = 47
  BY ProgramFacts, Numbers DEF Fit, Ver
<1>3. i # Closed
  BY <1>0 DEF Closed
<1>4. /\ \A u \in Versions \ {17, 19} : u < Ver(i) => u \in d.recs
      /\ \A j \in DOMAIN Program :
           j < i /\ Ver(j) = Ver(i) /\ Program[j].op \in Makers \ {"try"}
             => Program[j].obj \in d.objs \cup {"fts_au"}
  BY <1>3 DEF ProcOK
<1> HIDE DEF e
<1>5. ASSUME NEW o \in FtsObjects
      PROVE  o \in d.objs
  <2>1. PICK j \in DOMAIN Program :
          j < i /\ Program[j].ver = Heal /\ Program[j].op \in Makers /\ Program[j].obj = o
    BY GoodProgram DEF Good
  <2>2. Ver(j) = 47
    BY <2>1, Numbers DEF Ver
  <2>3. o # "fts_au"
    BY DEF FtsObjects
  <2>4. Program[j].op # "try"
    <3>1. 47 \notin Versions
      BY Numbers
    <3>2. QED
      BY <2>2, <3>1, ProgramFacts DEF Fit, Ver
  <2>5. QED
    BY <1>2, <1>4, <2>1, <2>2, <2>3, <2>4
<1>6. \A x \in e.recs \ {19} : ObjectsOf[x] \subseteq e.objs
  BY <1>1, <1>5, FtsFacts DEF DbOK
<1>7. \A x \in e.recs : \A u \in Firm : u < x => u \in e.recs
  <2>1. \A u \in Versions : u < 47
    BY Numbers
  <2>2. \A u \in Firm : u \in d.recs
    BY <1>2, <1>4, <2>1 DEF Firm
  <2>3. QED
    BY <1>1, <2>2
<1>8. e.recs \subseteq Versions
  BY <1>1, Numbers DEF DbOK
<1>9. DbOK(e)
  BY <1>1, <1>6, <1>7, <1>8 DEF DbOK
<1>10. QED
  BY <1>9 DEF e

-----------------------------------------------------------------------------
(* What each kind of statement does to the database, as everybody sees it. *)

Held ==
  /\ writer \in Procs \cup {NoProc}
  /\ writer = NoProc => pend = Nothing
  /\ DbOK(disk)
  /\ writer # NoProc => DbOK(pend) /\ Extends(disk, pend)

OthersSeeMore(p) ==
  /\ \A q \in Procs \ {p} : Extends(View(q), View(q)')
  /\ writer \notin {p, NoProc} => UNCHANGED <<disk, writer, pend>>

LEMMA Itself ==
  ASSUME NEW d
  PROVE  Extends(d, d)
BY DEF Extends

LEMMA ViewHeld ==
  ASSUME Held, NEW p \in Procs
  PROVE  DbOK(View(p))
BY SchemaStoreAssumption DEF Held, View

LEMMA WriteEffect ==
  ASSUME Held, NEW p \in Procs, NEW d, DbOK(d), Extends(View(p), d),
         MayWrite(p) \/ d = View(p),
         Ddl(p, d) \/ (MayWrite(p) /\ Dml(p, d))
  PROVE  Held' /\ OthersSeeMore(p) /\ View(p)' = d /\ writer' \in {writer, p}
<1>0. p # NoProc /\ NoProc \notin Procs
  BY SchemaStoreAssumption
<1>1. CASE writer = p
  <2>1. pend' = d /\ disk' = disk /\ writer' = p
    BY <1>0, <1>1 DEF Ddl, Dml
  <2>2. Extends(disk, d)
    BY <1>0, <1>1 DEF Held, View, Extends
  <2>3. Held'
    BY <1>0, <2>1, <2>2 DEF Held
  <2>4. \A q \in Procs \ {p} : View(q) = disk /\ View(q)' = disk
    BY <1>1, <2>1 DEF View
  <2>5. View(p)' = d
    BY <2>1 DEF View
  <2>6. QED
    BY <1>1, <2>1, <2>3, <2>4, <2>5, Itself DEF OthersSeeMore
<1>2. CASE writer # p /\ Ddl(p, d)
  <2>1. disk' = d /\ pend' = pend /\ writer' = writer /\ View(p) = disk
    BY <1>2 DEF Ddl, View
  <2>2. writer # NoProc => d = disk
    BY <1>2, <2>1 DEF MayWrite
  <2>3. Held'
    BY <2>1, <2>2 DEF Held
  <2>4. View(p)' = d
    BY <1>2, <2>1 DEF View
  <2>5. ASSUME NEW q \in Procs
        PROVE  Extends(View(q), View(q)')
    <3>1. CASE writer = q
      BY <2>1, <3>1, Itself DEF View
    <3>2. CASE writer # q
      BY <2>1, <3>2 DEF View
    <3>3. QED
      BY <3>1, <3>2
  <2>6. writer # NoProc => UNCHANGED <<disk, writer, pend>>
    BY <2>1, <2>2
  <2>7. QED
    BY <2>1, <2>3, <2>4, <2>5, <2>6 DEF OthersSeeMore
<1>3. CASE writer # p /\ MayWrite(p) /\ Dml(p, d)
  <2>1. writer = NoProc /\ pend' = d /\ writer' = p /\ disk' = disk /\ View(p) = disk
    BY <1>3 DEF Dml, View, MayWrite
  <2>2. Held'
    BY <1>0, <2>1 DEF Held
  <2>3. \A q \in Procs \ {p} : View(q) = disk /\ View(q)' = disk
    BY <1>0, <2>1 DEF View
  <2>4. View(p)' = d
    BY <2>1 DEF View
  <2>5. QED
    BY <2>1, <2>2, <2>3, <2>4, Itself DEF OthersSeeMore
<1>4. QED
  BY <1>1, <1>2, <1>3

LEMMA CommitEffect ==
  ASSUME Held, NEW p \in Procs, Commit(p)
  PROVE  Held' /\ OthersSeeMore(p) /\ View(p)' = View(p) /\ writer' \in {writer, NoProc} \ {p}
<1>0. p # NoProc /\ NoProc \notin Procs
  BY SchemaStoreAssumption
<1>1. CASE writer = p
  <2>1. disk' = pend /\ writer' = NoProc /\ pend' = Nothing
    BY <1>1 DEF Commit
  <2>2. Held'
    BY <1>0, <1>1, <2>1 DEF Held
  <2>3. \A q \in Procs : View(q)' = pend
    BY <1>0, <2>1 DEF View
  <2>4. \A q \in Procs \ {p} : View(q) = disk
    BY <1>1 DEF View
  <2>5. Extends(disk, pend) /\ View(p) = pend
    BY <1>0, <1>1 DEF Held, View
  <2>6. QED
    BY <1>0, <1>1, <2>1, <2>2, <2>3, <2>4, <2>5 DEF OthersSeeMore
<1>2. CASE writer # p
  <2>1. disk' = disk /\ writer' = writer /\ pend' = pend
    BY <1>2 DEF Commit
  <2>2. Held'
    BY <2>1 DEF Held
  <2>3. \A q \in Procs : View(q)' = View(q)
    BY <2>1 DEF View
  <2>4. QED
    BY <1>2, <2>1, <2>2, <2>3, Itself DEF OthersSeeMore
<1>3. QED
  BY <1>1, <1>2

LEMMA StillEffect ==
  ASSUME Held, UNCHANGED <<disk, writer, pend>>
  PROVE  Held' /\ writer' = writer /\ \A q : View(q)' = View(q) /\ Extends(View(q), View(q)')
<1>1. disk' = disk /\ writer' = writer /\ pend' = pend
  OBVIOUS
<1>2. Held'
  BY <1>1 DEF Held
<1>3. \A q : View(q)' = View(q)
  BY <1>1 DEF View
<1>4. QED
  BY <1>1, <1>2, <1>3, Itself

LEMMA RaiseEffect ==
  ASSUME Held, NEW p \in Procs, Raise(p)
  PROVE  Held' /\ OthersSeeMore(p) /\ writer' \in {writer, NoProc} \ {p} /\ disk' = disk
<1>0. p # NoProc /\ NoProc \notin Procs
  BY SchemaStoreAssumption
<1>1. CASE writer = p
  <2>1. disk' = disk /\ writer' = NoProc /\ pend' = Nothing
    BY <1>1 DEF Raise
  <2>2. Held'
    BY <2>1 DEF Held
  <2>3. \A q \in Procs \ {p} : View(q)' = disk /\ View(q) = disk
    BY <1>0, <1>1, <2>1 DEF View
  <2>4. QED
    BY <1>0, <1>1, <2>1, <2>2, <2>3, Itself DEF OthersSeeMore
<1>2. CASE writer # p
  <2>1. UNCHANGED <<disk, writer, pend>>
    BY <1>2 DEF Raise
  <2>2. QED
    BY <1>2, <2>1, StillEffect DEF OthersSeeMore
<1>3. QED
  BY <1>1, <1>2

-----------------------------------------------------------------------------
(* One step of a process.                                                  *)

PlacesOK ==
  /\ at \in [Procs -> Closed .. Open]
  /\ seen \in [Procs -> 0 .. 46]
  /\ found = [p \in Procs |-> found[p]]

Ready(p) == ProcOK(at[p], seen[p], found[p], View(p))

\* What a step of p leaves: p where it can go on, and the others where they were.
StepOK(p) ==
  /\ Held' /\ PlacesOK' /\ OthersSeeMore(p)
  /\ \A q \in Procs \ {p} : at'[q] = at[q] /\ seen'[q] = seen[q] /\ found'[q] = found[q]
  /\ ProcOK(at'[p], seen'[p], found'[p], View(p)')
  /\ writer' \in {writer, p, NoProc}
  /\ writer' = p => at'[p] \in DOMAIN Program

LEMMA RaiseStep ==
  ASSUME Held, PlacesOK, NEW p \in Procs, Raise(p)
  PROVE  StepOK(p)
<1>1. Held' /\ OthersSeeMore(p) /\ writer' \in {writer, NoProc} \ {p}
  BY RaiseEffect
<1>2. /\ at' = [at EXCEPT ![p] = Closed] /\ seen' = [seen EXCEPT ![p] = 0]
      /\ found' = [found EXCEPT ![p] = {}]
  BY DEF Raise
<1>3. at'[p] = Closed /\ seen'[p] = 0 /\ found'[p] = {}
  BY <1>2 DEF PlacesOK
<1>4. \A q \in Procs \ {p} : at'[q] = at[q] /\ seen'[q] = seen[q] /\ found'[q] = found[q]
  BY <1>2 DEF PlacesOK
<1>5. PlacesOK'
  <2>1. Closed \in Closed .. Open /\ 0 \in 0 .. 46
    BY ProgramFacts DEF Open, Closed
  <2>2. at' \in [Procs -> Closed .. Open] /\ seen' \in [Procs -> 0 .. 46]
    BY <1>2, <2>1 DEF PlacesOK
  <2>3. found' = [q \in Procs |-> found'[q]]
    BY <1>2 DEF PlacesOK
  <2>4. QED
    BY <2>2, <2>3 DEF PlacesOK
<1>6. Closed \notin DOMAIN Program
  BY ProgramFacts DEF Closed
<1>7. ProcOK(at'[p], seen'[p], found'[p], View(p)')
  BY <1>3, <1>6 DEF ProcOK
<1>8. QED
  BY <1>1, <1>4, <1>5, <1>7 DEF StepOK

\* A step that goes on to the statement at i.
LEMMA MoveStep ==
  ASSUME PlacesOK, NEW p \in Procs, NEW i \in 1 .. Open, NEW fs,
         Held', OthersSeeMore(p),
         at' = [at EXCEPT ![p] = i], seen' = seen,
         found' = [found EXCEPT ![p] = fs],
         ProcOK(i, seen[p], fs, View(p)'),
         writer' \in {writer, p, NoProc},
         writer' = p => i \in DOMAIN Program
  PROVE  StepOK(p)
<1>1. at'[p] = i /\ seen'[p] = seen[p] /\ found'[p] = fs
  BY DEF PlacesOK
<1>2. \A q \in Procs \ {p} : at'[q] = at[q] /\ seen'[q] = seen[q] /\ found'[q] = found[q]
  BY DEF PlacesOK
<1>3. PlacesOK'
  <2>1. i \in Closed .. Open
    BY ProgramFacts DEF Open, Closed
  <2>2. at' \in [Procs -> Closed .. Open] /\ seen' \in [Procs -> 0 .. 46]
    BY <2>1 DEF PlacesOK
  <2>3. found' = [q \in Procs |-> found'[q]]
    BY DEF PlacesOK
  <2>4. QED
    BY <2>2, <2>3 DEF PlacesOK
<1>4. QED
  BY <1>1, <1>2, <1>3 DEF StepOK

LEMMA SkipStep ==
  ASSUME Held, PlacesOK, NEW p \in Procs, Ready(p), at[p] \in DOMAIN Program,
         Ver(at[p]) \in {17, 19, Heal}, Skip(p), UNCHANGED <<seen, found>>
  PROVE  StepOK(p)
<1>1. seen[p] \in 0 .. 46
  BY DEF PlacesOK
<1>2. ProcOK(NextBlock(p), seen[p], found[p], View(p)) /\ NextBlock(p) \in DOMAIN Program
  BY <1>1, SkipOK, NextBlockFacts DEF Ready
<1>3. NextBlock(p) \in 1 .. Open
  BY <1>2, ProgramFacts DEF Open
<1>4. at' = [at EXCEPT ![p] = NextBlock(p)] /\ UNCHANGED <<disk, writer, pend>>
  BY DEF Skip
<1>5. Held' /\ OthersSeeMore(p) /\ writer' = writer /\ View(p)' = View(p)
  BY <1>4, StillEffect DEF OthersSeeMore
<1>6. found' = [found EXCEPT ![p] = found[p]]
  BY DEF PlacesOK
<1>7. QED
  BY <1>2, <1>3, <1>4, <1>5, <1>6, MoveStep

\* The statement was executed, with d what p sees now.
LEMMA GoOnStep ==
  ASSUME Held, PlacesOK, NEW p \in Procs, Ready(p), at[p] \in DOMAIN Program,
         GoOn(p), NEW d, NEW fs,
         Held', OthersSeeMore(p), View(p)' = d, Extends(View(p), d),
         writer' \in {writer, p, NoProc},
         writer' = p => Program[at[p]].op # "commit",
         seen' = seen, found' = [found EXCEPT ![p] = fs],
         Program[at[p]].op \in Makers \ {"try"} => Program[at[p]].obj \in d.objs \cup {"fts_au"},
         Program[at[p]].op = "index" => TriedIn[Ver(at[p])] \subseteq d.objs \cup {"fts_au"},
         Program[at[p]].op = "record" => Ver(at[p]) \in d.recs,
         fs \ {"fts_au"} \subseteq d.objs
  PROVE  StepOK(p)
<1>1. seen[p] \in 0 .. 46
  BY DEF PlacesOK
<1>2. at' = [at EXCEPT ![p] = After(p, at[p])]
  BY DEF GoOn
<1>3. /\ After(p, at[p]) \in 1 .. Open
      /\ writer' = p => After(p, at[p]) \in DOMAIN Program
  BY <1>1, AfterFacts
<1>4. ProcOK(at[p], seen[p], found[p], View(p))
  BY DEF Ready
<1>5. ProcOK(After(p, at[p]), seen[p], fs, d)
  BY <1>1, <1>4, GoOnOK
<1>6. QED
  BY <1>2, <1>3, <1>5, MoveStep

\* Found stays what p can see.
LEMMA FoundKept ==
  ASSUME NEW p \in Procs, Ready(p), at[p] # Closed, NEW d, Extends(View(p), d)
  PROVE  found[p] \ {"fts_au"} \subseteq d.objs
BY DEF Ready, ProcOK, Extends

\* A statement that makes its object, or finds it made.
LEMMA MakesStep ==
  ASSUME Held, PlacesOK, NEW p \in Procs, Ready(p), at[p] \in DOMAIN Program, GoOn(p),
         NEW d, DbOK(d), Extends(View(p), d), MayWrite(p) \/ d = View(p),
         Ddl(p, d) \/ (MayWrite(p) /\ Dml(p, d)), NEW fs, fs \in {found[p], {}},
         seen' = seen, found' = [found EXCEPT ![p] = fs],
         Program[at[p]].op # "commit",
         Program[at[p]].op \in Makers \ {"try"} => Program[at[p]].obj \in d.objs \cup {"fts_au"},
         Program[at[p]].op = "index" => TriedIn[Ver(at[p])] \subseteq d.objs \cup {"fts_au"},
         Program[at[p]].op = "record" => Ver(at[p]) \in d.recs
  PROVE  StepOK(p)
<1>1. Held' /\ OthersSeeMore(p) /\ View(p)' = d /\ writer' \in {writer, p}
  BY WriteEffect
<1>2. at[p] # Closed
  BY ProgramFacts DEF Closed
<1>3. fs \ {"fts_au"} \subseteq d.objs
  BY <1>2, FoundKept
<1>4. writer' \in {writer, p, NoProc}
  BY <1>1
<1>5. QED
  BY <1>1, <1>3, <1>4, GoOnStep

\* One that changes nothing.
LEMMA PassesStep ==
  ASSUME Held, PlacesOK, NEW p \in Procs, Ready(p), at[p] \in DOMAIN Program, GoOn(p),
         UNCHANGED <<disk, writer, pend>>, NEW fs,
         fs = found[p] \/ fs \subseteq View(p).objs,
         seen' = seen, found' = [found EXCEPT ![p] = fs],
         Program[at[p]].op # "commit",
         Program[at[p]].op \in Makers \ {"try"}
           => Program[at[p]].obj \in View(p).objs \cup {"fts_au"},
         Program[at[p]].op # "index", Program[at[p]].op # "record"
  PROVE  StepOK(p)
<1>1. Held' /\ OthersSeeMore(p) /\ View(p)' = View(p) /\ writer' = writer
  BY StillEffect DEF OthersSeeMore
<1>2. at[p] # Closed
  BY ProgramFacts DEF Closed
<1>3. Extends(View(p), View(p))
  BY Itself
<1>4. fs \ {"fts_au"} \subseteq View(p).objs
  BY <1>2, <1>3, FoundKept
<1>5. writer' \in {writer, p, NoProc}
  BY <1>1
<1>6. QED
  BY <1>1, <1>3, <1>4, <1>5, GoOnStep

LEMMA KeepsFound ==
  ASSUME PlacesOK, NEW p \in Procs, UNCHANGED <<seen, found>>
  PROVE  seen' = seen /\ found' = [found EXCEPT ![p] = found[p]]
BY DEF PlacesOK

LEMMA CreatesStep ==
  ASSUME Held, PlacesOK, NEW p \in Procs, Ready(p), at[p] \in DOMAIN Program,
         NEW s, s = Program[at[p]], NeedsLock(p, s) => MayWrite(p), Creates(p, s)
  PROVE  StepOK(p)
<1> DEFINE d == With(View(p), {s.obj}, {})
<1>1. DbOK(View(p)) /\ DbOK(d) /\ Extends(View(p), d)
  BY ViewHeld, DbMake, WithFields
<1>2. MayWrite(p) \/ d = View(p)
  <2>1. CASE s.obj \in View(p).objs
    BY <1>1, <2>1, WithThere
  <2>2. CASE s.obj \notin View(p).objs
    BY <2>2 DEF NeedsLock, Creates
  <2>3. QED
    BY <2>1, <2>2
<1>3. s.obj \in d.objs
  BY WithFields
<1>4. Ddl(p, d) /\ GoOn(p) /\ s.op \in {"make", "script"} /\ UNCHANGED <<seen, found>>
  BY DEF Creates
<1> HIDE DEF d
<1>5. seen' = seen /\ found' = [found EXCEPT ![p] = found[p]]
  BY <1>4, KeepsFound
<1>6. QED
  BY <1>1, <1>2, <1>3, <1>4, <1>5, MakesStep

LEMMA CommitsFirstStep ==
  ASSUME Held, PlacesOK, NEW p \in Procs, Ready(p), at[p] \in DOMAIN Program,
         NEW s, s = Program[at[p]], CommitsFirst(p, s)
  PROVE  StepOK(p)
<1>1. Commit(p) /\ UNCHANGED <<at, seen, found>>
  BY DEF CommitsFirst
<1>2. Held' /\ OthersSeeMore(p) /\ View(p)' = View(p) /\ writer' \in {writer, NoProc} \ {p}
  BY <1>1, CommitEffect
<1>3. PlacesOK'
  BY <1>1 DEF PlacesOK
<1>4. ProcOK(at'[p], seen'[p], found'[p], View(p)')
  BY <1>1, <1>2 DEF Ready
<1>5. QED
  BY <1>1, <1>2, <1>3, <1>4 DEF StepOK

LEMMA LooksStep ==
  ASSUME Held, PlacesOK, NEW p \in Procs, Ready(p), at[p] \in DOMAIN Program,
         NEW s, s = Program[at[p]], Looks(p, s)
  PROVE  StepOK(p)
<1> DEFINE fs == View(p).objs \cap ObjectsOf[s.ver]
<1>1. /\ s.op = "look" /\ found' = [found EXCEPT ![p] = fs] /\ GoOn(p)
      /\ UNCHANGED <<disk, writer, pend>> /\ seen' = seen
  BY DEF Looks
<1>2. fs \subseteq View(p).objs
  OBVIOUS
<1>3. s.op \notin Makers /\ s.op \notin {"commit", "index", "record"}
  BY <1>1 DEF Makers
<1> HIDE DEF fs
<1>4. QED
  BY <1>1, <1>2, <1>3, PassesStep

LEMMA AltersStep ==
  ASSUME Held, PlacesOK, NEW p \in Procs, Ready(p), at[p] \in DOMAIN Program,
         NEW s, s = Program[at[p]], NeedsLock(p, s) => MayWrite(p), Alters(p, s)
  PROVE  StepOK(p)
<1> DEFINE d == With(View(p), {s.obj}, {})
           there == s.obj \in View(p).objs
           skipped == (s.op = "add" /\ s.obj \in found[p]) \/ (s.op = "try" /\ there)
<1>0. s.op \in {"add", "bare", "try"} /\ s.op \notin {"commit", "index", "record"}
      /\ (s.op = "add" => s.obj # "fts_au")
  BY ProgramFacts DEF Alters, Fit
<1>1. DbOK(View(p)) /\ DbOK(d) /\ Extends(View(p), d) /\ s.obj \in d.objs
  BY ViewHeld, DbMake, WithFields
<1>2. CASE skipped /\ GoOn(p) /\ UNCHANGED <<disk, writer, pend, seen, found>>
  <2>1. s.op \in Makers \ {"try"} => s.obj \in View(p).objs
    <3>1. at[p] # Closed
      BY ProgramFacts DEF Closed
    <3>2. found[p] \ {"fts_au"} \subseteq View(p).objs
      BY <3>1, Itself, FoundKept
    <3>3. QED
      BY <1>0, <1>2, <3>2
  <2>2. seen' = seen /\ found' = [found EXCEPT ![p] = found[p]]
    BY <1>2, KeepsFound
  <2>3. UNCHANGED <<disk, writer, pend>> /\ GoOn(p)
    BY <1>2
  <2>4. s.op # "commit" /\ s.op # "index" /\ s.op # "record"
    BY <1>0
  <2> HIDE DEF d, there, skipped
  <2>5. QED
    BY <2>1, <2>2, <2>3, <2>4, PassesStep
<1>3. CASE ~skipped /\ there /\ Raise(p)
  BY <1>3, RaiseStep
<1>4. CASE ~there /\ ~skipped /\ Ddl(p, d) /\ GoOn(p) /\ UNCHANGED <<seen, found>>
  <2>1. MayWrite(p)
    <3>1. s.op = "add" => s.obj \notin found[p]
      BY <1>4
    <3>2. NeedsLock(p, s)
      BY <1>0, <1>4, <3>1 DEF NeedsLock
    <3>3. QED
      BY <3>2
  <2>2. seen' = seen /\ found' = [found EXCEPT ![p] = found[p]]
    BY <1>4, KeepsFound
  <2>3. s.op # "commit" /\ s.op # "index" /\ s.op # "record"
    BY <1>0
  <2>4. Ddl(p, d) /\ GoOn(p)
    BY <1>4
  <2> HIDE DEF d, there, skipped
  <2>5. QED
    BY <1>1, <2>1, <2>2, <2>3, <2>4, MakesStep
<1>5. QED
  BY <1>2, <1>3, <1>4 DEF Alters

LEMMA IndexesStep ==
  ASSUME Held, PlacesOK, NEW p \in Procs, Ready(p), at[p] \in DOMAIN Program,
         NEW s, s = Program[at[p]], NeedsLock(p, s) => MayWrite(p), Indexes(p, s)
  PROVE  StepOK(p)
<1> DEFINE d == With(View(p), {s.obj}, {})
<1>0. s.op = "index"
  BY DEF Indexes
<1>1. DbOK(View(p)) /\ DbOK(d) /\ Extends(View(p), d) /\ s.obj \in d.objs
  BY ViewHeld, DbMake, WithFields
<1>2. CASE Raise(p)
  BY <1>2, RaiseStep
<1>3. CASE TriedIn[s.ver] \subseteq View(p).objs /\ Ddl(p, d) /\ GoOn(p) /\ UNCHANGED <<seen, found>>
  <2>1. MayWrite(p) \/ d = View(p)
    <3>1. CASE s.obj \in View(p).objs
      BY <1>1, <3>1, WithThere
    <3>2. CASE s.obj \notin View(p).objs
      BY <1>0, <3>2 DEF NeedsLock
    <3>3. QED
      BY <3>1, <3>2
  <2>2. TriedIn[Ver(at[p])] \subseteq d.objs
    BY <1>3, WithFields DEF Ver
  <2>3. seen' = seen /\ found' = [found EXCEPT ![p] = found[p]]
    BY <1>3, KeepsFound
  <2>4. Ddl(p, d) /\ GoOn(p)
    BY <1>3
  <2>5. Program[at[p]].op # "commit" /\ Program[at[p]].op # "record"
    BY <1>0
  <2> HIDE DEF d
  <2>6. QED
    BY <1>1, <2>1, <2>2, <2>3, <2>4, <2>5, MakesStep
<1>4. QED
  BY <1>2, <1>3 DEF Indexes

LEMMA WritesStep ==
  ASSUME Held, PlacesOK, NEW p \in Procs, Ready(p), at[p] \in DOMAIN Program,
         NEW s, s = Program[at[p]], NeedsLock(p, s) => MayWrite(p), Writes(p, s)
  PROVE  StepOK(p)
<1> DEFINE d == CASE s.op = "rows"      -> With(View(p), {s.obj}, {})
                  [] s.op = "record"    -> With(View(p), {}, {s.ver})
                  [] s.op = "recordFts" -> With(View(p), {}, {17, 19})
<1>1. /\ s.op \in {"rows", "record", "recordFts"} /\ Dml(p, d) /\ GoOn(p)
      /\ found' = [found EXCEPT ![p] = {}] /\ seen' = seen
  BY DEF Writes
<1>2. MayWrite(p)
  BY <1>1 DEF NeedsLock
<1>3. DbOK(View(p)) /\ s.ver = Ver(at[p])
  BY ViewHeld DEF Ver
<1>4. /\ DbOK(d) /\ Extends(View(p), d)
      /\ s.op = "rows" => s.obj \in d.objs
      /\ s.op = "record" => Ver(at[p]) \in d.recs
  <2>1. CASE s.op = "rows"
    <3>1. d = With(View(p), {s.obj}, {})
      BY <2>1
    <3> HIDE DEF d
    <3>2. DbOK(d) /\ Extends(View(p), d) /\ s.obj \in d.objs
      BY <1>3, <3>1, DbMake, WithFields
    <3>3. QED
      BY <2>1, <3>2
  <2>2. CASE s.op = "record"
    <3>1. d = With(View(p), {}, {Ver(at[p])})
      BY <1>3, <2>2
    <3> HIDE DEF d
    <3>2. DbOK(d)
      BY <1>3, <2>2, <3>1, DbRecord DEF Ready
    <3>3. Extends(View(p), d) /\ Ver(at[p]) \in d.recs
      BY <3>1, WithFields
    <3>4. QED
      BY <2>2, <3>2, <3>3
  <2>3. CASE s.op = "recordFts"
    <3>1. d = With(View(p), {}, {17, 19})
      BY <2>3
    <3> HIDE DEF d
    <3>2. DbOK(d)
      BY <1>3, <2>3, <3>1, DbRecordFts DEF Ready
    <3>3. Extends(View(p), d)
      BY <3>1, WithFields
    <3>4. QED
      BY <2>3, <3>2, <3>3
  <2>4. QED
    BY <1>1, <2>1, <2>2, <2>3
<1> HIDE DEF d
<1>5. s.op \in Makers => s.op = "rows"
  BY <1>1 DEF Makers
<1>6. Program[at[p]].op # "commit" /\ Program[at[p]].op # "index"
  BY <1>1
<1>7. QED
  BY <1>1, <1>2, <1>4, <1>5, <1>6, MakesStep

LEMMA FtsStep ==
  ASSUME Held, PlacesOK, NEW p \in Procs, Ready(p), at[p] \in DOMAIN Program,
         NEW s, s = Program[at[p]], NeedsLock(p, s) => MayWrite(p), Fts(p, s)
  PROVE  StepOK(p)
<1> DEFINE d == With(View(p), {s.obj}, {})
<1>0. s.op \in {"fts", "heal"} /\ UNCHANGED <<seen, found>>
  BY DEF Fts
<1>1. Ver(at[p]) \in {17, 19, Heal}
  BY <1>0, ProgramFacts DEF Fit, Ver
<1>2. DbOK(View(p)) /\ DbOK(d) /\ Extends(View(p), d) /\ s.obj \in d.objs
  BY ViewHeld, DbMake, WithFields
<1>3. CASE Skip(p)
  BY <1>0, <1>1, <1>3, SkipStep
<1>4. CASE p \in WithFts5 /\ Ddl(p, d) /\ GoOn(p)
  <2>1. MayWrite(p) \/ d = View(p)
    <3>1. CASE s.obj \in View(p).objs
      BY <1>2, <3>1, WithThere
    <3>2. CASE s.obj \notin View(p).objs
      BY <1>0, <1>4, <3>2 DEF NeedsLock
    <3>3. QED
      BY <3>1, <3>2
  <2>2. seen' = seen /\ found' = [found EXCEPT ![p] = found[p]]
    BY <1>0, KeepsFound
  <2>3. Program[at[p]].op # "commit" /\ Program[at[p]].op # "record" /\ Program[at[p]].op # "index"
    BY <1>0
  <2> HIDE DEF d
  <2>4. QED
    BY <1>2, <1>4, <2>1, <2>2, <2>3, MakesStep
<1>5. QED
  BY <1>3, <1>4 DEF Fts

LEMMA RefitsStep ==
  ASSUME Held, PlacesOK, NEW p \in Procs, Ready(p), at[p] \in DOMAIN Program,
         NEW s, s = Program[at[p]], NeedsLock(p, s) => MayWrite(p), Refits(p, s)
  PROVE  StepOK(p)
<1> DEFINE d == IF s.op = "drop" THEN [View(p) EXCEPT !.objs = @ \ {s.obj}]
                                 ELSE With(View(p), {s.obj}, {})
<1>0. s.op \in {"drop", "create"}
  BY DEF Refits
<1>1. Ver(at[p]) = 19 /\ s.obj = "fts_au"
  BY <1>0, ProgramFacts DEF Fit, Ver
<1>2. DbOK(View(p))
  BY ViewHeld
<1>3. DbOK(d) /\ Extends(View(p), d)
  <2>1. CASE s.op = "drop"
    BY <1>1, <1>2, <2>1, DbDrop
  <2>2. CASE s.op # "drop"
    BY <1>2, <2>2, DbMake, WithFields
  <2>3. QED
    BY <2>1, <2>2
<1>4. CASE Skip(p) /\ UNCHANGED <<seen, found>>
  BY <1>1, <1>4, SkipStep
<1>5. CASE Raise(p)
  BY <1>5, RaiseStep
<1>6. CASE Ddl(p, d) /\ GoOn(p) /\ UNCHANGED <<seen, found>>
  <2>1. MayWrite(p)
    BY <1>0 DEF NeedsLock
  <2>2. seen' = seen /\ found' = [found EXCEPT ![p] = found[p]]
    BY <1>6, KeepsFound
  <2>3. Program[at[p]].op # "commit" /\ Program[at[p]].op # "record" /\ Program[at[p]].op # "index"
    BY <1>0
  <2>4. Program[at[p]].obj \in d.objs \cup {"fts_au"}
    BY <1>1
  <2>5. Ddl(p, d) /\ GoOn(p)
    BY <1>6
  <2> HIDE DEF d
  <2>6. QED
    BY <1>3, <2>1, <2>2, <2>3, <2>4, <2>5, MakesStep
<1>7. QED
  <2>1. (Skip(p) /\ UNCHANGED <<seen, found>>) \/ Raise(p)
        \/ (Ddl(p, d) /\ GoOn(p) /\ UNCHANGED <<seen, found>>)
    BY DEF Refits
  <2>2. QED
    BY <1>4, <1>5, <1>6, <2>1

LEMMA EndsStep ==
  ASSUME Held, PlacesOK, NEW p \in Procs, Ready(p), at[p] \in DOMAIN Program,
         NEW s, s = Program[at[p]], Ends(p, s)
  PROVE  StepOK(p)
<1>1. s.op = "commit" /\ Commit(p) /\ GoOn(p) /\ UNCHANGED <<seen, found>>
  BY DEF Ends
<1>2. Held' /\ OthersSeeMore(p) /\ View(p)' = View(p) /\ writer' \in {writer, NoProc} \ {p}
  BY <1>1, CommitEffect
<1>3. seen' = seen /\ found' = [found EXCEPT ![p] = found[p]]
  BY <1>1, KeepsFound
<1>4. at[p] # Closed
  BY ProgramFacts DEF Closed
<1>5. Extends(View(p), View(p)) /\ found[p] \ {"fts_au"} \subseteq View(p).objs
  BY <1>4, Itself, FoundKept
<1>6. /\ s.op \notin Makers /\ s.op # "index" /\ s.op # "record"
      /\ writer' \in {writer, p, NoProc} /\ writer' # p
  BY <1>1, <1>2 DEF Makers
<1>7. QED
  BY <1>1, <1>2, <1>3, <1>5, <1>6, GoOnStep

LEMMA ExecuteStep ==
  ASSUME Held, PlacesOK, NEW p \in Procs, Ready(p), Execute(p)
  PROVE  StepOK(p) /\ at[p] \in DOMAIN Program
<1>1. at[p] \in DOMAIN Program
  BY DEF Execute
<1>2. PICK s : s = Program[at[p]]
  OBVIOUS
<1>3. NeedsLock(p, s) => MayWrite(p)
  BY <1>2 DEF Execute
<1>4. \/ Creates(p, s) \/ CommitsFirst(p, s) \/ Looks(p, s) \/ Alters(p, s)
      \/ Indexes(p, s) \/ Writes(p, s) \/ Fts(p, s) \/ Refits(p, s) \/ Ends(p, s)
  BY <1>2 DEF Execute
<1>5. QED
  BY <1>1, <1>2, <1>3, <1>4, CreatesStep, CommitsFirstStep, LooksStep, AltersStep,
     IndexesStep, WritesStep, FtsStep, RefitsStep, EndsStep

LEMMA TimeOutStep ==
  ASSUME Held, PlacesOK, NEW p \in Procs, Ready(p), TimeOut(p)
  PROVE  StepOK(p) /\ at[p] \in DOMAIN Program
<1>1. at[p] \in DOMAIN Program
  BY DEF TimeOut
<1>2. PICK s : s = Program[at[p]]
  OBVIOUS
<1>3. \/ s.op = "try" /\ GoOn(p) /\ UNCHANGED <<disk, writer, pend, seen, found>>
      \/ s.ver \in {17, Heal} /\ Skip(p) /\ UNCHANGED <<seen, found>>
      \/ Raise(p)
  BY <1>2 DEF TimeOut
<1>4. CASE s.op = "try" /\ GoOn(p) /\ UNCHANGED <<disk, writer, pend, seen, found>>
  <2>1. seen' = seen /\ found' = [found EXCEPT ![p] = found[p]]
    BY <1>4, KeepsFound
  <2>2. UNCHANGED <<disk, writer, pend>>
    BY <1>4
  <2>3. s.op # "commit" /\ s.op # "index" /\ s.op # "record" /\ s.op \notin Makers \ {"try"}
    BY <1>4
  <2>4. QED
    BY <1>1, <1>2, <1>4, <2>1, <2>2, <2>3, PassesStep
<1>5. CASE s.ver \in {17, Heal} /\ Skip(p) /\ UNCHANGED <<seen, found>>
  <2>1. Ver(at[p]) \in {17, 19, Heal}
    BY <1>2, <1>5 DEF Ver
  <2>2. QED
    BY <1>1, <1>5, <2>1, SkipStep
<1>6. CASE Raise(p)
  BY <1>1, <1>6, RaiseStep
<1>7. QED
  BY <1>3, <1>4, <1>5, <1>6

LEMMA ConnectStep ==
  ASSUME Held, PlacesOK, NEW p \in Procs, Ready(p), Connect(p), writer # p
  PROVE  StepOK(p) /\ UNCHANGED <<disk, writer, pend>> /\ seen'[p] = MaxVersion(disk)
<1>1. /\ at[p] = Closed /\ seen' = [seen EXCEPT ![p] = MaxVersion(disk)]
      /\ at' = [at EXCEPT ![p] = 1] /\ UNCHANGED <<disk, writer, pend>> /\ found' = found
  BY DEF Connect
<1>2. Held' /\ OthersSeeMore(p) /\ writer' = writer /\ View(p)' = View(p) /\ View(p) = disk
  BY <1>1, StillEffect DEF OthersSeeMore, View
<1>3. MaxVersion(disk) \in 0 .. 46 /\ (MaxVersion(disk) = 0 \/ MaxVersion(disk) \in disk.recs)
  <2>1. disk.recs \subseteq 1 .. 46
    BY Numbers DEF Held, DbOK
  <2>2. disk.recs \cup {0} \subseteq 0 .. 46 /\ disk.recs \cup {0} # {}
    BY <2>1
  <2>3. Max(disk.recs \cup {0}) \in disk.recs \cup {0}
    BY <2>2, GreatestOf
  <2>4. QED
    BY <2>2, <2>3 DEF MaxVersion
<1>4. found[p] = {}
  BY <1>1 DEF Ready, ProcOK
<1>5. at'[p] = 1 /\ seen'[p] = MaxVersion(disk) /\ found'[p] = {}
  BY <1>1, <1>4 DEF PlacesOK
<1>6. 1 \in DOMAIN Program /\ 1 # Open /\ 1 # Closed /\ Ver(1) = 0
  <2>1. 1 \in DOMAIN Program /\ 1 # Open /\ 1 # Closed /\ 0 \in 0 .. 48
    BY ProgramFacts DEF Open, Closed
  <2>2. PICK z \in DOMAIN Program : Ver(z) = 0
    BY <2>1, FirstFacts
  <2>3. QED
    BY <2>1, <2>2, ProgramFacts
<1>7. ASSUME NEW u \in Firm, u <= MaxVersion(disk)
      PROVE  u \in disk.recs
  <2>1. u \in 1 .. 46
    BY Numbers DEF Firm
  <2>2. MaxVersion(disk) \in disk.recs
    BY <1>3, <1>7, <2>1
  <2>3. u < MaxVersion(disk) => u \in disk.recs
    BY <2>2 DEF Held, DbOK
  <2>4. u = MaxVersion(disk) \/ u < MaxVersion(disk)
    BY <1>3, <1>7, <2>1
  <2>5. QED
    BY <2>2, <2>3, <2>4
<1>8. ProcOK(1, MaxVersion(disk), {}, disk)
  <2>1. \A u \in Versions : ~(u < Ver(1))
    BY <1>6, Numbers
  <2>2. \A j \in DOMAIN Program : ~(j < 1)
    BY ProgramFacts
  <2>3. QED
    BY <1>6, <1>7, <2>1, <2>2 DEF ProcOK
<1>9. \A q \in Procs \ {p} : at'[q] = at[q] /\ seen'[q] = seen[q] /\ found'[q] = found[q]
  BY <1>1 DEF PlacesOK
<1>10. PlacesOK'
  <2>1. 1 \in Closed .. Open
    BY ProgramFacts DEF Open, Closed
  <2>2. at' \in [Procs -> Closed .. Open] /\ seen' \in [Procs -> 0 .. 46]
    BY <1>1, <1>3, <2>1 DEF PlacesOK
  <2>3. found' = [q \in Procs |-> found'[q]]
    BY <1>1 DEF PlacesOK
  <2>4. QED
    BY <2>2, <2>3 DEF PlacesOK
<1>11. ProcOK(at'[p], seen'[p], found'[p], View(p)')
  BY <1>2, <1>5, <1>8
<1>12. StepOK(p)
  BY <1>2, <1>9, <1>10, <1>11 DEF StepOK
<1>13. QED
  BY <1>1, <1>5, <1>12

LEMMA CloseStep ==
  ASSUME Held, PlacesOK, NEW p \in Procs, Close(p), writer # p
  PROVE  StepOK(p) /\ UNCHANGED <<disk, writer, pend>> /\ at[p] = Open
<1>1. /\ at[p] = Open /\ seen' = [seen EXCEPT ![p] = 0] /\ found' = [found EXCEPT ![p] = {}]
      /\ at' = [at EXCEPT ![p] = Closed] /\ UNCHANGED <<disk, writer, pend>>
  BY DEF Close
<1>2. Held' /\ OthersSeeMore(p) /\ writer' = writer
  BY <1>1, StillEffect DEF OthersSeeMore
<1>3. at'[p] = Closed /\ seen'[p] = 0 /\ found'[p] = {}
  BY <1>1 DEF PlacesOK
<1>4. \A q \in Procs \ {p} : at'[q] = at[q] /\ seen'[q] = seen[q] /\ found'[q] = found[q]
  BY <1>1 DEF PlacesOK
<1>5. PlacesOK'
  <2>1. Closed \in Closed .. Open /\ 0 \in 0 .. 46
    BY ProgramFacts DEF Open, Closed
  <2>2. at' \in [Procs -> Closed .. Open] /\ seen' \in [Procs -> 0 .. 46]
    BY <1>1, <2>1 DEF PlacesOK
  <2>3. found' = [q \in Procs |-> found'[q]]
    BY <1>1 DEF PlacesOK
  <2>4. QED
    BY <2>2, <2>3 DEF PlacesOK
<1>6. Closed \notin DOMAIN Program
  BY ProgramFacts DEF Closed
<1>7. ProcOK(at'[p], seen'[p], found'[p], View(p)')
  BY <1>3, <1>6 DEF ProcOK
<1>8. QED
  BY <1>1, <1>2, <1>4, <1>5, <1>7 DEF StepOK

-----------------------------------------------------------------------------
(* The inductive invariant.                                                *)

Locked == writer # NoProc => at[writer] \in DOMAIN Program

Schema == Held /\ PlacesOK /\ Locked /\ \A p \in Procs : Ready(p)

IInv ==
  /\ LocalTypeOK
  /\ DbOK(disk)
  /\ writer # NoProc => DbOK(pend)
  /\ FileOK(main)
  /\ HasCopy => FileOK(copy)
  /\ ~damaged => Schema

LEMMA StepKeeps ==
  ASSUME Schema, NEW p \in Procs, StepOK(p)
  PROVE  Schema'
<1>1. Held' /\ PlacesOK' /\ OthersSeeMore(p)
  BY DEF StepOK
<1>2. \A q \in Procs \ {p} : at'[q] = at[q] /\ seen'[q] = seen[q] /\ found'[q] = found[q]
  BY DEF StepOK
<1>3. ASSUME NEW q \in Procs
      PROVE  ProcOK(at'[q], seen'[q], found'[q], View(q)')
  <2>1. CASE q = p
    BY <2>1 DEF StepOK
  <2>2. CASE q # p
    <3>1. Extends(View(q), View(q)')
      BY <1>1, <2>2 DEF OthersSeeMore
    <3>2. ProcOK(at[q], seen[q], found[q], View(q))
      BY DEF Schema, Ready
    <3>3. ProcOK(at[q], seen[q], found[q], View(q)')
      BY <3>1, <3>2, ViewMono
    <3>4. QED
      BY <1>2, <2>2, <3>3
  <2>3. QED
    BY <2>1, <2>2
<1>4. \A q \in Procs : Ready(q)'
  BY <1>3 DEF Ready
<1>5. Locked'
  <2>1. ASSUME writer' # NoProc
        PROVE  at'[writer'] \in DOMAIN Program
    <3>1. writer' = p => at'[writer'] \in DOMAIN Program
      BY DEF StepOK
    <3>2. writer' # p => writer' = writer /\ writer \in Procs \ {p}
      BY <2>1 DEF StepOK, Schema, Held
    <3>3. writer' # p => at'[writer'] = at[writer] /\ writer # NoProc
      BY <1>2, <2>1, <3>2
    <3>4. writer' # p => at[writer] \in DOMAIN Program
      BY <3>3 DEF Schema, Locked
    <3>5. QED
      BY <3>1, <3>3, <3>4
  <2>2. QED
    BY <2>1 DEF Locked
<1>6. QED
  BY <1>1, <1>4, <1>5 DEF Schema

\* What the invariant says without the files, whoever is connected.
LEMMA SchemaTyped ==
  ASSUME Schema, mishaps \in 0 .. MaxMishaps
  PROVE  TypeOK /\ DbOK(disk) /\ (writer # NoProc => DbOK(pend))
<1>1. disk.recs \subseteq 1 .. 46
  BY Numbers DEF Schema, Held, DbOK
<1>2. IF writer = NoProc THEN pend = Nothing ELSE at[writer] \in DOMAIN Program
  BY DEF Schema, Held, Locked
<1>3. QED
  BY <1>1, <1>2, Numbers DEF Schema, Held, PlacesOK, TypeOK

LEMMA SchemaTypedNext ==
  ASSUME Schema', mishaps' \in 0 .. MaxMishaps
  PROVE  TypeOK' /\ DbOK(disk') /\ (writer' # NoProc => DbOK(pend'))
<1>1. disk'.recs \subseteq 1 .. 46
  BY Numbers DEF Schema, Held, DbOK
<1>2. IF writer' = NoProc THEN pend' = Nothing ELSE at'[writer'] \in DOMAIN Program
  BY DEF Schema, Held, Locked
<1>3. QED
  BY <1>1, <1>2, Numbers DEF Schema, Held, PlacesOK, TypeOK

LEMMA OpenIsNotWriting ==
  ASSUME Schema, NEW p \in Procs, at[p] \in {Closed, Open}
  PROVE  writer # p
<1>1. Closed \notin DOMAIN Program /\ Open \notin DOMAIN Program
  BY ProgramFacts DEF Closed, Open
<1>2. QED
  BY <1>1, SchemaStoreAssumption DEF Schema, Locked

\* The database a process may find.
LEMMA FoundDatabase ==
  ASSUME NEW s \in 0 .. 46, NEW w \in {{}, {17, 19}, {41}}
  PROVE  DbOK(DatabaseOf(s, w))
<1> DEFINE d == DatabaseOf(s, w)
<1>1. d.recs = (1 .. s) \ w /\ d = [objs |-> d.objs, recs |-> d.recs]
      /\ d.objs = UNION {ObjectsOf[v] : v \in (IF s = 0 THEN {} ELSE 0 .. s) \ w}
  BY DEF DatabaseOf
<1> HIDE DEF d
<1>2. d.recs \subseteq 1 .. 46
  BY <1>1
<1>3. ASSUME NEW v \in d.recs
      PROVE  ObjectsOf[v] \subseteq d.objs
  <2>1. v \in (IF s = 0 THEN {} ELSE 0 .. s) \ w
    BY <1>1
  <2>2. QED
    BY <1>1, <2>1
<1>4. ASSUME NEW v \in d.recs, NEW u \in Firm, u < v
      PROVE  u \in d.recs
  <2>1. u \in 1 .. 46 /\ u \notin {17, 19, 41} /\ v \in 1 .. s
    BY <1>1, Numbers DEF Firm
  <2>2. u \in 1 .. s
    BY <1>4, <2>1
  <2>3. u \notin w
    BY <2>1
  <2>4. QED
    BY <1>1, <2>2, <2>3
<1>5. DbOK(d)
  BY <1>1, <1>2, <1>3, <1>4, Numbers DEF DbOK
<1>6. QED
  BY <1>5 DEF d

LEMMA InitInv == LocalInit => IInv
<1> SUFFICES ASSUME LocalInit PROVE IInv
  OBVIOUS
<1>1. PICK c \in Cases, w \in {{}, {17, 19}, {41}} :
        /\ InitAt(c[1], w)
        /\ copy = IF c[2] = NoCopy THEN NoCopy ELSE [db |-> DatabaseOf(c[2], {}), rows |-> {}]
  BY DEF LocalInit
<1>2. c[1] \in 0 .. 46 /\ (c[2] # NoCopy => c[2] \in 0 .. 46)
  BY SchemaStoreAssumption, LocalDataAssumption, Numbers
<1>3. /\ disk = DatabaseOf(c[1], w) /\ writer = NoProc /\ pend = Nothing
      /\ at = [p \in Procs |-> Closed] /\ seen = [p \in Procs |-> 0]
      /\ found = [p \in Procs |-> {}] /\ mishaps = 0
  BY <1>1 DEF InitAt
<1>4. DbOK(disk)
  BY <1>2, <1>3, FoundDatabase
<1>5. Held /\ Locked
  BY <1>3, <1>4 DEF Held, Locked
<1>6. PlacesOK
  <2>1. Closed \in Closed .. Open /\ 0 \in 0 .. 46
    BY ProgramFacts DEF Closed, Open
  <2>2. QED
    BY <1>3, <2>1 DEF PlacesOK
<1>7. ASSUME NEW p \in Procs
      PROVE  Ready(p)
  <2>1. Closed \notin DOMAIN Program
    BY ProgramFacts DEF Closed
  <2>2. at[p] = Closed /\ found[p] = {}
    BY <1>3
  <2>3. QED
    BY <2>1, <2>2 DEF Ready, ProcOK
<1>8. Schema
  BY <1>5, <1>6, <1>7 DEF Schema
<1>9. /\ main = Content /\ rows = {} /\ lost = {} /\ wal = "none"
      /\ stage = [p \in Procs |-> "none"]
  BY DEF LocalInit
<1>10. FileOK(main)
  BY <1>4, <1>9 DEF FileOK, Content
<1>11. HasCopy => FileOK(copy)
  <2>1. ASSUME HasCopy
        PROVE  copy = [db |-> DatabaseOf(c[2], {}), rows |-> {}] /\ c[2] # NoCopy
    BY <1>1, <1>9, <2>1 DEF HasCopy
  <2>2. c[2] # NoCopy => DbOK(DatabaseOf(c[2], {}))
    BY <1>2, FoundDatabase
  <2>3. QED
    BY <2>1, <2>2 DEF FileOK
<1>12. mishaps \in 0 .. MaxMishaps
  BY <1>3, SchemaStoreAssumption
<1>13. LocalTypeOK
  BY <1>8, <1>9, <1>12, SchemaTyped DEF LocalTypeOK
<1>14. QED
  BY <1>4, <1>5, <1>8, <1>10, <1>11, <1>13 DEF IInv, Held

\* The files when the database stays what it is.
LEMMA FilesKept ==
  ASSUME IInv, Schema, Schema', mishaps' \in 0 .. MaxMishaps,
         UNCHANGED <<disk, rows, main, wal, copy, lost>>,
         stage' \in [Procs -> {"none", "overwrite", "unlink", "verify"}],
         \A p \in Procs : stage'[p] = "overwrite" => stage[p] = "overwrite" \/ copy # NoCopy
  PROVE  IInv' \/ damaged
<1> SUFFICES ASSUME ~damaged PROVE IInv'
  OBVIOUS
<1>1. TypeOK' /\ DbOK(disk') /\ (writer' # NoProc => DbOK(pend'))
  BY SchemaTypedNext
<1>2. LocalTypeOK'
  BY <1>1 DEF IInv, LocalTypeOK, Content
<1>3. FileOK(main')
  BY DEF IInv
<1>4. HasCopy' => HasCopy
  BY DEF HasCopy
<1>5. HasCopy' => FileOK(copy')
  BY <1>4 DEF IInv
<1>6. QED
  BY <1>1, <1>2, <1>3, <1>5 DEF IInv

LEMMA OpensInv ==
  ASSUME IInv, ~damaged, NEW p \in Procs, Opens(p)
  PROVE  IInv'
<1>1. Schema /\ Connect(p) /\ at[p] = Closed
  BY DEF IInv, Opens, Connect
<1>2. writer # p
  BY <1>1, OpenIsNotWriting
<1>3. StepOK(p) /\ UNCHANGED <<disk, writer, pend>>
  BY <1>1, <1>2, ConnectStep DEF Schema
<1>4. Schema'
  BY <1>1, <1>3, StepKeeps
<1>5. mishaps' \in 0 .. MaxMishaps /\ UNCHANGED <<disk, rows, main, wal, copy, lost, stage>>
  BY <1>1, <1>3 DEF IInv, LocalTypeOK, TypeOK, Opens, Connect
<1>6. stage \in [Procs -> {"none", "overwrite", "unlink", "verify"}]
  BY DEF IInv, LocalTypeOK
<1>7. QED
  BY <1>1, <1>4, <1>5, <1>6, FilesKept

\* Commits go to the log, or to the main file when the last one leaves.
LEMMA CheckpointsInv ==
  ASSUME IInv, ~damaged, Schema', mishaps' \in 0 .. MaxMishaps, Checkpoints,
         UNCHANGED <<rows, copy, lost, damaged>>, NEW p \in Procs,
         NEW x \in {"none", stage[p]}, stage' = [stage EXCEPT ![p] = x]
  PROVE  IInv'
<1>0. stage \in [Procs -> {"none", "overwrite", "unlink", "verify"}] /\ rows \subseteq Procs
      /\ lost \subseteq Procs /\ wal \in {"none", "own", "foreign"}
      /\ (wal = "none" => main = Content)
  BY DEF IInv, LocalTypeOK
<1>1. TypeOK' /\ DbOK(disk') /\ (writer' # NoProc => DbOK(pend'))
  BY SchemaTypedNext
<1>2. stage' \in [Procs -> {"none", "overwrite", "unlink", "verify"}]
  BY <1>0
<1>3. wal' \in {"none", "own", "foreign"}
  BY <1>0 DEF Checkpoints
<1>4. wal' = "none" => main' = Content'
  <2>1. CASE \A q \in Procs : at'[q] = Closed
    BY <2>1 DEF Checkpoints
  <2>2. CASE ~(\A q \in Procs : at'[q] = Closed)
    <3>1. wal' = (IF Content' # Content THEN "own" ELSE wal) /\ main' = main
      BY <2>2 DEF Checkpoints
    <3>2. QED
      BY <1>0, <3>1
  <2>3. QED
    BY <2>1, <2>2
<1>5. FileOK(main')
  <2>1. CASE main' = Content'
    <3>1. rows' \subseteq Procs /\ Content' = [db |-> disk', rows |-> rows']
      BY <1>0 DEF Content
    <3>2. QED
      BY <1>1, <2>1, <3>1 DEF FileOK
  <2>2. CASE main' = main
    BY <2>2 DEF IInv
  <2>3. QED
    BY <2>1, <2>2 DEF Checkpoints
<1>6. HasCopy' => HasCopy
  <2>1. \A q \in Procs : stage'[q] = "overwrite" => stage[q] = "overwrite"
    BY <1>0
  <2>2. QED
    BY <2>1 DEF HasCopy
<1>7. HasCopy' => FileOK(copy')
  BY <1>6 DEF IInv
<1>8. LocalTypeOK'
  BY <1>0, <1>1, <1>2, <1>3, <1>4 DEF LocalTypeOK
<1>9. QED
  BY <1>1, <1>5, <1>7, <1>8 DEF IInv

LEMMA RunsInv ==
  ASSUME IInv, ~damaged, NEW p \in Procs, Runs(p)
  PROVE  IInv'
<1>1. Schema /\ mishaps \in 0 .. MaxMishaps
  BY DEF IInv, LocalTypeOK, TypeOK
<1>2. StepOK(p)
  BY <1>1, ExecuteStep, TimeOutStep DEF Runs, Schema
<1>3. Schema'
  BY <1>1, <1>2, StepKeeps
<1>4. mishaps' \in 0 .. MaxMishaps
  <2>1. CASE mishaps' = mishaps
    BY <1>1, <2>1
  <2>2. CASE mishaps < MaxMishaps /\ mishaps' = mishaps + 1
    BY <1>1, <2>2, SchemaStoreAssumption
  <2>3. QED
    BY <2>1, <2>2 DEF Runs, Execute, TimeOut
<1>5. QED
  <2>1. /\ Checkpoints /\ UNCHANGED <<rows, copy, lost, damaged>>
        /\ stage' = [stage EXCEPT ![p] = IF at'[p] = Closed THEN "none" ELSE stage[p]]
    BY DEF Runs
  <2>2. QED
    BY <1>3, <1>4, <2>1, CheckpointsInv

LEMMA LeavesInv ==
  ASSUME IInv, ~damaged, NEW p \in Procs, Leaves(p)
  PROVE  IInv'
<1>1. Schema /\ mishaps \in 0 .. MaxMishaps
  BY DEF IInv, LocalTypeOK, TypeOK
<1>2. Close(p) /\ at[p] = Open
  BY DEF Leaves, Close
<1>3. writer # p
  BY <1>1, <1>2, OpenIsNotWriting
<1>4. StepOK(p)
  BY <1>1, <1>2, <1>3, CloseStep DEF Schema
<1>5. Schema'
  BY <1>1, <1>4, StepKeeps
<1>6. mishaps' \in 0 .. MaxMishaps
  BY <1>1, <1>2 DEF Close
<1>7. QED
  <2>1. /\ Checkpoints /\ UNCHANGED <<rows, copy, lost, damaged>>
        /\ stage' = [stage EXCEPT ![p] = "none"]
    BY DEF Leaves
  <2>2. QED
    BY <1>5, <1>6, <2>1, CheckpointsInv

LEMMA DiesInv ==
  ASSUME IInv, ~damaged, NEW p \in Procs, Dies(p)
  PROVE  IInv'
<1>1. Schema /\ mishaps \in 0 .. MaxMishaps
      /\ stage \in [Procs -> {"none", "overwrite", "unlink", "verify"}]
  BY DEF IInv, LocalTypeOK, TypeOK
<1>2. Raise(p)
  BY DEF Dies
<1>3. StepOK(p) /\ disk' = disk
  BY <1>1, <1>2, RaiseStep, RaiseEffect DEF Schema
<1>4. Schema'
  BY <1>1, <1>3, StepKeeps
<1>5. mishaps' \in 0 .. MaxMishaps
  BY <1>1, SchemaStoreAssumption DEF Dies
<1>6. UNCHANGED <<disk, rows, main, wal, copy, lost>> /\ stage' = [stage EXCEPT ![p] = "none"]
  BY <1>3 DEF Dies
<1>7. /\ stage' \in [Procs -> {"none", "overwrite", "unlink", "verify"}]
      /\ \A q \in Procs : stage'[q] = "overwrite" => stage[q] = "overwrite"
  BY <1>1, <1>6
<1>8. QED
  BY <1>1, <1>4, <1>5, <1>6, <1>7, FilesKept

\* What does not touch the schema keeps it.
LEMMA SchemaSame ==
  ASSUME Schema, UNCHANGED schemaVars
  PROVE  Schema'
<1>1. disk' = disk /\ writer' = writer /\ pend' = pend /\ at' = at /\ seen' = seen /\ found' = found
  BY DEF schemaVars
<1>2. Held' /\ \A p \in Procs : View(p)' = View(p)
  BY <1>1, StillEffect DEF Schema
<1>3. PlacesOK' /\ Locked'
  BY <1>1 DEF Schema, PlacesOK, Locked
<1>4. \A p \in Procs : Ready(p)'
  BY <1>1, <1>2 DEF Schema, Ready
<1>5. QED
  BY <1>2, <1>3, <1>4 DEF Schema

LEMMA TypeSame ==
  ASSUME TypeOK, UNCHANGED schemaVars
  PROVE  TypeOK'
BY DEF TypeOK, schemaVars

LEMMA CommitsInv ==
  ASSUME IInv, ~damaged, NEW p \in Procs, Commits(p)
  PROVE  IInv'
<1>1. Schema /\ UNCHANGED schemaVars
  BY DEF IInv, Commits
<1>2. Schema'
  BY <1>1, SchemaSame
<1>3. disk' = disk /\ writer' = writer /\ pend' = pend
  BY <1>1 DEF schemaVars
<1>4. /\ rows' = rows \cup {p} /\ wal' = "own"
      /\ UNCHANGED <<main, copy, stage, safety, lost, damaged>>
  BY DEF Commits
<1>5. LocalTypeOK'
  <2>1. TypeOK'
    BY <1>1, TypeSame DEF IInv, LocalTypeOK
  <2>2. QED
    BY <1>4, <2>1 DEF IInv, LocalTypeOK
<1>6. HasCopy' <=> HasCopy
  BY <1>4 DEF HasCopy
<1>7. QED
  BY <1>2, <1>3, <1>4, <1>5, <1>6 DEF IInv

LEMMA BackupInv ==
  ASSUME IInv, ~damaged, NEW p \in Procs, Backup(p)
  PROVE  IInv'
<1>1. Schema /\ UNCHANGED schemaVars
  BY DEF IInv, Backup
<1>2. Schema'
  BY <1>1, SchemaSame
<1>3. disk' = disk /\ writer' = writer /\ pend' = pend
  BY <1>1 DEF schemaVars
<1>4. copy' = Content /\ UNCHANGED <<rows, main, wal, stage, lost, damaged>>
  BY DEF Backup
<1>5. LocalTypeOK'
  <2>1. TypeOK'
    BY <1>1, TypeSame DEF IInv, LocalTypeOK
  <2>2. Content' = Content
    BY <1>3, <1>4 DEF Content
  <2>3. QED
    BY <1>4, <2>1, <2>2 DEF IInv, LocalTypeOK
<1>6. FileOK(copy')
  <2>1. rows \subseteq Procs /\ DbOK(disk)
    BY DEF IInv, LocalTypeOK
  <2>2. QED
    BY <1>4, <2>1 DEF FileOK, Content
<1>7. FileOK(main')
  BY <1>4 DEF IInv
<1>8. QED
  BY <1>2, <1>3, <1>4, <1>5, <1>6, <1>7 DEF IInv

LEMMA SaveInv ==
  ASSUME IInv, ~damaged, NEW p \in Procs, Save(p)
  PROVE  IInv'
<1>1. Schema /\ UNCHANGED schemaVars
  BY DEF IInv, Save
<1>2. Schema'
  BY <1>1, SchemaSame
<1>3. disk' = disk /\ mishaps' = mishaps
  BY <1>1 DEF schemaVars
<1>4. /\ copy # NoCopy /\ UNCHANGED <<rows, main, wal, copy, lost, damaged>>
      /\ stage' = [stage EXCEPT ![p] = "overwrite"]
  BY DEF Save
<1>5. stage' \in [Procs -> {"none", "overwrite", "unlink", "verify"}] /\ mishaps' \in 0 .. MaxMishaps
  BY <1>3, <1>4 DEF IInv, LocalTypeOK, TypeOK
<1>6. UNCHANGED <<disk, rows, main, wal, copy, lost>>
  BY <1>3, <1>4
<1>7. \A q \in Procs : stage'[q] = "overwrite" => stage[q] = "overwrite" \/ copy # NoCopy
  BY <1>4
<1>8. QED
  BY <1>1, <1>2, <1>5, <1>6, <1>7, FilesKept

\* Nobody is connected: nobody notices that the file is another one.
LEMMA SchemaReplaced ==
  ASSUME Schema, Attached = {}, DbOK(disk'),
         UNCHANGED <<writer, pend, at, seen, found>>
  PROVE  Schema'
<1>1. \A p \in Procs : at[p] = Closed
  BY DEF Attached
<1>2. Closed \notin DOMAIN Program
  BY ProgramFacts DEF Closed
<1>3. writer = NoProc
  BY <1>1, <1>2 DEF Schema, Held, Locked
<1>4. Held' /\ Locked' /\ PlacesOK'
  BY <1>3 DEF Schema, Held, Locked, PlacesOK
<1>5. ASSUME NEW p \in Procs
      PROVE  ProcOK(at'[p], seen'[p], found'[p], View(p)')
  <2>1. at'[p] = Closed /\ found'[p] = {}
    BY <1>1 DEF Schema, Ready, ProcOK
  <2>2. QED
    BY <1>2, <2>1 DEF ProcOK
<1>6. \A p \in Procs : Ready(p)'
  BY <1>5 DEF Ready
<1>7. QED
  BY <1>4, <1>6 DEF Schema

LEMMA OverwriteInv ==
  ASSUME IInv, ~damaged, NEW p \in Procs, Overwrite(p)
  PROVE  IInv'
<1>0. /\ Schema /\ TypeOK /\ stage \in [Procs -> {"none", "overwrite", "unlink", "verify"}]
      /\ rows \subseteq Procs /\ lost \subseteq Procs
  BY DEF IInv, LocalTypeOK
<1>1. /\ stage[p] = "overwrite" /\ main' = copy /\ disk' = copy.db /\ rows' = copy.rows
      /\ lost' = lost \cup (rows \ safety.rows) /\ damaged' = (Attached # {})
      /\ wal' = (IF wal = "none" THEN "none" ELSE "foreign")
      /\ stage' = [stage EXCEPT ![p] = "unlink"]
      /\ UNCHANGED <<writer, pend, at, seen, found, mishaps, copy>>
  BY DEF Overwrite
<1>2. FileOK(copy)
  BY <1>1 DEF IInv, HasCopy
<1>3. DbOK(disk') /\ rows' \subseteq Procs /\ main' = Content' /\ FileOK(main')
  BY <1>1, <1>2 DEF FileOK, Content
<1>4. TypeOK'
  <2>1. disk'.recs \subseteq 1 .. EXPECTED_SCHEMA_VERSION
    BY <1>3 DEF DbOK, Versions
  <2>2. QED
    BY <1>0, <1>1, <2>1 DEF TypeOK
<1>5. LocalTypeOK'
  <2>1. wal' \in {"none", "own", "foreign"} /\ lost' \subseteq Procs
    BY <1>0, <1>1
  <2>2. stage' \in [Procs -> {"none", "overwrite", "unlink", "verify"}]
    BY <1>0, <1>1
  <2>3. QED
    BY <1>3, <1>4, <2>1, <2>2 DEF LocalTypeOK
<1>6. HasCopy' => FileOK(copy')
  BY <1>1, <1>2
<1>7. ~damaged' => Schema'
  <2>1. ASSUME Attached = {}
        PROVE  Schema'
    BY <1>0, <1>1, <1>3, <2>1, SchemaReplaced
  <2>2. QED
    BY <1>1, <2>1
<1>8. writer' # NoProc => DbOK(pend')
  BY <1>1 DEF IInv
<1>9. QED
  BY <1>3, <1>5, <1>6, <1>7, <1>8 DEF IInv

LEMMA UnlinkInv ==
  ASSUME IInv, ~damaged, NEW p \in Procs, Unlink(p)
  PROVE  IInv'
<1>0. /\ Schema /\ TypeOK /\ stage \in [Procs -> {"none", "overwrite", "unlink", "verify"}]
      /\ rows \subseteq Procs /\ lost \subseteq Procs /\ FileOK(main)
  BY DEF IInv, LocalTypeOK
<1>1. /\ stage[p] = "unlink" /\ disk' = main.db /\ rows' = main.rows /\ wal' = "none"
      /\ lost' = lost \cup (rows \ main.rows) /\ damaged' = (Attached # {})
      /\ stage' = [stage EXCEPT ![p] = "verify"]
      /\ UNCHANGED <<writer, pend, at, seen, found, mishaps, main, copy>>
  BY DEF Unlink
<1>3. DbOK(disk') /\ rows' \subseteq Procs /\ main' = Content' /\ FileOK(main')
  BY <1>0, <1>1 DEF FileOK, Content
<1>4. TypeOK'
  <2>1. disk'.recs \subseteq 1 .. EXPECTED_SCHEMA_VERSION
    BY <1>3 DEF DbOK, Versions
  <2>2. QED
    BY <1>0, <1>1, <2>1 DEF TypeOK
<1>5. LocalTypeOK'
  <2>1. wal' \in {"none", "own", "foreign"} /\ lost' \subseteq Procs
    BY <1>0, <1>1
  <2>2. stage' \in [Procs -> {"none", "overwrite", "unlink", "verify"}]
    BY <1>0, <1>1
  <2>3. QED
    BY <1>3, <1>4, <2>1, <2>2 DEF LocalTypeOK
<1>6. HasCopy' => FileOK(copy')
  <2>1. HasCopy' => HasCopy
    BY <1>0, <1>1 DEF HasCopy
  <2>2. QED
    BY <1>1, <2>1 DEF IInv
<1>7. ~damaged' => Schema'
  <2>1. ASSUME Attached = {}
        PROVE  Schema'
    BY <1>0, <1>1, <1>3, <2>1, SchemaReplaced
  <2>2. QED
    BY <1>1, <2>1
<1>8. writer' # NoProc => DbOK(pend')
  BY <1>1 DEF IInv
<1>9. QED
  BY <1>3, <1>5, <1>6, <1>7, <1>8 DEF IInv

LEMMA SameInv ==
  ASSUME IInv, UNCHANGED vars
  PROVE  IInv'
<1>1. UNCHANGED schemaVars /\ UNCHANGED fileVars
  BY DEF vars
<1>2. disk' = disk /\ writer' = writer /\ pend' = pend
  BY <1>1 DEF schemaVars
<1>3. UNCHANGED <<rows, main, wal, copy, stage, lost, damaged>>
  BY <1>1 DEF fileVars
<1>4. TypeOK'
  BY <1>1, TypeSame DEF IInv, LocalTypeOK
<1>5. Content' = Content
  BY <1>2, <1>3 DEF Content
<1>6. LocalTypeOK'
  BY <1>3, <1>4, <1>5 DEF IInv, LocalTypeOK
<1>7. HasCopy' <=> HasCopy
  BY <1>3 DEF HasCopy
<1>8. ~damaged' => Schema'
  BY <1>1, <1>3, SchemaSame DEF IInv
<1>9. QED
  BY <1>2, <1>3, <1>6, <1>7, <1>8 DEF IInv

LEMMA NextInv == IInv /\ [LocalNext]_vars => IInv'
<1> SUFFICES ASSUME IInv, [LocalNext]_vars PROVE IInv'
  OBVIOUS
<1>1. CASE UNCHANGED vars
  BY <1>1, SameInv
<1>2. CASE LocalNext
  <2>1. ~damaged
    BY <1>2 DEF LocalNext
  <2>2. PICK p \in Procs :
          \/ Opens(p) \/ Runs(p) \/ Leaves(p) \/ Dies(p) \/ Commits(p)
          \/ Backup(p) \/ Save(p) \/ Overwrite(p) \/ Unlink(p)
    BY <1>2 DEF LocalNext
  <2>3. QED
    BY <2>1, <2>2, OpensInv, RunsInv, LeavesInv, DiesInv, CommitsInv, BackupInv, SaveInv,
       OverwriteInv, UnlinkInv
<1>3. QED
  BY <1>1, <1>2

\* The inductive invariant of SchemaStore and LocalData: types, who holds the
\* lock, and for the database, the main file and every backup, that what is
\* recorded was done and in order, and where each process may rely on it.
THEOREM Inductive == LocalSpec => []IInv
BY InitInv, NextInv, PTL DEF LocalSpec

\* A version of schema_migrations that is recorded is there as a whole, 19
\* excepted: whoever is killed, times out or migrates at once in
\* initialize_schema, and whatever backup is restored.
THEOREM RecordsHold == LocalSpec => []RecordedMeansDone
<1>1. IInv => RecordedMeansDone
  BY DEF IInv, DbOK, RecordedMeansDone
<1>2. QED
  BY <1>1, Inductive, PTL

\* Whoever get_connection has let in finds every version recorded but those of
\* the full-text index, also after the restore of an older backup.
THEOREM OpensCurrent == LocalSpec => []OpenIsCurrent
<1>1. ASSUME IInv, ~damaged
      PROVE  OpenMeansCurrent
  <2> SUFFICES ASSUME NEW p \in Procs, at[p] = Open
               PROVE  MissingVersions \subseteq {17, 19}
    BY DEF OpenMeansCurrent
  <2>1. Schema
    BY <1>1 DEF IInv
  <2>2. writer # p
    BY <2>1, OpenIsNotWriting
  <2>3. Open # Closed
    BY ProgramFacts DEF Open, Closed
  <2>4. \A u \in Versions \ {17, 19} : u \in View(p).recs
    BY <2>1, <2>3 DEF Schema, Ready, ProcOK
  <2>5. View(p) = disk
    BY <2>2 DEF View
  <2>6. QED
    BY <2>4, <2>5 DEF MissingVersions, Versions
<1>2. IInv => OpenIsCurrent
  BY <1>1 DEF IInv, OpenIsCurrent
<1>3. QED
  BY <1>2, Inductive, PTL

-----------------------------------------------------------------------------
(* Restores.                                                               *)

LEMMA RestoreInit == LocalInit => RestoreInv
<1> SUFFICES ASSUME LocalInit PROVE Orderly
  BY DEF RestoreInv
<1>1. lost = {} /\ ~damaged /\ wal = "none" /\ stage = [p \in Procs |-> "none"]
  BY DEF LocalInit
<1>2. QED
  BY <1>1 DEF Orderly

LEMMA OpensRestore ==
  ASSUME IInv, ~damaged, RestoreInv, NEW p \in Procs, Opens(p)
  PROVE  RestoreInv'
<1> SUFFICES ASSUME ~shared', ~unclean' PROVE Orderly'
  BY DEF RestoreInv
<1>1. /\ ~shared /\ ~unclean /\ Restoring \ {p} = {}
      /\ stage[p] \in {"none", "verify"} /\ damaged' = (wal = "foreign")
      /\ UNCHANGED <<lost, wal, stage, safety, main>> /\ Connect(p)
  BY DEF Opens
<1>2. Orderly
  BY <1>1 DEF RestoreInv
<1>3. at' = [at EXCEPT ![p] = 1] /\ at \in [Procs -> Closed .. Open]
  BY <1>1 DEF Connect, IInv, LocalTypeOK, TypeOK
<1>4. Attached' # {}
  <2>1. at'[p] # Closed
    BY <1>3 DEF Closed
  <2>2. QED
    BY <2>1 DEF Attached
<1>5. \A q \in Procs : stage'[q] \notin {"overwrite", "unlink"}
  BY <1>1 DEF Restoring
<1>6. QED
  BY <1>1, <1>2, <1>4, <1>5 DEF Orderly

LEMMA CheckpointsRestore ==
  ASSUME IInv, ~damaged, RestoreInv, NEW p \in Procs, at[p] # Closed, Checkpoints,
         UNCHANGED <<lost, damaged, shared, unclean>>,
         NEW x \in {"none", stage[p]}, stage' = [stage EXCEPT ![p] = x]
  PROVE  RestoreInv'
<1> SUFFICES ASSUME ~shared', ~unclean' PROVE Orderly'
  BY DEF RestoreInv
<1>1. Orderly
  BY DEF RestoreInv
<1>2. Attached # {}
  BY DEF Attached
<1>3. stage \in [Procs -> {"none", "overwrite", "unlink", "verify"}]
  BY DEF IInv, LocalTypeOK
<1>4. \A q \in Procs : stage[q] \notin {"overwrite", "unlink"}
  BY <1>1, <1>2 DEF Orderly
<1>5. \A q \in Procs : stage'[q] \in {"none", stage[q]}
  BY <1>3
<1>6. wal' # "foreign" /\ (Attached' = {} => wal' = "none")
  <2>1. Attached' = {} => \A q \in Procs : at'[q] = Closed
    BY DEF Attached
  <2>2. wal # "foreign"
    BY <1>1 DEF Orderly
  <2>3. QED
    BY <2>1, <2>2 DEF Checkpoints
<1>7. \A q \in Procs : stage'[q] \notin {"overwrite", "unlink"}
  BY <1>4, <1>5
<1>8. \A q, r \in Procs : stage'[q] # "none" /\ stage'[r] # "none" => q = r
  BY <1>1, <1>5 DEF Orderly
<1>9. lost' = {} /\ ~damaged'
  BY <1>1 DEF Orderly
<1>10. QED
  BY <1>6, <1>7, <1>8, <1>9 DEF Orderly

LEMMA RunsRestore ==
  ASSUME IInv, ~damaged, RestoreInv, NEW p \in Procs, Runs(p) \/ Leaves(p)
  PROVE  RestoreInv'
<1>1. at[p] # Closed
  <2>1. Closed \notin DOMAIN Program /\ Open # Closed
    BY ProgramFacts DEF Closed, Open
  <2>2. at[p] \in DOMAIN Program \/ at[p] = Open
    BY DEF Runs, Leaves, Execute, TimeOut, Close
  <2>3. QED
    BY <2>1, <2>2
<1>2. CASE Runs(p)
  <2>1. /\ Checkpoints /\ UNCHANGED <<lost, damaged, shared, unclean>>
        /\ stage' = [stage EXCEPT ![p] = IF at'[p] = Closed THEN "none" ELSE stage[p]]
    BY <1>2 DEF Runs
  <2>2. QED
    BY <1>1, <2>1, CheckpointsRestore
<1>3. CASE Leaves(p)
  <2>1. /\ Checkpoints /\ UNCHANGED <<lost, damaged, shared, unclean>>
        /\ stage' = [stage EXCEPT ![p] = "none"]
    BY <1>3 DEF Leaves
  <2>2. QED
    BY <1>1, <2>1, CheckpointsRestore
<1>4. QED
  BY <1>2, <1>3

LEMMA CommitsRestore ==
  ASSUME IInv, ~damaged, RestoreInv, NEW p \in Procs, Commits(p)
  PROVE  RestoreInv'
<1> SUFFICES ASSUME ~shared', ~unclean' PROVE Orderly'
  BY DEF RestoreInv
<1>1. /\ at[p] = Open /\ wal' = "own" /\ at' = at
      /\ UNCHANGED <<lost, damaged, shared, unclean, stage, safety, main>>
  BY DEF Commits, schemaVars
<1>2. Orderly
  BY <1>1 DEF RestoreInv
<1>3. Attached' # {} /\ Attached' = Attached
  <2>1. Open # Closed
    BY ProgramFacts DEF Closed, Open
  <2>2. QED
    BY <1>1, <2>1 DEF Attached
<1>4. QED
  BY <1>1, <1>2, <1>3 DEF Orderly

LEMMA BackupRestore ==
  ASSUME IInv, ~damaged, RestoreInv, NEW p \in Procs, Backup(p)
  PROVE  RestoreInv'
<1>1. at' = at /\ UNCHANGED <<lost, damaged, wal, shared, unclean, stage, safety, main>>
  BY DEF Backup, schemaVars
<1>2. Attached' = Attached
  BY <1>1 DEF Attached
<1>3. QED
  BY <1>1, <1>2 DEF RestoreInv, Orderly

LEMMA SaveRestore ==
  ASSUME IInv, ~damaged, RestoreInv, NEW p \in Procs, Save(p)
  PROVE  RestoreInv'
<1> SUFFICES ASSUME ~shared', ~unclean' PROVE Orderly'
  BY DEF RestoreInv
<1>1. /\ ~shared /\ ~unclean /\ Attached = {} /\ Restoring = {}
      /\ at' = at /\ safety' = main /\ stage' = [stage EXCEPT ![p] = "overwrite"]
      /\ UNCHANGED <<lost, damaged, wal, main>>
  BY DEF Save, schemaVars
<1>2. Orderly
  BY <1>1 DEF RestoreInv
<1>3. Attached' = {}
  BY <1>1 DEF Attached
<1>4. \A q \in Procs : stage[q] = "none"
  BY <1>1 DEF Restoring
<1>5. stage \in [Procs -> {"none", "overwrite", "unlink", "verify"}]
  BY DEF IInv, LocalTypeOK
<1>6. \A q \in Procs : stage'[q] # "none" => q = p
  BY <1>1, <1>4, <1>5
<1>7. QED
  BY <1>1, <1>2, <1>3, <1>6 DEF Orderly

LEMMA OverwriteRestore ==
  ASSUME IInv, ~damaged, RestoreInv, NEW p \in Procs, Overwrite(p)
  PROVE  RestoreInv'
<1> SUFFICES ASSUME ~shared', ~unclean' PROVE Orderly'
  BY DEF RestoreInv
<1>1. /\ stage[p] = "overwrite" /\ lost' = lost \cup (rows \ safety.rows)
      /\ damaged' = (Attached # {}) /\ wal' = (IF wal = "none" THEN "none" ELSE "foreign")
      /\ stage' = [stage EXCEPT ![p] = "unlink"] /\ at' = at
      /\ UNCHANGED <<shared, unclean>>
  BY DEF Overwrite
<1>2. Orderly
  BY <1>1 DEF RestoreInv
<1>3. Attached = {} /\ wal = "none" /\ safety = main /\ lost = {}
  BY <1>1, <1>2 DEF Orderly
<1>4. main = Content
  BY <1>3 DEF IInv, LocalTypeOK
<1>5. lost' = {}
  BY <1>1, <1>3, <1>4 DEF Content
<1>6. stage \in [Procs -> {"none", "overwrite", "unlink", "verify"}]
  BY DEF IInv, LocalTypeOK
<1>7. \A q \in Procs : stage'[q] # "none" => q = p
  BY <1>1, <1>2, <1>6 DEF Orderly
<1>8. stage'[p] = "unlink"
  BY <1>1, <1>6
<1>9. Attached' = {}
  BY <1>1, <1>3 DEF Attached
<1>10. \A q \in Procs : stage'[q] # "overwrite"
  BY <1>7, <1>8
<1>11. QED
  BY <1>1, <1>3, <1>5, <1>7, <1>9, <1>10 DEF Orderly

LEMMA UnlinkRestore ==
  ASSUME IInv, ~damaged, RestoreInv, NEW p \in Procs, Unlink(p)
  PROVE  RestoreInv'
<1> SUFFICES ASSUME ~shared', ~unclean' PROVE Orderly'
  BY DEF RestoreInv
<1>1. /\ stage[p] = "unlink" /\ lost' = lost \cup (rows \ main.rows)
      /\ damaged' = (Attached # {}) /\ wal' = "none"
      /\ stage' = [stage EXCEPT ![p] = "verify"] /\ at' = at
      /\ UNCHANGED <<shared, unclean>>
  BY DEF Unlink
<1>2. Orderly
  BY <1>1 DEF RestoreInv
<1>3. Attached = {} /\ wal = "none" /\ lost = {}
  BY <1>1, <1>2 DEF Orderly
<1>4. main = Content
  BY <1>3 DEF IInv, LocalTypeOK
<1>5. lost' = {}
  BY <1>1, <1>3, <1>4 DEF Content
<1>6. stage \in [Procs -> {"none", "overwrite", "unlink", "verify"}]
  BY DEF IInv, LocalTypeOK
<1>7. \A q \in Procs : stage'[q] # "none" => q = p
  BY <1>1, <1>2, <1>6 DEF Orderly
<1>8. stage'[p] = "verify"
  BY <1>1, <1>6
<1>9. Attached' = {}
  BY <1>1, <1>3 DEF Attached
<1>10. \A q \in Procs : stage'[q] \notin {"overwrite", "unlink"}
  BY <1>7, <1>8
<1>11. QED
  BY <1>1, <1>3, <1>5, <1>7, <1>9, <1>10 DEF Orderly

LEMMA RestoreNext == IInv /\ RestoreInv /\ [LocalNext]_vars => RestoreInv'
<1> SUFFICES ASSUME IInv, RestoreInv, [LocalNext]_vars PROVE RestoreInv'
  OBVIOUS
<1>1. CASE UNCHANGED vars
  <2>1. at' = at /\ UNCHANGED <<lost, damaged, wal, shared, unclean, stage, safety, main>>
    BY <1>1 DEF vars, schemaVars, fileVars
  <2>2. Attached' = Attached
    BY <2>1 DEF Attached
  <2>3. QED
    BY <2>1, <2>2 DEF RestoreInv, Orderly
<1>2. CASE LocalNext
  <2>1. ~damaged
    BY <1>2 DEF LocalNext
  <2>2. PICK p \in Procs :
          \/ Opens(p) \/ Runs(p) \/ Leaves(p) \/ Dies(p) \/ Commits(p)
          \/ Backup(p) \/ Save(p) \/ Overwrite(p) \/ Unlink(p)
    BY <1>2 DEF LocalNext
  <2>3. Dies(p) => RestoreInv'
    BY DEF Dies, RestoreInv
  <2>4. QED
    BY <2>1, <2>2, <2>3, OpensRestore, RunsRestore, CommitsRestore, BackupRestore,
       SaveRestore, OverwriteRestore, UnlinkRestore
<1>3. QED
  BY <1>1, <1>2

\* What cmd_restore overwrites is in its safety copy, and no main file is read
\* through another one's log, unless somebody was connected meanwhile or a
\* killed process left a log.
THEOREM RestoresKeep == LocalSpec => []RestoreKeeps
<1>1. RestoreInv => RestoreKeeps
  BY DEF RestoreInv, Orderly, RestoreKeeps
<1>2. QED
  BY <1>1, RestoreInit, RestoreNext, Inductive, PTL DEF LocalSpec

-----------------------------------------------------------------------------
(* No bare ALTER is left without its row.                                  *)

\* The bare ALTERs are come to right after the row of 41, in its transaction.
LEMMA Enter ==
  ASSUME NEW p, seen[p] \in 0 .. 46, seen[p] \notin {41, 42}, NEW i \in DOMAIN Program,
         After(p, i) \in DOMAIN Program, Ver(After(p, i)) \in {42, 43}
  PROVE  /\ seen[p] < 41
         /\ (Ver(i) = 41 /\ Program[i].op = "record") \/ Ver(i) \in {42, 43}
<1> DEFINE k == i + 1
           r == FirstDue(p, k)
<1>1. i \in 1 .. Len(Program) /\ k \in 2 .. Len(Program) + 1 /\ Len(Program) \in Nat
      /\ Open = Len(Program) + 1 /\ DOMAIN Program = 1 .. Len(Program)
  BY ProgramFacts DEF Open
<1>2. /\ r \in k .. Open /\ (r # Open => Due(p, r))
      /\ \A j \in DOMAIN Program : k <= j /\ j < r => ~Due(p, j)
  BY <1>1, NextDue
<1>3. r \in DOMAIN Program /\ Ver(r) \in {42, 43}
  BY DEF After
<1> HIDE DEF r
<1>4. Due(p, r)
  BY <1>1, <1>2, <1>3
<1>5. Ver(r) > seen[p]
  <2>1. Ver(r) # 0 /\ Ver(r) # 41
    BY <1>3
  <2>2. QED
    BY <1>4, <2>1 DEF Due, Ver
<1>6. seen[p] < 41
  <2>1. \A n \in 0 .. 46, x \in {42, 43} : x > n /\ n \notin {41, 42} => n < 41
    OBVIOUS
  <2>2. QED
    BY <1>3, <1>5, <2>1
<1>7. PICK x \in DOMAIN Program : Ver(x) = 41 /\ Program[x].op = "record"
  <2>1. 41 \in 0 .. 48 /\ 41 \in Versions
    BY Numbers
  <2>2. PICK z \in DOMAIN Program : Ver(z) = 41
    BY <2>1, FirstFacts
  <2>3. \A j \in DOMAIN Program : Program[j].ver \in Versions =>
          \E y \in DOMAIN Program : Program[y].ver = Program[j].ver /\ Program[y].op = "record"
    BY GoodProgram DEF Good
  <2>4. QED
    BY <2>1, <2>2, <2>3 DEF Ver
<1>8. Due(p, x)
  <2>1. \A n \in 0 .. 46 : n < 41 => 41 > n
    OBVIOUS
  <2>2. QED
    BY <1>6, <1>7, <2>1 DEF Due, Ver
<1>9. x < r
  <2>1. r < x => Ver(r) <= Ver(x)
    BY <1>3, ProgramFacts
  <2>2. ~(r < x) /\ r # x
    BY <1>3, <1>7, <2>1
  <2>3. QED
    BY <1>1, <1>3, <2>2
<1>10. ~(k <= x)
  BY <1>2, <1>7, <1>8, <1>9
<1>11. x = i \/ x < i
  BY <1>1, <1>10
<1>12. CASE x = i
  BY <1>6, <1>7, <1>12
<1>13. CASE x < i
  <2>1. Ver(x) < Ver(i)
    BY <1>7, <1>13, ProgramFacts DEF Last
  <2>2. i < r
    BY <1>1, <1>2
  <2>3. Ver(i) <= Ver(r)
    BY <1>3, <2>2, ProgramFacts
  <2>4. Ver(i) \in 0 .. 48
    BY ProgramFacts
  <2>5. Ver(i) \in {42, 43}
    BY <1>3, <1>7, <2>1, <2>3, <2>4
  <2>6. QED
    BY <1>6, <2>5
<1>14. QED
  BY <1>11, <1>12, <1>13

LEMMA SkipsBare ==
  ASSUME NEW p, seen[p] \in 0 .. 46, seen[p] \notin {41, 42},
         at[p] \in DOMAIN Program, Ver(at[p]) \in {17, 19, Heal}
  PROVE  Ver(NextBlock(p)) \notin {42, 43}
<1> DEFINE v == Ver(at[p]) + 1
           k == FirstOf[v]
           r == FirstDue(p, k)
<1>1. v \in {18, 20, 48} /\ v \in 0 .. 48
  BY Numbers
<1>2. r = NextBlock(p)
  BY DEF NextBlock, Ver
<1>3. NextBlock(p) \in DOMAIN Program
  BY NextBlockFacts
<1> HIDE DEF v
<1>4. k \in DOMAIN Program /\ Ver(k) = v /\ \A j \in DOMAIN Program : j < k <=> Ver(j) < v
  BY <1>1, FirstFacts
<1>5. k # 1
  <2>1. PICK z \in DOMAIN Program : Ver(z) = 0
    <3>1. 0 \in 0 .. 48
      OBVIOUS
    <3>2. QED
      BY <3>1, FirstFacts
  <2>2. z = 1
    BY <2>1, ProgramFacts
  <2>3. QED
    BY <1>1, <1>4, <2>1, <2>2
<1>6. k \in 2 .. Len(Program) + 1 /\ DOMAIN Program = 1 .. Len(Program) /\ Len(Program) \in Nat
      /\ Open = Len(Program) + 1
  BY <1>4, <1>5, ProgramFacts DEF Open
<1>7. /\ r \in k .. Open /\ (r # Open => Due(p, r))
      /\ \A j \in DOMAIN Program : k <= j /\ j < r => ~Due(p, j)
  BY <1>6, NextDue
<1> HIDE DEF r
<1>8. SUFFICES ASSUME Ver(r) \in {42, 43} PROVE FALSE
  BY <1>2
<1>9. r \in DOMAIN Program /\ Due(p, r)
  BY <1>2, <1>3, <1>6, <1>7
<1>10. Ver(r) > seen[p]
  <2>1. Ver(r) # 0 /\ Ver(r) # 41
    BY <1>8
  <2>2. QED
    BY <1>9, <2>1 DEF Due, Ver
<1>11. seen[p] < 41
  <2>1. \A n \in 0 .. 46, x \in {42, 43} : x > n /\ n \notin {41, 42} => n < 41
    OBVIOUS
  <2>2. QED
    BY <1>8, <1>10, <2>1
<1>12. PICK x : x = FirstOf[41] /\ x \in DOMAIN Program /\ Ver(x) = 41
                /\ \A j \in DOMAIN Program : j < x <=> Ver(j) < 41
  <2>1. 41 \in 0 .. 48
    OBVIOUS
  <2>2. QED
    BY <2>1, FirstFacts
<1>13. Due(p, x)
  <2>1. \A n \in 0 .. 46 : n < 41 => 41 > n
    OBVIOUS
  <2>2. QED
    BY <1>11, <1>12, <2>1 DEF Due, Ver
<1>14. x < r
  <2>1. ~(r < x) /\ r # x
    BY <1>8, <1>9, <1>12
  <2>2. QED
    BY <1>6, <1>9, <1>12, <2>1
<1>15. ~(k <= x)
  BY <1>7, <1>12, <1>13, <1>14
<1>16. x < k
  BY <1>4, <1>6, <1>12, <1>15
<1>17. 41 < v
  BY <1>4, <1>12, <1>16
<1>18. v = 48 /\ Ver(k) = 48
  BY <1>1, <1>4, <1>17
<1>19. k = r \/ k < r
  BY <1>6, <1>7, <1>9
<1>20. k < r => Ver(k) <= Ver(r)
  BY <1>4, <1>9, ProgramFacts
<1>21. QED
  BY <1>8, <1>18, <1>19, <1>20

\* Who goes on from the row of 41 or 42 to something else had found 43.
LEMMA Leave ==
  ASSUME NEW p, seen[p] \in 0 .. 46, NEW i \in DOMAIN Program, Program[i].op = "record",
         Ver(i) \in {41, 42},
         ~(After(p, i) \in DOMAIN Program /\ Ver(After(p, i)) \in {42, 43})
  PROVE  seen[p] >= 43
<1> DEFINE k == i + 1
           r == FirstDue(p, k)
<1>1. i \in 1 .. Len(Program) /\ k \in 2 .. Len(Program) + 1 /\ Len(Program) \in Nat
      /\ Open = Len(Program) + 1 /\ DOMAIN Program = 1 .. Len(Program)
  BY ProgramFacts DEF Open
<1>2. /\ r \in k .. Open
      /\ \A j \in DOMAIN Program : k <= j /\ j < r => ~Due(p, j)
  BY <1>1, NextDue
<1>3. ~(r \in DOMAIN Program /\ Ver(r) \in {42, 43})
  BY DEF After
<1> HIDE DEF r
<1>4. PICK x : x = FirstOf[43] /\ x \in DOMAIN Program /\ Ver(x) = 43
               /\ \A j \in DOMAIN Program : j < x <=> Ver(j) < 43
  <2>1. 43 \in 0 .. 48
    OBVIOUS
  <2>2. QED
    BY <2>1, FirstFacts
<1>5. k <= x
  <2>1. i < x
    BY <1>4
  <2>2. QED
    BY <1>1, <1>4, <2>1
<1>6. x < r
  <2>1. CASE r = Open
    BY <1>1, <1>4, <2>1
  <2>2. CASE r # Open
    <3>1. r \in DOMAIN Program /\ i < r
      BY <1>1, <1>2, <2>2
    <3>2. Ver(i) < Ver(r) /\ Ver(r) \in 0 .. 48
      BY <3>1, ProgramFacts DEF Last
    <3>3. ~(Ver(r) < 43) /\ Ver(r) # 43
      BY <1>3, <3>1, <3>2
    <3>4. ~(r < x) /\ r # x
      BY <1>4, <3>1, <3>3
    <3>5. QED
      BY <1>1, <1>4, <3>1, <3>4
  <2>3. QED
    BY <2>1, <2>2
<1>7. ~Due(p, x)
  BY <1>2, <1>4, <1>5, <1>6
<1>8. ~(43 > seen[p])
  BY <1>4, <1>7 DEF Due, Ver
<1>9. QED
  <2>1. \A n \in 0 .. 46 : ~(43 > n) => n >= 43
    OBVIOUS
  <2>2. QED
    BY <1>8, <2>1

\* After a bare ALTER, its row.
LEMMA StayBare ==
  ASSUME NEW p, seen[p] \in 0 .. 46, seen[p] < 41, NEW i \in DOMAIN Program,
         Ver(i) \in {42, 43}, Program[i].op # "record"
  PROVE  After(p, i) \in DOMAIN Program /\ Ver(After(p, i)) \in {42, 43}
<1> DEFINE k == i + 1
           r == FirstDue(p, k)
<1>1. i \in 1 .. Len(Program) /\ k \in 2 .. Len(Program) + 1 /\ Len(Program) \in Nat
      /\ Open = Len(Program) + 1 /\ DOMAIN Program = 1 .. Len(Program)
  BY ProgramFacts DEF Open
<1>2. /\ r \in k .. Open
      /\ \A j \in DOMAIN Program : k <= j /\ j < r => ~Due(p, j)
  BY <1>1, NextDue
<1> HIDE DEF r
<1>3. PICK x \in DOMAIN Program : Ver(x) = Ver(i) /\ Program[x].op = "record"
  <2>1. Ver(i) \in Versions
    BY Numbers
  <2>2. QED
    BY <2>1, GoodProgram DEF Good, Ver
<1>4. x # i /\ ~(x < i)
  <2>1. x < i => Ver(x) < Ver(i)
    BY <1>3, ProgramFacts DEF Last
  <2>2. QED
    BY <1>3, <2>1
<1>5. k <= x
  BY <1>1, <1>4
<1>6. Due(p, x)
  <2>1. \A n \in 0 .. 46, v \in {42, 43} : n < 41 => v > n
    OBVIOUS
  <2>2. Ver(x) > seen[p]
    BY <1>3, <2>1
  <2>3. QED
    BY <2>2 DEF Due, Ver
<1>7. ~(x < r)
  BY <1>2, <1>5, <1>6
<1>8. r \in DOMAIN Program /\ i < r /\ (r = x \/ r < x)
  BY <1>1, <1>2, <1>7
<1>9. Ver(i) <= Ver(r) /\ (r < x => Ver(r) <= Ver(x)) /\ Ver(r) \in 0 .. 48
  BY <1>3, <1>8, ProgramFacts
<1>10. Ver(r) = Ver(i)
  BY <1>3, <1>8, <1>9
<1>11. QED
  BY <1>8, <1>10 DEF After, r

LEMMA SoundMake ==
  ASSUME NEW d, Sound(d), NEW o, o \notin BareObjects
  PROVE  Sound(With(d, {o}, {}))
<1> DEFINE e == With(d, {o}, {})
<1>1. e.objs = d.objs \cup {o} /\ e.recs = d.recs
  <2>1. d.recs \cup {} = d.recs
    OBVIOUS
  <2>2. QED
    BY <2>1 DEF With
<1> HIDE DEF e
<1>2. Sound(e)
  BY <1>1 DEF Sound, BareObjects
<1>3. QED
  BY <1>2 DEF e

LEMMA SoundDrop ==
  ASSUME NEW d, DbOK(d), Sound(d)
  PROVE  Sound([d EXCEPT !.objs = @ \ {"fts_au"}])
<1> DEFINE e == [d EXCEPT !.objs = @ \ {"fts_au"}]
<1>1. d = [objs |-> d.objs, recs |-> d.recs]
  BY DEF DbOK
<1>2. e.objs = d.objs \ {"fts_au"} /\ e.recs = d.recs
  BY <1>1
<1> HIDE DEF e
<1>3. Sound(e)
  BY <1>2 DEF Sound
<1>4. QED
  BY <1>3 DEF e

LEMMA SoundRecord ==
  ASSUME NEW d, NEW rs,
         \A v \in {42, 43} : BareObject(v) \in d.objs => v \in d.recs \cup rs,
         (d.recs \cup rs) \cap {41, 42} # {} => 43 \in d.recs \cup rs
  PROVE  Sound(With(d, {}, rs))
<1> DEFINE e == With(d, {}, rs)
<1>1. e.objs = d.objs /\ e.recs = d.recs \cup rs
  <2>1. d.objs \cup {} = d.objs
    OBVIOUS
  <2>2. QED
    BY <2>1 DEF With
<1> HIDE DEF e
<1>2. Sound(e)
  BY <1>1 DEF Sound
<1>3. QED
  BY <1>2 DEF e

\* What a step of p must leave sound.
LEMMA SoundConclude ==
  ASSUME Schema, SoundSchema, NEW p \in Procs, StepOK(p), Sound(disk'),
         at'[p] # Closed => seen'[p] \notin {41, 42},
         at'[p] \in DOMAIN Program /\ Ver(at'[p]) \in {42, 43} => writer' = p /\ seen'[p] < 41,
         writer' = p /\ ~(at'[p] \in DOMAIN Program /\ Ver(at'[p]) \in {42, 43}) => Sound(pend')
  PROVE  SoundSchema'
<1>0. NoProc \notin Procs
  BY SchemaStoreAssumption
<1>1. /\ \A q \in Procs \ {p} : at'[q] = at[q] /\ seen'[q] = seen[q]
      /\ writer' \in {writer, p, NoProc}
      /\ writer \notin {p, NoProc} => UNCHANGED <<disk, writer, pend>>
  BY DEF StepOK, OthersSeeMore
<1>2. ASSUME NEW q \in Procs, q # p
      PROVE  AtBare(q)' <=> AtBare(q)
  BY <1>1, <1>2 DEF AtBare, Ver
<1>3. ASSUME NEW q \in Procs
      PROVE  SoundProc(q)'
  <2>1. CASE q = p
    BY <2>1 DEF SoundProc, AtBare, Ver
  <2>2. CASE q # p
    <3>1. SoundProc(q)
      BY DEF SoundSchema
    <3>2. AtBare(q) => writer = q /\ writer' = writer
      BY <1>0, <1>1, <2>2, <3>1 DEF SoundProc
    <3>3. at'[q] = at[q] /\ seen'[q] = seen[q]
      BY <1>1, <2>2
    <3>4. AtBare(q)' => writer' = q /\ seen'[q] < 41
      BY <1>2, <2>2, <3>1, <3>2, <3>3 DEF SoundProc
    <3>5. at'[q] # Closed => seen'[q] \notin {41, 42}
      BY <3>1, <3>3 DEF SoundProc
    <3>6. QED
      BY <3>4, <3>5 DEF SoundProc
  <2>3. QED
    BY <2>1, <2>2
<1>4. ASSUME writer' # NoProc, ~AtBare(writer)'
      PROVE  Sound(pend')
  <2>1. CASE writer' = p
    BY <1>4, <2>1 DEF AtBare, Ver
  <2>2. CASE writer' # p
    <3>1. writer' = writer /\ writer \in Procs \ {p} /\ pend' = pend
      BY <1>1, <1>4, <2>2 DEF Schema, Held
    <3>2. ~AtBare(writer)
      BY <1>1, <1>4, <3>1 DEF AtBare, Ver
    <3>3. Sound(pend)
      BY <1>4, <3>1, <3>2 DEF SoundSchema
    <3>4. QED
      BY <3>1, <3>3
  <2>3. QED
    BY <2>1, <2>2
<1>5. QED
  BY <1>3, <1>4 DEF SoundSchema

\* Outside of 42 and 43, what p sees is sound.
LEMMA SoundView ==
  ASSUME Schema, SoundSchema, NEW p \in Procs, ~AtBare(p)
  PROVE  Sound(View(p))
BY SchemaStoreAssumption DEF SoundSchema, View

\* A step that leaves the database, and the block, as it is.
LEMMA SoundPass ==
  ASSUME Schema, SoundSchema, NEW p \in Procs, StepOK(p), ~AtBare(p), at[p] # Closed,
         UNCHANGED <<disk, writer, pend>>, seen' = seen,
         ~(at'[p] \in DOMAIN Program /\ Ver(at'[p]) \in {42, 43})
  PROVE  SoundSchema'
<1>0. p # NoProc
  BY SchemaStoreAssumption
<1>1. Sound(disk') /\ seen'[p] \notin {41, 42}
  BY DEF SoundSchema, SoundProc
<1>2. writer' = p => Sound(pend')
  BY <1>0 DEF SoundSchema
<1>3. QED
  BY <1>1, <1>2, SoundConclude

\* One that makes something else than a bare column.
LEMMA SoundWrite ==
  ASSUME Schema, SoundSchema, NEW p \in Procs, StepOK(p), at[p] \in DOMAIN Program, ~AtBare(p),
         GoOn(p), NEW d, Sound(d), Ddl(p, d) \/ (MayWrite(p) /\ Dml(p, d)), seen' = seen,
         ~(Ver(at[p]) = 41 /\ Program[at[p]].op = "record")
  PROVE  SoundSchema'
<1>0. p # NoProc /\ at[p] # Closed /\ seen[p] \in 0 .. 46 /\ at \in [Procs -> Closed .. Open]
  BY SchemaStoreAssumption, ProgramFacts DEF Closed, Schema, PlacesOK
<1>1. seen[p] \notin {41, 42} /\ Sound(disk)
  BY <1>0 DEF SoundSchema, SoundProc
<1>2. at'[p] = After(p, at[p])
  BY <1>0 DEF GoOn
<1>3. ~(at'[p] \in DOMAIN Program /\ Ver(at'[p]) \in {42, 43})
  BY <1>0, <1>1, <1>2, Enter DEF AtBare
<1>4. Sound(disk') /\ (writer' = p => Sound(pend'))
  BY <1>0, <1>1 DEF Ddl, Dml
<1>5. QED
  BY <1>1, <1>3, <1>4, SoundConclude

LEMMA SoundGoOnPass ==
  ASSUME Schema, SoundSchema, NEW p \in Procs, StepOK(p), at[p] \in DOMAIN Program, ~AtBare(p),
         GoOn(p), UNCHANGED <<disk, writer, pend>>, seen' = seen,
         ~(Ver(at[p]) = 41 /\ Program[at[p]].op = "record")
  PROVE  SoundSchema'
<1>0. at[p] # Closed /\ seen[p] \in 0 .. 46 /\ at \in [Procs -> Closed .. Open]
  BY ProgramFacts DEF Closed, Schema, PlacesOK
<1>1. seen[p] \notin {41, 42}
  BY <1>0 DEF SoundSchema, SoundProc
<1>2. at'[p] = After(p, at[p])
  BY <1>0 DEF GoOn
<1>3. ~(at'[p] \in DOMAIN Program /\ Ver(at'[p]) \in {42, 43})
  BY <1>0, <1>1, <1>2, Enter DEF AtBare
<1>4. QED
  BY <1>0, <1>3, SoundPass

LEMMA SoundSkip ==
  ASSUME Schema, SoundSchema, NEW p \in Procs, StepOK(p), at[p] \in DOMAIN Program,
         Ver(at[p]) \in {17, 19, Heal}, Skip(p), seen' = seen
  PROVE  SoundSchema'
<1>0. at[p] # Closed /\ seen[p] \in 0 .. 46 /\ at \in [Procs -> Closed .. Open]
  BY ProgramFacts DEF Closed, Schema, PlacesOK
<1>1. seen[p] \notin {41, 42}
  BY <1>0 DEF SoundSchema, SoundProc
<1>2. at'[p] = NextBlock(p) /\ UNCHANGED <<disk, writer, pend>>
  BY <1>0 DEF Skip
<1>3. Ver(at'[p]) \notin {42, 43}
  BY <1>0, <1>1, <1>2, SkipsBare
<1>4. ~AtBare(p)
  BY Numbers DEF AtBare
<1>5. QED
  BY <1>0, <1>2, <1>3, <1>4, SoundPass

LEMMA SoundRaise ==
  ASSUME Schema, SoundSchema, NEW p \in Procs, StepOK(p), Raise(p)
  PROVE  SoundSchema'
<1>1. at'[p] = Closed /\ disk' = disk /\ writer' # p
  BY RaiseEffect DEF Raise, Schema, PlacesOK
<1>2. Closed \notin DOMAIN Program
  BY ProgramFacts DEF Closed
<1>3. QED
  BY <1>1, <1>2, SoundConclude DEF SoundSchema

\* A statement that is neither a bare ALTER nor a row of schema_migrations is
\* not of 42 or 43, and makes none of their columns.
LEMMA NotBare ==
  ASSUME NEW p \in Procs, at[p] \in DOMAIN Program, Program[at[p]].op \notin {"bare", "record"}
  PROVE  ~AtBare(p) /\ Program[at[p]].obj \notin BareObjects
<1>1. Fit(Program[at[p]])
  BY ProgramFacts
<1>2. QED
  BY <1>1 DEF Fit, AtBare, Ver

LEMMA RecordsSound ==
  ASSUME Schema, SoundSchema, NEW p \in Procs, StepOK(p), at[p] \in DOMAIN Program,
         Program[at[p]].op = "record", GoOn(p), seen' = seen, MayWrite(p),
         Dml(p, With(View(p), {}, {Ver(at[p])}))
  PROVE  SoundSchema'
<1> DEFINE i == at[p]
           v == Ver(at[p])
           d == View(p)
           e == With(View(p), {}, {v})
           Bare1 == at'[p] \in DOMAIN Program /\ Ver(at'[p]) \in {42, 43}
<1>0. p # NoProc /\ i # Closed /\ seen[p] \in 0 .. 46 /\ at \in [Procs -> Closed .. Open]
  BY SchemaStoreAssumption, ProgramFacts DEF Closed, Schema, PlacesOK
<1>1. seen[p] \notin {41, 42} /\ Sound(disk)
  BY <1>0 DEF SoundSchema, SoundProc
<1>2. at'[p] = After(p, i)
  BY <1>0 DEF GoOn
<1>3. pend' = e /\ writer' = p /\ disk' = disk
  BY DEF Dml
<1>4. ProcOK(i, seen[p], found[p], d)
  BY DEF Schema, Ready
<1>5. /\ \A u \in Firm : u <= seen[p] => u \in d.recs
      /\ \A u \in Versions \ {17, 19} : u < v => u \in d.recs
  BY <1>0, <1>4 DEF ProcOK
<1>6. Bare1 => seen[p] < 41
  BY <1>0, <1>1, <1>2, Enter
<1>7. v \in 0 .. 48
  BY ProgramFacts
<1>8. v \in {42, 43} => seen[p] < 41
  BY DEF AtBare, SoundSchema, SoundProc
<1>9. v \notin {42, 43} => Sound(d)
  BY SoundView DEF AtBare
<1> HIDE DEF e, d, v, i
<1>10. ASSUME ~Bare1
       PROVE  Sound(e)
  <2>1. CASE v \notin {41, 42, 43}
    <3>1. Sound(d)
      BY <1>9, <2>1
    <3>2. (d.recs \cup {v}) \cap {41, 42} = d.recs \cap {41, 42}
      BY <2>1
    <3>3. QED
      BY <3>1, <3>2, SoundRecord DEF Sound, e, d
  <2>2. CASE v \in {41, 42}
    <3>1. seen[p] >= 43
      BY <1>0, <1>2, <1>10, <2>2, Leave DEF v, i
    <3>2. 43 \in Firm /\ v = 41
      BY <1>8, <1>0, <2>2, <3>1, Numbers DEF Firm
    <3>3. 43 \in d.recs
      BY <1>0, <1>5, <3>1, <3>2
    <3>4. Sound(d)
      BY <1>9, <3>2
    <3>5. /\ \A x \in {42, 43} : BareObject(x) \in d.objs => x \in d.recs \cup {v}
          /\ 43 \in d.recs \cup {v}
      BY <3>3, <3>4 DEF Sound
    <3>6. QED
      BY <3>5, SoundRecord DEF e, d
  <2>3. CASE v = 43
    <3>1. 42 \in d.recs
      <4>1. 42 \in Versions \ {17, 19} /\ 42 < v
        BY <2>3, Numbers
      <4>2. QED
        BY <1>5, <4>1
    <3>2. /\ \A x \in {42, 43} : BareObject(x) \in d.objs => x \in d.recs \cup {v}
          /\ 43 \in d.recs \cup {v}
      BY <2>3, <3>1
    <3>3. QED
      BY <3>2, SoundRecord DEF e, d
  <2>4. QED
    BY <2>1, <2>2, <2>3
<1>11. QED
  BY <1>1, <1>3, <1>6, <1>10, SoundConclude

LEMMA ExecuteSound ==
  ASSUME Schema, SoundSchema, NEW p \in Procs, Execute(p)
  PROVE  SoundSchema'
<1>1. StepOK(p) /\ at[p] \in DOMAIN Program
  BY ExecuteStep DEF Schema
<1>2. PICK s : s = Program[at[p]]
  OBVIOUS
<1>3. NeedsLock(p, s) => MayWrite(p)
  BY <1>2 DEF Execute
<1>4. \/ Creates(p, s) \/ CommitsFirst(p, s) \/ Looks(p, s) \/ Alters(p, s)
      \/ Indexes(p, s) \/ Writes(p, s) \/ Fts(p, s) \/ Refits(p, s) \/ Ends(p, s)
  BY <1>2 DEF Execute
<1>5. s.ver = Ver(at[p]) /\ Fit(s)
  BY <1>1, <1>2, ProgramFacts DEF Ver
<1>6. DbOK(View(p)) /\ p # NoProc
  BY ViewHeld, SchemaStoreAssumption DEF Schema
<1>7. s.op \notin {"bare", "record"} =>
        ~AtBare(p) /\ s.obj \notin BareObjects /\ Sound(View(p))
  BY <1>1, <1>2, NotBare, SoundView
<1>8. s.op \notin {"bare", "record"} => Sound(With(View(p), {s.obj}, {}))
  BY <1>7, SoundMake
<1>9. CASE Creates(p, s)
  <2>1. /\ s.op \notin {"bare", "record"} /\ Ddl(p, With(View(p), {s.obj}, {})) /\ GoOn(p)
        /\ seen' = seen
    BY <1>9 DEF Creates
  <2>2. QED
    BY <1>1, <1>2, <1>7, <1>8, <2>1, SoundWrite
<1>10. CASE CommitsFirst(p, s)
  <2>1. s.op = "script" /\ writer = p /\ Commit(p) /\ at' = at /\ seen' = seen
    BY <1>10 DEF CommitsFirst
  <2>2. s.op \notin {"bare", "record"}
    BY <2>1
  <2>3. ~AtBare(p) /\ Sound(View(p))
    BY <1>7, <2>2
  <2>4. View(p) = pend /\ disk' = pend /\ writer' = NoProc
    BY <2>1 DEF View, Commit
  <2>5. at[p] # Closed
    BY <1>1, ProgramFacts DEF Closed
  <2>6. seen'[p] \notin {41, 42}
    BY <2>1, <2>5 DEF SoundSchema, SoundProc
  <2>7. Sound(disk') /\ writer' # p
    BY <1>6, <2>3, <2>4
  <2>8. ~(at'[p] \in DOMAIN Program /\ Ver(at'[p]) \in {42, 43})
    BY <2>1, <2>3 DEF AtBare
  <2>9. QED
    BY <1>1, <2>6, <2>7, <2>8, SoundConclude
<1>11. CASE Looks(p, s)
  <2>1. s.op = "look" /\ GoOn(p) /\ UNCHANGED <<disk, writer, pend>> /\ seen' = seen
    BY <1>11 DEF Looks
  <2>2. QED
    BY <1>1, <1>2, <1>7, <2>1, SoundGoOnPass
<1>12. CASE Alters(p, s)
  <2> DEFINE there == s.obj \in View(p).objs
             d == With(View(p), {s.obj}, {})
             skipped == (s.op = "add" /\ s.obj \in found[p]) \/ (s.op = "try" /\ there)
  <2>1. CASE skipped /\ GoOn(p) /\ UNCHANGED <<disk, writer, pend, seen, found>>
    <3>1. s.op \notin {"bare", "record"} /\ GoOn(p) /\ UNCHANGED <<disk, writer, pend>> /\ seen' = seen
      BY <2>1
    <3>2. QED
      BY <1>1, <1>2, <1>7, <3>1, SoundGoOnPass
  <2>2. CASE Raise(p)
    BY <1>1, <2>2, SoundRaise
  <2>3. CASE Ddl(p, d) /\ GoOn(p) /\ UNCHANGED <<seen, found>> /\ s.op # "bare"
    <3>1. s.op \notin {"bare", "record"} /\ Ddl(p, d) /\ GoOn(p) /\ seen' = seen
      BY <1>12, <2>3 DEF Alters
    <3>2. QED
      BY <1>1, <1>2, <1>7, <1>8, <3>1, SoundWrite
  <2>4. CASE Ddl(p, d) /\ GoOn(p) /\ UNCHANGED <<seen, found>> /\ s.op = "bare"
    <3>1. AtBare(p)
      BY <1>1, <1>5, <2>4 DEF Fit, AtBare
    <3>2. writer = p /\ seen[p] < 41 /\ Sound(disk)
      BY <3>1 DEF SoundSchema, SoundProc
    <3>3. seen[p] \in 0 .. 46 /\ at \in [Procs -> Closed .. Open]
      BY DEF Schema, PlacesOK
    <3>4. at'[p] = After(p, at[p]) /\ seen' = seen
      BY <2>4, <3>3 DEF GoOn
    <3>5. at'[p] \in DOMAIN Program /\ Ver(at'[p]) \in {42, 43}
      <4>1. Ver(at[p]) \in {42, 43} /\ Program[at[p]].op # "record"
        BY <1>2, <2>4, <3>1 DEF AtBare
      <4>2. QED
        BY <1>1, <3>2, <3>3, <3>4, <4>1, StayBare
    <3>6. disk' = disk /\ writer' = p
      BY <2>4, <3>2 DEF Ddl
    <3>7. seen'[p] \notin {41, 42}
      BY <3>2, <3>3, <3>4
    <3>8. Sound(disk') /\ seen'[p] < 41
      BY <3>2, <3>4, <3>6
    <3>9. QED
      BY <1>1, <3>5, <3>6, <3>7, <3>8, SoundConclude
  <2>5. QED
    <3>1. (skipped /\ GoOn(p) /\ UNCHANGED <<disk, writer, pend, seen, found>>)
          \/ Raise(p) \/ (Ddl(p, d) /\ GoOn(p) /\ UNCHANGED <<seen, found>>)
      BY <1>12 DEF Alters
    <3>2. QED
      BY <2>1, <2>2, <2>3, <2>4, <3>1
<1>13. CASE Indexes(p, s)
  <2>1. CASE Raise(p)
    BY <1>1, <2>1, SoundRaise
  <2>2. CASE Ddl(p, With(View(p), {s.obj}, {})) /\ GoOn(p) /\ UNCHANGED <<seen, found>>
    <3>1. s.op \notin {"bare", "record"} /\ seen' = seen
      BY <1>13, <2>2 DEF Indexes
    <3>2. QED
      BY <1>1, <1>2, <1>7, <1>8, <2>2, <3>1, SoundWrite
  <2>3. QED
    BY <1>13, <2>1, <2>2 DEF Indexes
<1>14. CASE Writes(p, s)
  <2>0. s.op \in {"rows", "record", "recordFts"} /\ GoOn(p) /\ seen' = seen
    BY <1>14 DEF Writes
  <2>1. MayWrite(p)
    BY <1>3, <2>0 DEF NeedsLock
  <2>2. CASE s.op = "rows"
    <3>1. Dml(p, With(View(p), {s.obj}, {}))
      BY <1>14, <2>2 DEF Writes
    <3>2. s.op \notin {"bare", "record"}
      BY <2>2
    <3>3. QED
      BY <1>1, <1>2, <1>7, <1>8, <2>0, <2>1, <3>1, <3>2, SoundWrite
  <2>3. CASE s.op = "record"
    <3>1. Dml(p, With(View(p), {}, {Ver(at[p])}))
      BY <1>5, <1>14, <2>3 DEF Writes
    <3>2. QED
      BY <1>1, <1>2, <2>0, <2>1, <2>3, <3>1, RecordsSound
  <2>4. CASE s.op = "recordFts"
    <3>1. Dml(p, With(View(p), {}, {17, 19}))
      BY <1>14, <2>4 DEF Writes
    <3>2. s.op \notin {"bare", "record"}
      BY <2>4
    <3>3. Sound(View(p)) /\ ~AtBare(p)
      BY <1>7, <3>2
    <3>4. (View(p).recs \cup {17, 19}) \cap {41, 42} = View(p).recs \cap {41, 42}
      OBVIOUS
    <3>5. Sound(With(View(p), {}, {17, 19}))
      BY <3>3, <3>4, SoundRecord DEF Sound
    <3>6. QED
      BY <1>1, <1>2, <2>0, <2>1, <3>1, <3>2, <3>3, <3>5, SoundWrite
  <2>5. QED
    BY <2>0, <2>2, <2>3, <2>4
<1>15. CASE Fts(p, s)
  <2>0. s.op \in {"fts", "heal"} /\ s.op \notin {"bare", "record"} /\ seen' = seen
    BY <1>15 DEF Fts
  <2>1. CASE Skip(p)
    <3>1. Ver(at[p]) \in {17, 19, Heal}
      BY <1>5, <2>0 DEF Fit
    <3>2. QED
      BY <1>1, <2>0, <2>1, <3>1, SoundSkip
  <2>2. CASE Ddl(p, With(View(p), {s.obj}, {})) /\ GoOn(p)
    BY <1>1, <1>2, <1>7, <1>8, <2>0, <2>2, SoundWrite
  <2>3. QED
    BY <1>15, <2>1, <2>2 DEF Fts
<1>16. CASE Refits(p, s)
  <2> DEFINE d == IF s.op = "drop" THEN [View(p) EXCEPT !.objs = @ \ {s.obj}]
                                   ELSE With(View(p), {s.obj}, {})
  <2>0. s.op \in {"drop", "create"} /\ s.op \notin {"bare", "record"}
    BY <1>16 DEF Refits
  <2>1. s.ver = 19 /\ s.obj = "fts_au"
    BY <1>5, <2>0 DEF Fit
  <2>2. CASE Skip(p) /\ UNCHANGED <<seen, found>>
    <3>1. Ver(at[p]) \in {17, 19, Heal} /\ seen' = seen
      BY <1>5, <2>1, <2>2
    <3>2. QED
      BY <1>1, <2>2, <3>1, SoundSkip
  <2>3. CASE Raise(p)
    BY <1>1, <2>3, SoundRaise
  <2>4. CASE Ddl(p, d) /\ GoOn(p) /\ UNCHANGED <<seen, found>>
    <3>1. Sound(d)
      <4>1. s.op = "drop" => d = [View(p) EXCEPT !.objs = @ \ {"fts_au"}]
        BY <2>1
      <4>2. s.op # "drop" => d = With(View(p), {s.obj}, {})
        OBVIOUS
      <4> HIDE DEF d
      <4>3. QED
        BY <1>6, <1>7, <1>8, <2>0, <4>1, <4>2, SoundDrop
    <3>2. Ddl(p, d) /\ GoOn(p) /\ seen' = seen
      BY <2>4
    <3> HIDE DEF d
    <3>3. QED
      BY <1>1, <1>2, <1>7, <2>0, <3>1, <3>2, SoundWrite
  <2>5. QED
    <3>1. (Skip(p) /\ UNCHANGED <<seen, found>>) \/ Raise(p)
          \/ (Ddl(p, d) /\ GoOn(p) /\ UNCHANGED <<seen, found>>)
      BY <1>16 DEF Refits
    <3>2. QED
      BY <2>2, <2>3, <2>4, <3>1
<1>17. CASE Ends(p, s)
  <2>1. s.op = "commit" /\ Commit(p) /\ GoOn(p) /\ seen' = seen
    BY <1>17 DEF Ends
  <2>2. s.op \notin {"bare", "record"}
    BY <2>1
  <2>3. ~AtBare(p) /\ Sound(View(p))
    BY <1>7, <2>2
  <2>4. Sound(disk') /\ writer' # p
    BY <1>6, <2>1, <2>3 DEF Commit, View, SoundSchema
  <2>5. at[p] # Closed /\ seen[p] \in 0 .. 46 /\ at \in [Procs -> Closed .. Open]
    BY <1>1, ProgramFacts DEF Closed, Schema, PlacesOK
  <2>6. seen[p] \notin {41, 42}
    BY <2>5 DEF SoundSchema, SoundProc
  <2>7. at'[p] = After(p, at[p])
    BY <2>1, <2>5 DEF GoOn
  <2>8. ~(at'[p] \in DOMAIN Program /\ Ver(at'[p]) \in {42, 43})
    BY <1>1, <1>2, <2>2, <2>3, <2>5, <2>6, <2>7, Enter DEF AtBare
  <2>9. QED
    BY <1>1, <2>1, <2>4, <2>6, <2>8, SoundConclude
<1>18. QED
  BY <1>4, <1>9, <1>10, <1>11, <1>12, <1>13, <1>14, <1>15, <1>16, <1>17

LEMMA TimeOutSound ==
  ASSUME Schema, SoundSchema, NEW p \in Procs, TimeOut(p)
  PROVE  SoundSchema'
<1>1. StepOK(p) /\ at[p] \in DOMAIN Program
  BY TimeOutStep DEF Schema
<1>2. PICK s : s = Program[at[p]]
  OBVIOUS
<1>3. \/ s.op = "try" /\ GoOn(p) /\ UNCHANGED <<disk, writer, pend, seen, found>>
      \/ s.ver \in {17, Heal} /\ Skip(p) /\ UNCHANGED <<seen, found>>
      \/ Raise(p)
  BY <1>2 DEF TimeOut
<1>4. CASE s.op = "try" /\ GoOn(p) /\ UNCHANGED <<disk, writer, pend, seen, found>>
  <2>1. s.op \notin {"bare", "record"} /\ GoOn(p) /\ UNCHANGED <<disk, writer, pend>> /\ seen' = seen
    BY <1>4
  <2>2. ~AtBare(p)
    BY <1>1, <1>2, <2>1, NotBare
  <2>3. QED
    BY <1>1, <1>2, <2>1, <2>2, SoundGoOnPass
<1>5. CASE s.ver \in {17, Heal} /\ Skip(p) /\ UNCHANGED <<seen, found>>
  <2>1. Ver(at[p]) \in {17, 19, Heal} /\ seen' = seen
    BY <1>2, <1>5 DEF Ver
  <2>2. QED
    BY <1>1, <1>5, <2>1, SoundSkip
<1>6. CASE Raise(p)
  BY <1>1, <1>6, SoundRaise
<1>7. QED
  BY <1>3, <1>4, <1>5, <1>6

\* A sound database is not at 41 or 42.
LEMMA SoundVersion ==
  ASSUME NEW d, DbOK(d), Sound(d)
  PROVE  MaxVersion(d) \notin {41, 42}
<1>1. d.recs \cup {0} \subseteq 0 .. 46 /\ d.recs \cup {0} # {} /\ 46 \in Nat
  BY Numbers DEF DbOK
<1>2. /\ Max(d.recs \cup {0}) \in d.recs \cup {0}
      /\ \A y \in d.recs \cup {0} : y <= Max(d.recs \cup {0})
  BY <1>1, GreatestOf
<1>3. ASSUME MaxVersion(d) \in {41, 42}
      PROVE  FALSE
  <2>1. MaxVersion(d) \in d.recs
    BY <1>2, <1>3 DEF MaxVersion
  <2>2. 43 \in d.recs
    BY <1>3, <2>1 DEF Sound
  <2>3. 43 <= MaxVersion(d)
    BY <1>2, <2>2 DEF MaxVersion
  <2>4. QED
    BY <1>3, <2>3
<1>4. QED
  BY <1>3

LEMMA ConnectSound ==
  ASSUME Schema, SoundSchema, NEW p \in Procs, Connect(p)
  PROVE  SoundSchema'
<1>1. at[p] = Closed /\ at' = [at EXCEPT ![p] = 1]
  BY DEF Connect
<1>2. writer # p
  BY <1>1, OpenIsNotWriting
<1>3. StepOK(p) /\ UNCHANGED <<disk, writer, pend>> /\ seen'[p] = MaxVersion(disk)
  BY <1>2, ConnectStep DEF Schema
<1>4. Sound(disk) /\ DbOK(disk)
  BY DEF SoundSchema, Schema, Held
<1>5. at'[p] = 1
  BY <1>1 DEF Schema, PlacesOK
<1>6. Ver(1) = 0
  <2>1. PICK z \in DOMAIN Program : Ver(z) = 0
    <3>1. 0 \in 0 .. 48
      OBVIOUS
    <3>2. QED
      BY <3>1, FirstFacts
  <2>2. QED
    BY <2>1, ProgramFacts
<1>7. Sound(disk') /\ seen'[p] \notin {41, 42}
  BY <1>3, <1>4, SoundVersion
<1>8. ~(at'[p] \in DOMAIN Program /\ Ver(at'[p]) \in {42, 43})
  BY <1>5, <1>6
<1>9. writer' # p
  BY <1>2, <1>3
<1>10. QED
  BY <1>3, <1>7, <1>8, <1>9, SoundConclude

LEMMA CloseSound ==
  ASSUME Schema, SoundSchema, NEW p \in Procs, Close(p)
  PROVE  SoundSchema'
<1>1. at[p] = Open /\ at' = [at EXCEPT ![p] = Closed]
  BY DEF Close
<1>2. writer # p
  BY <1>1, OpenIsNotWriting
<1>3. StepOK(p) /\ UNCHANGED <<disk, writer, pend>>
  BY <1>2, CloseStep DEF Schema
<1>4. at'[p] = Closed
  BY <1>1 DEF Schema, PlacesOK
<1>5. Closed \notin DOMAIN Program
  BY ProgramFacts DEF Closed
<1>6. Sound(disk') /\ writer' # p
  BY <1>2, <1>3 DEF SoundSchema
<1>7. QED
  BY <1>3, <1>4, <1>5, <1>6, SoundConclude

LEMMA SoundSame ==
  ASSUME SoundSchema, UNCHANGED schemaVars
  PROVE  SoundSchema'
<1>1. disk' = disk /\ writer' = writer /\ pend' = pend /\ at' = at /\ seen' = seen
  BY DEF schemaVars
<1>2. \A p \in Procs : SoundProc(p)' /\ (AtBare(p)' <=> AtBare(p))
  BY <1>1 DEF SoundSchema, SoundProc, AtBare, Ver
<1>3. AtBare(writer)' <=> AtBare(writer)
  BY <1>1 DEF AtBare, Ver
<1>4. QED
  BY <1>1, <1>2, <1>3 DEF SoundSchema

\* Nobody is connected, and the file becomes another sound one.
LEMMA SoundReplaced ==
  ASSUME Schema, Attached = {}, Sound(disk'), UNCHANGED <<writer, pend, at, seen>>
  PROVE  SoundSchema'
<1>1. \A p \in Procs : at[p] = Closed
  BY DEF Attached
<1>2. Closed \notin DOMAIN Program
  BY ProgramFacts DEF Closed
<1>3. writer = NoProc
  BY <1>1, <1>2 DEF Schema, Held, Locked
<1>4. \A p \in Procs : SoundProc(p)'
  BY <1>1, <1>2 DEF SoundProc, AtBare
<1>5. QED
  BY <1>3, <1>4 DEF SoundSchema

\* What a bare ALTER makes belongs to its version alone.
LEMMA BareObjectFacts ==
  ASSUME NEW v \in {42, 43}
  PROVE  /\ BareObject(v) \in ObjectsOf[v]
         /\ \A u \in 0 .. 48 : BareObject(v) \in ObjectsOf[u] => u = v
<1>1. v \in 0 .. 48
  OBVIOUS
<1>2. PICK i \in DOMAIN Program : Ver(i) = v
  BY <1>1, FirstFacts
<1>3. PICK k \in DOMAIN Program : Ver(k) = v /\ Program[k].op = "bare"
  <2>1. \A j \in DOMAIN Program : Program[j].ver \in {42, 43} =>
          \E k \in DOMAIN Program : Program[k].ver = Program[j].ver /\ Program[k].op = "bare"
    BY GoodProgram DEF Good
  <2>2. QED
    BY <1>2, <2>1 DEF Ver
<1>4. Program[k].obj = BareObject(v) /\ Program[k].op \in Makers
  BY <1>3, ProgramFacts DEF Fit, Ver, Makers
<1>5. BareObject(v) \in ObjectsOf[v]
  BY <1>1, <1>3, <1>4, ObjectsFacts
<1>6. ASSUME NEW u \in 0 .. 48, BareObject(v) \in ObjectsOf[u]
      PROVE  u = v
  <2>1. PICK j \in DOMAIN Program : Ver(j) = u /\ Program[j].obj = BareObject(v)
    BY <1>6, ObjectsFacts
  <2>2. Program[j].op = "bare" /\ u \in {42, 43} /\ BareObject(u) = BareObject(v)
    BY <2>1, ProgramFacts DEF Fit, Ver, BareObjects
  <2>3. QED
    BY <2>2 DEF BareObject
<1>7. QED
  BY <1>5, <1>6

LEMMA SoundIsNotStranded ==
  ASSUME Sound(disk)
  PROVE  ~Stranded
BY BareObjectFacts DEF Sound, Stranded

LEMMA FoundSound ==
  ASSUME NEW s \in 0 .. 46, s \notin {41, 42}, NEW w \in {{}, {17, 19}, {41}}
  PROVE  Sound(DatabaseOf(s, w))
<1> DEFINE d == DatabaseOf(s, w)
<1>1. d.recs = (1 .. s) \ w
      /\ d.objs = UNION {ObjectsOf[v] : v \in (IF s = 0 THEN {} ELSE 0 .. s) \ w}
  BY DEF DatabaseOf
<1> HIDE DEF d
<1>2. ASSUME NEW v \in {42, 43}, BareObject(v) \in d.objs
      PROVE  v \in d.recs
  <2>1. PICK u \in (IF s = 0 THEN {} ELSE 0 .. s) \ w : BareObject(v) \in ObjectsOf[u]
    BY <1>1, <1>2
  <2>2. u \in 0 .. 48
    BY <2>1
  <2>3. u = v
    BY <2>1, <2>2, BareObjectFacts
  <2>4. v \in 1 .. s /\ v \notin w
    BY <2>1, <2>3
  <2>5. QED
    BY <1>1, <2>4
<1>3. ASSUME d.recs \cap {41, 42} # {}
      PROVE  43 \in d.recs
  <2>1. 41 \in 1 .. s \/ 42 \in 1 .. s
    BY <1>1, <1>3
  <2>2. 43 \in 1 .. s
    BY <2>1
  <2>3. 43 \notin w
    OBVIOUS
  <2>4. QED
    BY <1>1, <2>2, <2>3
<1>4. Sound(d)
  BY <1>2, <1>3 DEF Sound
<1>5. QED
  BY <1>4 DEF d

StrandOK ==
  /\ Sound(disk) /\ Sound(main.db) /\ (HasCopy => Sound(copy.db))
  /\ ~damaged => SoundSchema

\* When the steps of a process, not of a restore, keep the schema sound.
LEMMA FilesSound ==
  ASSUME StrandOK, SoundSchema', main' = main \/ main' = Content', copy' = copy,
         \A q \in Procs : stage'[q] = "overwrite" => stage[q] = "overwrite" \/ copy # NoCopy
  PROVE  StrandOK'
<1>1. Sound(disk')
  BY DEF SoundSchema
<1>2. Sound(main'.db)
  <2>1. CASE main' = main
    BY <2>1 DEF StrandOK
  <2>2. CASE main' = Content'
    <3>1. main'.db = disk'
      BY <2>2 DEF Content
    <3>2. QED
      BY <1>1, <3>1
  <2>3. QED
    BY <2>1, <2>2
<1>3. HasCopy' => HasCopy
  BY DEF HasCopy
<1>4. HasCopy' => Sound(copy'.db)
  BY <1>3 DEF StrandOK
<1>5. QED
  BY <1>1, <1>2, <1>4 DEF StrandOK

LEMMA OpensSound ==
  ASSUME IInv, StrandOK, ~damaged, NEW p \in Procs, Opens(p)
  PROVE  StrandOK' /\ start' = start
<1>1. Schema /\ SoundSchema
  BY DEF IInv, StrandOK
<1>2. Connect(p) /\ UNCHANGED <<main, copy, stage>>
  BY DEF Opens
<1>3. SoundSchema' /\ start' = start
  BY <1>1, <1>2, ConnectSound DEF Connect
<1>4. \A q \in Procs : stage'[q] = "overwrite" => stage[q] = "overwrite" \/ copy # NoCopy
  BY <1>2
<1>5. QED
  BY <1>2, <1>3, <1>4, FilesSound

LEMMA ClosesSound ==
  ASSUME IInv, StrandOK, ~damaged, NEW p \in Procs, Runs(p) \/ Leaves(p) \/ Dies(p)
  PROVE  StrandOK' /\ start' = start
<1>1. Schema /\ SoundSchema /\ stage \in [Procs -> {"none", "overwrite", "unlink", "verify"}]
  BY DEF IInv, LocalTypeOK, StrandOK
<1>2. SoundSchema' /\ start' = start
  <2>1. CASE Runs(p)
    BY <1>1, <2>1, ExecuteSound, TimeOutSound DEF Runs, Execute, TimeOut
  <2>2. CASE Leaves(p)
    BY <1>1, <2>2, CloseSound DEF Leaves, Close
  <2>3. CASE Dies(p)
    <3>1. Raise(p) /\ start' = start
      BY <2>3 DEF Dies
    <3>2. StepOK(p)
      BY <1>1, <3>1, RaiseStep DEF Schema
    <3>3. QED
      BY <1>1, <3>1, <3>2, SoundRaise
  <2>4. QED
    BY <2>1, <2>2, <2>3
<1>3. main' = main \/ main' = Content'
  BY DEF Runs, Leaves, Dies, Checkpoints
<1>4. copy' = copy
  BY DEF Runs, Leaves, Dies
<1>5. PICK x \in {"none", stage[p]} : stage' = [stage EXCEPT ![p] = x]
  BY DEF Runs, Leaves, Dies
<1>6. \A q \in Procs : stage'[q] = "overwrite" => stage[q] = "overwrite" \/ copy # NoCopy
  BY <1>1, <1>5
<1>7. QED
  BY <1>2, <1>3, <1>4, <1>6, FilesSound

LEMMA KeepsSound ==
  ASSUME IInv, StrandOK, ~damaged, NEW p \in Procs, Commits(p) \/ Save(p)
  PROVE  StrandOK' /\ start' = start
<1>1. Schema /\ SoundSchema /\ stage \in [Procs -> {"none", "overwrite", "unlink", "verify"}]
  BY DEF IInv, LocalTypeOK, StrandOK
<1>2. UNCHANGED schemaVars /\ main' = main /\ copy' = copy
  BY DEF Commits, Save
<1>3. SoundSchema' /\ start' = start
  BY <1>1, <1>2, SoundSame DEF schemaVars
<1>4. stage' = stage \/ copy # NoCopy
  BY DEF Commits, Save
<1>5. \A q \in Procs : stage'[q] = "overwrite" => stage[q] = "overwrite" \/ copy # NoCopy
  BY <1>4
<1>6. QED
  BY <1>2, <1>3, <1>5, FilesSound

LEMMA BackupSound ==
  ASSUME IInv, StrandOK, ~damaged, NEW p \in Procs, Backup(p)
  PROVE  StrandOK' /\ start' = start
<1>1. UNCHANGED schemaVars /\ copy' = Content /\ main' = main /\ damaged' = damaged
  BY DEF Backup
<1>2. SoundSchema' /\ start' = start
  BY <1>1, SoundSame DEF StrandOK, schemaVars
<1>3. copy'.db = disk /\ disk' = disk
  BY <1>1 DEF Content, schemaVars
<1>4. QED
  BY <1>1, <1>2, <1>3 DEF StrandOK

LEMMA OverwriteSound ==
  ASSUME IInv, StrandOK, ~damaged, NEW p \in Procs, Overwrite(p)
  PROVE  StrandOK' /\ start' = start
<1>1. /\ stage[p] = "overwrite" /\ main' = copy /\ disk' = copy.db
      /\ damaged' = (Attached # {})
      /\ UNCHANGED <<writer, pend, at, seen, start, copy>>
  BY DEF Overwrite
<1>2. Sound(copy.db)
  BY <1>1 DEF StrandOK, HasCopy
<1>3. Schema
  BY DEF IInv
<1>4. ~damaged' => SoundSchema'
  BY <1>1, <1>2, <1>3, SoundReplaced
<1>5. QED
  BY <1>1, <1>2, <1>4 DEF StrandOK

LEMMA UnlinkSound ==
  ASSUME IInv, StrandOK, ~damaged, NEW p \in Procs, Unlink(p)
  PROVE  StrandOK' /\ start' = start
<1>1. /\ stage[p] = "unlink" /\ disk' = main.db /\ damaged' = (Attached # {})
      /\ stage' = [stage EXCEPT ![p] = "verify"]
      /\ UNCHANGED <<writer, pend, at, seen, start, main, copy>>
  BY DEF Unlink
<1>2. Sound(main.db) /\ Schema /\ stage \in [Procs -> {"none", "overwrite", "unlink", "verify"}]
  BY DEF StrandOK, IInv, LocalTypeOK
<1>3. ~damaged' => SoundSchema'
  BY <1>1, <1>2, SoundReplaced
<1>4. HasCopy' => HasCopy
  BY <1>1, <1>2 DEF HasCopy
<1>5. HasCopy' => Sound(copy'.db)
  BY <1>1, <1>4 DEF StrandOK
<1>6. QED
  BY <1>1, <1>2, <1>3, <1>5 DEF StrandOK

LEMMA StutterSound ==
  ASSUME StrandOK, UNCHANGED vars
  PROVE  StrandOK' /\ start' = start
<1>1. UNCHANGED schemaVars /\ UNCHANGED fileVars
  BY DEF vars
<1>2. UNCHANGED <<disk, start, main, copy, stage, damaged>>
  BY <1>1 DEF schemaVars, fileVars
<1>3. ~damaged' => SoundSchema'
  BY <1>1, <1>2, SoundSame DEF StrandOK
<1>4. HasCopy' <=> HasCopy
  BY <1>2 DEF HasCopy
<1>5. QED
  BY <1>2, <1>3, <1>4 DEF StrandOK

StrandInv == start \notin {41, 42} => StrandOK

LEMMA StrandNext == IInv /\ StrandInv /\ [LocalNext]_vars => StrandInv'
<1> SUFFICES ASSUME IInv, StrandInv, [LocalNext]_vars PROVE StrandInv'
  OBVIOUS
<1>1. ASSUME StrandOK
      PROVE  StrandOK' /\ start' = start
  <2>1. CASE UNCHANGED vars
    BY <1>1, <2>1, StutterSound
  <2>2. CASE LocalNext
    <3>1. ~damaged
      BY <2>2 DEF LocalNext
    <3>2. PICK p \in Procs :
            \/ Opens(p) \/ Runs(p) \/ Leaves(p) \/ Dies(p) \/ Commits(p)
            \/ Backup(p) \/ Save(p) \/ Overwrite(p) \/ Unlink(p)
      BY <2>2 DEF LocalNext
    <3>3. QED
      BY <1>1, <3>1, <3>2, OpensSound, ClosesSound, KeepsSound, BackupSound, OverwriteSound,
         UnlinkSound
  <2>3. QED
    BY <2>1, <2>2
<1>2. start' = start
  <2>1. CASE UNCHANGED vars
    BY <2>1 DEF vars, schemaVars
  <2>2. CASE LocalNext
    BY <2>2 DEF LocalNext, Opens, Connect, Runs, Execute, TimeOut, Leaves, Close, Dies, Commits,
       Backup, Save, Overwrite, Unlink, schemaVars
  <2>3. QED
    BY <2>1, <2>2
<1>3. QED
  BY <1>1, <1>2 DEF StrandInv

LEMMA StrandInit ==
  ASSUME \A c \in Cases : c[2] \notin {41, 42}
  PROVE  LocalInit => StrandInv
<1> SUFFICES ASSUME LocalInit, start \notin {41, 42} PROVE StrandOK
  BY DEF StrandInv
<1>1. PICK c \in Cases, w \in {{}, {17, 19}, {41}} :
        /\ InitAt(c[1], w)
        /\ copy = IF c[2] = NoCopy THEN NoCopy ELSE [db |-> DatabaseOf(c[2], {}), rows |-> {}]
  BY DEF LocalInit
<1>2. /\ c[1] \in 0 .. 46 /\ (c[2] # NoCopy => c[2] \in 0 .. 46) /\ c[2] \notin {41, 42}
  BY SchemaStoreAssumption, LocalDataAssumption, Numbers
<1>3. /\ disk = DatabaseOf(c[1], w) /\ start = c[1] /\ writer = NoProc
      /\ at = [p \in Procs |-> Closed]
  BY <1>1 DEF InitAt
<1>4. main = Content /\ stage = [p \in Procs |-> "none"]
  BY DEF LocalInit
<1>5. Sound(disk)
  BY <1>2, <1>3, FoundSound
<1>6. main.db = disk
  BY <1>4 DEF Content
<1>7. HasCopy => Sound(copy.db)
  <2>1. ASSUME HasCopy
        PROVE  copy = [db |-> DatabaseOf(c[2], {}), rows |-> {}] /\ c[2] # NoCopy
    BY <1>1, <1>4, <2>1 DEF HasCopy
  <2>2. c[2] # NoCopy => Sound(DatabaseOf(c[2], {}))
    BY <1>2, FoundSound
  <2>3. QED
    BY <2>1, <2>2
<1>8. SoundSchema
  <2>1. Closed \notin DOMAIN Program
    BY ProgramFacts DEF Closed
  <2>2. \A p \in Procs : SoundProc(p)
    BY <1>3, <2>1 DEF SoundProc, AtBare
  <2>3. QED
    BY <1>3, <1>5, <2>2 DEF SoundSchema
<1>9. QED
  BY <1>5, <1>6, <1>7, <1>8 DEF StrandOK

\* No crash, race or timeout in initialize_schema leaves a column of 42 or 43
\* without its row, which would make every later connect raise.  The database
\* did not come at 41 or 42, nor did a backup that may be restored: from there
\* the ALTER commits by itself, before its row (README, section 5).
THEOREM NeverStrands ==
  ASSUME \A c \in Cases : c[2] \notin {41, 42}
  PROVE  LocalSpec => []NeverStranded
<1>1. LocalInit => StrandInv
  BY StrandInit
<1>2. IInv /\ StrandInv /\ [LocalNext]_vars => StrandInv'
  BY StrandNext
<1>3. StrandInv => NeverStranded
  BY SoundIsNotStranded DEF StrandInv, StrandOK, NeverStranded
<1>4. QED
  BY <1>1, <1>2, <1>3, Inductive, PTL DEF LocalSpec
=============================================================================
