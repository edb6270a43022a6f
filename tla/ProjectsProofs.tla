--------------------------- MODULE ProjectsProofs ---------------------------
(***************************************************************************)
(* Proofs about Projects, for any runs, one after the other or at once,    *)
(* any roots and any bounds.                                               *)
(***************************************************************************)
EXTENDS Projects, NatSets

Labels == {"query", "max", "insert", "create", "ids", "run", "failed", "over"}

TableNames == {"filepaths", "func_calls"}

Roots == {RootOf[p] : p \in Runs}

RowSet == [table : TableNames, project : Nat, id : Nat, by : Runs]

\* The types, where each run is in the loop over the tables, and a bound on the ids.
Typed ==
  /\ pc \in [Runs -> Labels] /\ step \in [Runs -> 1 .. 3]
  /\ project \in [Runs -> Nat] /\ next \in [Runs -> [TableNames -> Nat \ {0}]]
  /\ projects \in SUBSET ((Nat \ {0}) \X Roots)
  /\ rows \in SUBSET RowSet /\ wrote \in [Runs -> SUBSET RowSet]
  /\ lost \in SUBSET Roots /\ raced \in SUBSET Roots /\ shared \in SUBSET Runs
  /\ \A p \in Runs : pc[p] = "run" => step[p] = 3
  /\ \A p \in Runs : pc[p] = "ids" => step[p] # 3
  /\ \A p \in Runs : pc[p] \notin {"ids", "run"} => step[p] = 1
  /\ \A p \in Runs : pc[p] = "insert" \/ Prepared(p) => project[p] # 0

IdsBounded ==
  /\ \E n \in Nat : \A a \in projects : a[1] <= n
  /\ \E n \in Nat : \A r \in rows : r.id <= n

\* An id is the id of one project; a run has found or inserted the row of its project, or
\* the row was lost; and a root has one project, or two runs registered it at once.
ProjectKey == \A a, b \in projects : a[1] = b[1] => a = b

Registered ==
  \A p \in Runs : Prepared(p) => <<project[p], RootOf[p]>> \in projects \/ RootOf[p] \in lost

OneProject ==
  /\ \A a, b \in projects : a[2] = b[2] /\ a[2] \notin raced => a = b
  /\ \A p \in Runs : Registering(p) /\ RootOf[p] \notin raced =>
       /\ \A a \in projects : a[2] # RootOf[p]
       /\ \A q \in Runs : Registering(q) /\ RootOf[q] = RootOf[p] => q = p

\* Who uses the ids of a project at once is known to.
Sharers ==
  \A p, q \in Runs :
    p # q /\ step[p] > 1 /\ step[q] > 1 /\ project[p] = project[q] => p \in shared /\ q \in shared

RowKey ==
  \A a, b \in rows : a.table = b.table /\ a.project = b.project /\ a.id = b.id => a = b

\* The ids a run goes on from are free, but for the rows that runs beside it have written.
Fresh ==
  \A p \in Runs : \A k \in 1 .. step[p] - 1 : \A r \in rows :
    r.table = Tables[k] /\ r.project = project[p] /\ r.id >= next[p][Tables[k]] =>
      p \in shared /\ r.by \in shared

Stays == \A p \in Runs : \A r \in wrote[p] : r.by = p /\ (p \notin shared => r \in rows)

ProjectsInv == /\ Typed /\ IdsBounded /\ ProjectKey /\ Registered /\ OneProject
               /\ Sharers /\ RowKey /\ Fresh /\ Stays

-----------------------------------------------------------------------------
\* What the loop of do_prepare runs over.
LEMMA TheTables ==
  ToSet(Tables) = TableNames /\ Len(Tables) = 2 /\ Tables[1] = "filepaths" /\ Tables[2] = "func_calls"
BY DEF ToSet, Tables, TableNames

\* The greatest of some ids is one of them, or 0 when there is none.
LEMMA MaxIdIs ==
  ASSUME NEW S \in SUBSET Nat, NEW n \in Nat, \A i \in S : i <= n
  PROVE  MaxId(S) \in Nat /\ \A i \in S : i <= MaxId(S)
<1> DEFINE T == S \cup {0}
<1>1. \E x \in T : \A y \in T : y <= x
  <2>1. T \in SUBSET Nat /\ T # {} /\ \A y \in T : y <= n
    OBVIOUS
  <2> HIDE DEF T
  <2> QED BY <2>1, GreatestElement
<1>2. T \in SUBSET Nat
  OBVIOUS
<1>3. Max(T) \in T /\ \A y \in T : Max(T) >= y
  <2> HIDE DEF T
  <2> QED BY <1>1, <1>2 DEF Max
<1> QED BY <1>2, <1>3 DEF MaxId

\* The ids that do_prepare takes: greater than every id in use.
LEMMA NewIds ==
  ASSUME Typed, IdsBounded
  PROVE  /\ LET m == MaxId({row[1] : row \in projects}) IN m \in Nat /\ \A a \in projects : a[1] <= m
         /\ \A t \in TableNames, i \in Nat :
              MaxId(IdsIn(t, i)) \in Nat
              /\ \A r \in rows : r.table = t /\ r.project = i => r.id <= MaxId(IdsIn(t, i))
<1>1. LET m == MaxId({row[1] : row \in projects}) IN m \in Nat /\ \A a \in projects : a[1] <= m
  <2> DEFINE S == {row[1] : row \in projects}
  <2>1. PICK n \in Nat : \A a \in projects : a[1] <= n
    BY DEF IdsBounded
  <2>2. S \in SUBSET Nat /\ \A i \in S : i <= n
    BY <2>1 DEF Typed
  <2>3. \A a \in projects : a[1] \in S
    OBVIOUS
  <2> HIDE DEF S
  <2>4. MaxId(S) \in Nat /\ \A a \in projects : a[1] <= MaxId(S)
    BY <2>2, <2>3, MaxIdIs
  <2> QED BY <2>4 DEF S
<1>2. ASSUME NEW t \in TableNames, NEW i \in Nat
      PROVE  /\ MaxId(IdsIn(t, i)) \in Nat
             /\ \A r \in rows : r.table = t /\ r.project = i => r.id <= MaxId(IdsIn(t, i))
  <2>1. PICK n \in Nat : \A r \in rows : r.id <= n
    BY DEF IdsBounded
  <2>2. IdsIn(t, i) \in SUBSET Nat /\ \A k \in IdsIn(t, i) : k <= n
    BY <2>1 DEF Typed, RowSet, IdsIn
  <2>3. \A r \in rows : r.table = t /\ r.project = i => r.id \in IdsIn(t, i)
    BY DEF IdsIn
  <2> QED BY <2>2, <2>3, MaxIdIs
<1> QED BY <1>1, <1>2

LEMMA ProjectsInit == Init => ProjectsInv
<1> SUFFICES ASSUME Init PROVE ProjectsInv
  OBVIOUS
<1> USE TheTables DEF Init
<1>1. Typed
  <2>1. next \in [Runs -> [TableNames -> Nat \ {0}]]
    OBVIOUS
  <2>2. wrote \in [Runs -> SUBSET RowSet]
    OBVIOUS
  <2> QED BY <2>1, <2>2 DEF Typed, Labels, Prepared
<1>2. IdsBounded
  <2>1. 0 \in Nat /\ projects = {} /\ rows = {}
    OBVIOUS
  <2> QED BY <2>1 DEF IdsBounded
<1> QED BY <1>1, <1>2 DEF ProjectsInv, ProjectKey, Registered, Prepared, OneProject, Registering,
                          Sharers, RowKey, Fresh, Stays

\* A row that a run is about to write, and the rows with its id.
LEMMA RowType ==
  ASSUME Typed, Fresh, NEW p \in Runs, NEW t \in TableNames, pc[p] = "run"
  PROVE  /\ Row(p, t) \in RowSet
         /\ \A r \in Duplicates(Row(p, t)) : r \in rows /\ p \in shared /\ r.by \in shared
<1>1. next[p][t] \in Nat \ {0} /\ project[p] \in Nat /\ step[p] = 3
  BY DEF Typed
<1>2. Row(p, t) \in RowSet
  BY <1>1 DEF Row, RowSet
<1>3. PICK k \in 1 .. step[p] - 1 : t = Tables[k]
  <2>1. 1 \in 1 .. step[p] - 1 /\ 2 \in 1 .. step[p] - 1
    BY <1>1
  <2> QED BY <2>1, TheTables DEF TableNames
<1>4. ASSUME NEW r \in Duplicates(Row(p, t)) PROVE r \in rows /\ p \in shared /\ r.by \in shared
  <2>1. r \in rows /\ r.table = t /\ r.project = project[p] /\ r.id = next[p][t]
    BY DEF Duplicates, Row
  <2>2. r.id >= next[p][t]
    BY <1>1, <2>1
  <2> QED BY <1>3, <2>1, <2>2 DEF Fresh
<1> QED BY <1>2, <1>4

\* The steps of a run, those that write a row taken together.
WriteRow(p, t) ==
  /\ pc[p] = "run" /\ t \in TableNames
  /\ next' = [next EXCEPT ![p][t] = @ + 1]
  /\ wrote' = [wrote EXCEPT ![p] = @ \cup {Row(p, t)}]
  /\ \/ rows' = (rows \ Duplicates(Row(p, t))) \cup {Row(p, t)}
     \/ Duplicates(Row(p, t)) # {} /\ rows' = rows
  /\ UNCHANGED <<pc, step, project, projects, created, lost, raced, shared>>

LEMMA WritesAreWriteRow ==
  ASSUME NEW p \in Runs, ReplaceFilepath(p) \/ InsertFuncCall(p)
  PROVE  \E t \in TableNames : WriteRow(p, t)
<1>1. CASE ReplaceFilepath(p)
  <2>1. WriteRow(p, "filepaths")
    BY <1>1 DEF ReplaceFilepath, WriteRow, MayWrite, Write, Row, TableNames
  <2> QED BY <2>1 DEF TableNames
<1>2. CASE InsertFuncCall(p)
  <2>1. WriteRow(p, "func_calls")
    <3>1. CASE Duplicates(Row(p, "func_calls")) = {}
      BY <1>2, <3>1 DEF InsertFuncCall, WriteRow, MayWrite, Write, Row, TableNames
    <3>2. CASE Duplicates(Row(p, "func_calls")) # {}
      BY <1>2, <3>2 DEF InsertFuncCall, WriteRow, MayWrite, Write, Row, TableNames
    <3> QED BY <3>1, <3>2
  <2> QED BY <2>1 DEF TableNames
<1> QED BY <1>1, <1>2

LEMMA TypedNext == Typed /\ IdsBounded /\ Fresh /\ [Next]_vars => Typed'
<1> SUFFICES ASSUME Typed, IdsBounded, Fresh, [Next]_vars PROVE Typed'
  OBVIOUS
<1> USE TheTables DEF Typed, Labels, Prepared, GoTo, history, database
<1>1. ASSUME NEW p \in Runs, FindProject(p) PROVE Typed'
  BY <1>1 DEF FindProject, IdsOf
<1>2. ASSUME NEW p \in Runs, MissProject(p) PROVE Typed'
  BY <1>2 DEF MissProject, Roots
<1>3. ASSUME NEW p \in Runs, QueryMaxProject(p) PROVE Typed'
  <2> DEFINE m == MaxId({row[1] : row \in projects})
  <2>1. m \in Nat
    BY NewIds
  <2> HIDE DEF m
  <2>2. project' = [project EXCEPT ![p] = m + 1]
    BY <1>3 DEF QueryMaxProject, m
  <2>3. /\ pc[p] = "max" /\ pc' = [pc EXCEPT ![p] = "insert"]
        /\ UNCHANGED <<step, next, projects, rows, wrote, lost, raced, shared>>
    BY <1>3 DEF QueryMaxProject
  <2>4. project' \in [Runs -> Nat] /\ project'[p] # 0
        /\ \A q \in Runs : q # p => project'[q] = project[q]
    BY <2>1, <2>2
  <2> QED BY <2>3, <2>4
<1>4. ASSUME NEW p \in Runs, InsertProject(p) PROVE Typed'
  <2>1. projects' \in SUBSET ((Nat \ {0}) \X Roots)
    <3>1. RootOf[p] \in Roots /\ project[p] \in Nat \ {0}
      BY <1>4 DEF InsertProject, Roots
    <3> QED BY <1>4, <3>1 DEF InsertProject
  <2>2. /\ pc[p] = "insert"
        /\ pc' = [pc EXCEPT ![p] = "failed"] \/ pc' = [pc EXCEPT ![p] = "create"]
        /\ UNCHANGED <<step, project, next, rows, wrote, lost, raced, shared>>
    BY <1>4 DEF InsertProject
  <2> QED BY <2>1, <2>2
<1>5. ASSUME NEW p \in Runs, LoseProject(p) PROVE Typed'
  BY <1>5 DEF LoseProject, Roots
<1>6. ASSUME NEW p \in Runs, CreateTables(p) PROVE Typed'
  BY <1>6 DEF CreateTables
<1>7. ASSUME NEW p \in Runs, QueryMaxIds(p) PROVE Typed'
  <2> DEFINE t == Tables[step[p]]
             m == MaxId(IdsIn(t, project[p]))
  <2>1. step[p] \in {1, 2} /\ project[p] \in Nat /\ t \in TableNames
    BY <1>7 DEF QueryMaxIds, TableNames
  <2>2. m \in Nat
    BY <2>1, NewIds
  <2>3. next' = [next EXCEPT ![p][t] = m + 1]
    BY <1>7 DEF QueryMaxIds
  <2> HIDE DEF m, t
  <2>4. next' \in [Runs -> [TableNames -> Nat \ {0}]]
    BY <2>1, <2>2, <2>3
  <2>5. shared' \in SUBSET Runs
    BY <1>7 DEF QueryMaxIds
  <2>6. /\ step' = [step EXCEPT ![p] = @ + 1]
        /\ pc' = IF step[p] < 2 THEN pc ELSE [pc EXCEPT ![p] = "run"]
        /\ pc[p] = "ids"
        /\ UNCHANGED <<project, projects, rows, wrote, lost, raced>>
    BY <1>7 DEF QueryMaxIds
  <2> QED BY <2>1, <2>4, <2>5, <2>6
<1>8. ASSUME NEW p \in Runs, NEW t \in TableNames, WriteRow(p, t) PROVE Typed'
  <2>1. Row(p, t) \in RowSet
    BY <1>8, RowType DEF WriteRow
  <2>2. next' \in [Runs -> [TableNames -> Nat \ {0}]]
    BY <1>8 DEF WriteRow
  <2>3. rows' \in SUBSET RowSet /\ wrote' \in [Runs -> SUBSET RowSet]
    BY <1>8, <2>1 DEF WriteRow
  <2> QED BY <1>8, <2>2, <2>3 DEF WriteRow
<1>9. ASSUME NEW p \in Runs, SkipId(p) PROVE Typed'
  <2>1. next' \in [Runs -> [TableNames -> Nat \ {0}]]
    BY <1>9 DEF SkipId, TableNames
  <2> QED BY <1>9, <2>1 DEF SkipId
<1>10. ASSUME NEW p \in Runs, End(p) PROVE Typed'
  <2>1. next' \in [Runs -> [TableNames -> Nat \ {0}]]
    BY <1>10 DEF End
  <2> QED BY <1>10, <2>1 DEF End
<1>11. CASE UNCHANGED vars
  BY <1>11 DEF vars
<1> QED
  BY <1>1, <1>2, <1>3, <1>4, <1>5, <1>6, <1>7, <1>8, <1>9, <1>10, <1>11, WritesAreWriteRow DEF Next

\* A new project, or a new row, has one id.
LEMMA BoundedNext == Typed /\ IdsBounded /\ Fresh /\ [Next]_vars => IdsBounded'
<1> SUFFICES ASSUME Typed, IdsBounded, Fresh, [Next]_vars PROVE IdsBounded'
  OBVIOUS
<1> USE DEF GoTo, history, database
<1>1. PICK m \in Nat : \A a \in projects : a[1] <= m
  BY DEF IdsBounded
<1>2. PICK n \in Nat : \A r \in rows : r.id <= n
  BY DEF IdsBounded
<1>3. ASSUME UNCHANGED <<projects, rows>> PROVE IdsBounded'
  BY <1>3 DEF IdsBounded
<1>4. ASSUME NEW p \in Runs, InsertProject(p) PROVE IdsBounded'
  <2>1. rows' = rows /\ projects' \subseteq projects \cup {<<project[p], RootOf[p]>>}
    BY <1>4 DEF InsertProject
  <2>2. project[p] \in Nat
    BY DEF Typed
  <2>3. m + project[p] \in Nat /\ \A a \in projects' : a[1] <= m + project[p]
    BY <1>1, <2>1, <2>2 DEF Typed
  <2> QED BY <1>2, <2>1, <2>3 DEF IdsBounded
<1>5. ASSUME NEW p \in Runs, NEW t \in TableNames, WriteRow(p, t) PROVE IdsBounded'
  <2>1. projects' = projects /\ rows' \subseteq rows \cup {Row(p, t)}
    BY <1>5 DEF WriteRow
  <2>2. next[p][t] \in Nat /\ Row(p, t).id = next[p][t]
    BY DEF Typed, Row
  <2>3. n + next[p][t] \in Nat /\ \A r \in rows' : r.id <= n + next[p][t]
    BY <1>2, <2>1, <2>2 DEF Typed, RowSet
  <2> QED BY <1>1, <2>1, <2>3 DEF IdsBounded
<1>6. ASSUME NEW p \in Runs,
             \/ FindProject(p) \/ MissProject(p) \/ QueryMaxProject(p) \/ LoseProject(p)
             \/ CreateTables(p) \/ QueryMaxIds(p) \/ SkipId(p) \/ End(p)
      PROVE  UNCHANGED <<projects, rows>>
  BY <1>6 DEF FindProject, MissProject, QueryMaxProject, LoseProject, CreateTables,
              QueryMaxIds, SkipId, End
<1>7. CASE UNCHANGED vars
  BY <1>3, <1>7 DEF vars
<1> QED BY <1>3, <1>4, <1>5, <1>6, <1>7, WritesAreWriteRow DEF Next

-----------------------------------------------------------------------------
(* The projects                                                             *)

\* The primary key of table projects: a project_id that is taken is not inserted again.
LEMMA ProjectKeyNext == ProjectKey /\ [Next]_vars => ProjectKey'
<1> SUFFICES ASSUME ProjectKey, [Next]_vars PROVE ProjectKey'
  OBVIOUS
<1> USE DEF GoTo, history, database
<1>1. ASSUME UNCHANGED projects PROVE ProjectKey'
  BY <1>1 DEF ProjectKey
<1>2. ASSUME NEW p \in Runs, InsertProject(p) PROVE ProjectKey'
  <2>1. CASE project[p] \in {row[1] : row \in projects}
    BY <1>1, <1>2, <2>1 DEF InsertProject
  <2>2. CASE project[p] \notin {row[1] : row \in projects}
    <3>1. projects' = projects \cup {<<project[p], RootOf[p]>>}
      BY <1>2, <2>2 DEF InsertProject
    <3>2. \A a \in projects : a[1] # project[p]
      BY <2>2
    <3> QED BY <3>1, <3>2 DEF ProjectKey
  <2> QED BY <2>1, <2>2
<1>3. ASSUME NEW p \in Runs,
             \/ FindProject(p) \/ MissProject(p) \/ QueryMaxProject(p) \/ LoseProject(p)
             \/ CreateTables(p) \/ QueryMaxIds(p) \/ ReplaceFilepath(p) \/ InsertFuncCall(p)
             \/ SkipId(p) \/ End(p)
      PROVE  UNCHANGED projects
  BY <1>3 DEF FindProject, MissProject, QueryMaxProject, LoseProject, CreateTables,
              QueryMaxIds, ReplaceFilepath, InsertFuncCall, Write, SkipId, End
<1>4. CASE UNCHANGED vars
  BY <1>1, <1>4 DEF vars
<1> QED BY <1>1, <1>2, <1>3, <1>4 DEF Next

\* do_prepare goes on with an id that it read with its root or inserted with it, or lost.
LEMMA RegisteredNext == Typed /\ Registered /\ [Next]_vars => Registered'
<1> SUFFICES ASSUME Typed, Registered, [Next]_vars PROVE Registered'
  OBVIOUS
<1> USE DEF GoTo, history, database, Prepared
<1>0. pc \in [Runs -> Labels] /\ project \in [Runs -> Nat]
  BY DEF Typed
<1>1. ASSUME NEW p \in Runs, FindProject(p) PROVE Registered'
  <2>1. PICK i \in IdsOf(RootOf[p]) : project' = [project EXCEPT ![p] = i]
    BY <1>1 DEF FindProject
  <2>2. <<i, RootOf[p]>> \in projects
    <3>1. PICK a \in projects : a[2] = RootOf[p] /\ i = a[1]
      BY DEF IdsOf
    <3>2. a = <<a[1], a[2]>>
      BY DEF Typed
    <3> QED BY <3>1, <3>2
  <2>3. i \in Nat
    BY <2>2 DEF Typed
  <2>4. UNCHANGED <<projects, lost>> /\ pc' = [pc EXCEPT ![p] = "create"]
    BY <1>1 DEF FindProject
  <2> QED BY <1>0, <2>1, <2>2, <2>3, <2>4 DEF Registered
<1>2. ASSUME NEW p \in Runs, MissProject(p) \/ QueryMaxProject(p) \/ CreateTables(p) \/ End(p)
      PROVE  Registered'
  <2>1. UNCHANGED <<projects, lost>>
    BY <1>2 DEF MissProject, QueryMaxProject, CreateTables, End
  <2>2. \A q \in Runs : Prepared(q)' => Prepared(q) /\ project'[q] = project[q]
    <3>1. CASE MissProject(p) \/ CreateTables(p)
      <4>1. project' = project /\ \A q \in Runs : q # p => pc'[q] = pc[q]
        BY <1>0, <3>1 DEF MissProject, CreateTables
      <4>2. Prepared(p)' => Prepared(p)
        BY <1>0, <3>1 DEF MissProject, CreateTables
      <4> QED BY <4>1, <4>2
    <3>2. CASE QueryMaxProject(p) \/ End(p)
      <4>1. ~Prepared(p)' /\ \A q \in Runs : q # p => pc'[q] = pc[q] /\ project'[q] = project[q]
        BY <1>0, <3>2 DEF QueryMaxProject, End, Labels
      <4> QED BY <4>1
    <3> QED BY <1>2, <3>1, <3>2
  <2> QED BY <2>1, <2>2 DEF Registered
<1>3. ASSUME NEW p \in Runs, InsertProject(p) PROVE Registered'
  <2>1. UNCHANGED <<project, lost>> /\ projects \subseteq projects'
    BY <1>3 DEF InsertProject
  <2>2. \/ pc' = [pc EXCEPT ![p] = "failed"]
        \/ pc' = [pc EXCEPT ![p] = "create"] /\ <<project[p], RootOf[p]>> \in projects'
    BY <1>3 DEF InsertProject
  <2>3. \A q \in Runs : Prepared(q)' => Prepared(q) \/ (q = p /\ <<project[p], RootOf[p]>> \in projects')
    BY <1>0, <2>2
  <2> QED BY <2>1, <2>3 DEF Registered
<1>4. ASSUME NEW p \in Runs, LoseProject(p) PROVE Registered'
  BY <1>0, <1>4 DEF LoseProject, Registered, Labels
<1>5. ASSUME NEW p \in Runs,
             QueryMaxIds(p) \/ ReplaceFilepath(p) \/ InsertFuncCall(p) \/ SkipId(p)
      PROVE  Registered'
  <2>1. UNCHANGED <<project, projects, lost>>
    BY <1>5 DEF QueryMaxIds, ReplaceFilepath, InsertFuncCall, Write, SkipId
  <2>2. \A q \in Runs : Prepared(q)' => Prepared(q)
    BY <1>0, <1>5 DEF QueryMaxIds, ReplaceFilepath, InsertFuncCall, MayWrite, Write, SkipId, Labels
  <2> QED BY <2>1, <2>2 DEF Registered
<1>6. CASE UNCHANGED vars
  BY <1>6 DEF vars, Registered
<1> QED BY <1>1, <1>2, <1>3, <1>4, <1>5, <1>6 DEF Next

\* A run that registers its root found no project of it, and nobody else registers it, or
\* the root is known to be raced for.
LEMMA OneProjectNext == Typed /\ OneProject /\ [Next]_vars => OneProject'
<1> SUFFICES ASSUME Typed, OneProject, [Next]_vars PROVE OneProject'
  OBVIOUS
<1> USE DEF GoTo, history, database, Registering
<1>0. pc \in [Runs -> Labels]
  BY DEF Typed
<1>1. ASSUME UNCHANGED <<projects, raced>>, \A q \in Runs : Registering(q)' => Registering(q)
      PROVE  OneProject'
  BY <1>1 DEF OneProject
<1>2. ASSUME NEW p \in Runs, MissProject(p) PROVE OneProject'
  <2>1. projects' = projects /\ raced \subseteq raced' /\ \A a \in projects : a[2] # RootOf[p]
    BY <1>2 DEF MissProject, IdsOf
  <2>2. \A q \in Runs : Registering(q)' <=> Registering(q) \/ q = p
    BY <1>0, <1>2 DEF MissProject, Labels
  <2>3. RootOf[p] \notin raced' => \A q \in Runs : Registering(q) => RootOf[q] # RootOf[p]
    BY <1>2 DEF MissProject
  <2>4. ~Registering(p)
    BY <1>2 DEF MissProject
  <2> HIDE DEF Registering
  <2> QED BY <2>1, <2>2, <2>3, <2>4 DEF OneProject
<1>3. ASSUME NEW p \in Runs, InsertProject(p) PROVE OneProject'
  <2>1. /\ Registering(p) /\ raced' = raced
        /\ projects' \subseteq projects \cup {<<project[p], RootOf[p]>>}
    BY <1>3 DEF InsertProject
  <2>2. \A q \in Runs : Registering(q)' => Registering(q) /\ q # p
    BY <1>0, <1>3 DEF InsertProject, Labels
  <2> HIDE DEF Registering
  <2> QED BY <2>1, <2>2 DEF OneProject
<1>4. ASSUME NEW p \in Runs,
             \/ FindProject(p) \/ QueryMaxProject(p) \/ LoseProject(p) \/ CreateTables(p)
             \/ QueryMaxIds(p) \/ ReplaceFilepath(p) \/ InsertFuncCall(p) \/ SkipId(p) \/ End(p)
      PROVE  OneProject'
  <2>1. UNCHANGED <<projects, raced>>
    BY <1>4 DEF FindProject, QueryMaxProject, LoseProject, CreateTables, QueryMaxIds,
                ReplaceFilepath, InsertFuncCall, Write, SkipId, End
  <2>2. \A q \in Runs : Registering(q)' => Registering(q)
    BY <1>0, <1>4 DEF FindProject, QueryMaxProject, LoseProject, CreateTables, QueryMaxIds,
                ReplaceFilepath, InsertFuncCall, Write, SkipId, End, Labels
  <2> QED BY <1>1, <2>1, <2>2
<1>5. CASE UNCHANGED vars
  BY <1>1, <1>5 DEF vars
<1> QED BY <1>2, <1>3, <1>4, <1>5 DEF Next

\* A root that nobody raced for and an id belong to each other, and a run has both.
LEMMA RegisteredMatches == Registered /\ ProjectKey /\ OneProject => ProjectsMatchRoots
<1> SUFFICES ASSUME Registered, ProjectKey, OneProject, NEW p \in Runs, NEW q \in Runs,
                    Prepared(p), Prepared(q), lost = {}
             PROVE  /\ project[p] = project[q] => RootOf[p] = RootOf[q]
                    /\ RootOf[p] = RootOf[q] /\ RootOf[p] \notin raced => project[p] = project[q]
  BY DEF ProjectsMatchRoots
<1>1. <<project[p], RootOf[p]>> \in projects /\ <<project[q], RootOf[q]>> \in projects
  BY DEF Registered
<1>2. project[p] = project[q] => RootOf[p] = RootOf[q]
  BY <1>1 DEF ProjectKey
<1>3. RootOf[p] = RootOf[q] /\ RootOf[p] \notin raced => project[p] = project[q]
  BY <1>1 DEF OneProject
<1> QED BY <1>2, <1>3

-----------------------------------------------------------------------------
(* The rows                                                                 *)

\* Whoever begins to use the ids of a project finds out who does already.
LEMMA SharersNext == Typed /\ Sharers /\ [Next]_vars => Sharers'
<1> SUFFICES ASSUME Typed, Sharers, [Next]_vars PROVE Sharers'
  OBVIOUS
<1> USE DEF GoTo, history, database
<1>0. /\ step \in [Runs -> 1 .. 3] /\ project \in [Runs -> Nat]
      /\ \A p \in Runs : pc[p] \notin {"ids", "run"} => step[p] = 1
      /\ \A p \in Runs : pc[p] = "run" => step[p] = 3
  BY DEF Typed
<1>1. ASSUME \A p \in Runs : step'[p] > 1 => step[p] > 1 /\ project'[p] = project[p],
             shared \subseteq shared'
      PROVE  Sharers'
  BY <1>1 DEF Sharers
<1>2. ASSUME NEW p \in Runs, FindProject(p) \/ QueryMaxProject(p) PROVE Sharers'
  <2>1. step[p] = 1 /\ UNCHANGED <<step, shared>>
    BY <1>0, <1>2 DEF FindProject, QueryMaxProject
  <2>2. \A q \in Runs : q # p => project'[q] = project[q]
    BY <1>0, <1>2 DEF FindProject, QueryMaxProject
  <2> QED BY <1>1, <2>1, <2>2
<1>3. ASSUME NEW p \in Runs, QueryMaxIds(p) PROVE Sharers'
  <2> DEFINE others == {q \in Runs \ {p} : UsesIds(q) /\ project[q] = project[p]}
  <2>1. /\ project' = project /\ shared \subseteq shared'
        /\ others # {} => others \cup {p} \subseteq shared'
    BY <1>3 DEF QueryMaxIds
  <2>2. \A q \in Runs : q # p => step'[q] = step[q]
    BY <1>0, <1>3 DEF QueryMaxIds
  <2>3. \A q \in Runs \ {p} : step[q] > 1 /\ project[q] = project[p] => q \in others
    BY <1>0 DEF UsesIds
  <2> HIDE DEF others
  <2>4. ASSUME NEW q \in Runs \ {p}, step'[q] > 1, project[q] = project[p]
        PROVE  p \in shared' /\ q \in shared'
    BY <2>1, <2>2, <2>3, <2>4
  <2> QED BY <2>1, <2>2, <2>4 DEF Sharers
<1>4. ASSUME NEW p \in Runs, End(p) PROVE Sharers'
  <2>1. step'[p] = 1 /\ shared' = shared
    BY <1>0, <1>4 DEF End
  <2>2. \A q \in Runs : q # p => step'[q] = step[q] /\ project'[q] = project[q]
    BY <1>0, <1>4 DEF End
  <2> QED BY <1>1, <2>1, <2>2
<1>5. ASSUME NEW p \in Runs,
             \/ MissProject(p) \/ InsertProject(p) \/ LoseProject(p) \/ CreateTables(p)
             \/ ReplaceFilepath(p) \/ InsertFuncCall(p) \/ SkipId(p)
      PROVE  UNCHANGED <<step, project, shared>>
  BY <1>5 DEF MissProject, InsertProject, LoseProject, CreateTables, ReplaceFilepath,
              InsertFuncCall, Write, SkipId
<1>6. CASE UNCHANGED vars
  BY <1>1, <1>6 DEF vars
<1> QED BY <1>1, <1>2, <1>3, <1>4, <1>5, <1>6 DEF Next

\* REPLACE and INSERT IGNORE keep the ids keys.
LEMMA RowKeyNext == RowKey /\ [Next]_vars => RowKey'
<1> SUFFICES ASSUME RowKey, [Next]_vars PROVE RowKey'
  OBVIOUS
<1> USE DEF GoTo, history, database
<1>1. ASSUME UNCHANGED rows PROVE RowKey'
  BY <1>1 DEF RowKey
<1>2. ASSUME NEW p \in Runs, NEW t \in TableNames, WriteRow(p, t) PROVE RowKey'
  <2>1. CASE rows' = rows
    BY <1>1, <2>1
  <2>2. CASE rows' = (rows \ Duplicates(Row(p, t))) \cup {Row(p, t)}
    BY <2>2 DEF RowKey, Duplicates
  <2> QED BY <1>2, <2>1, <2>2 DEF WriteRow
<1>3. ASSUME NEW p \in Runs,
             \/ FindProject(p) \/ MissProject(p) \/ QueryMaxProject(p) \/ InsertProject(p)
             \/ LoseProject(p) \/ CreateTables(p) \/ QueryMaxIds(p) \/ SkipId(p) \/ End(p)
      PROVE  UNCHANGED rows
  BY <1>3 DEF FindProject, MissProject, QueryMaxProject, InsertProject, LoseProject,
              CreateTables, QueryMaxIds, SkipId, End
<1>4. CASE UNCHANGED vars
  BY <1>1, <1>4 DEF vars
<1> QED BY <1>1, <1>2, <1>3, <1>4, WritesAreWriteRow DEF Next

\* The ids that a run goes on from come after all the rows, but for those of its sharers.
LEMMA FreshNext == Typed /\ IdsBounded /\ Sharers /\ Fresh /\ [Next]_vars => Fresh'
<1> SUFFICES ASSUME Typed, IdsBounded, Sharers, Fresh, [Next]_vars PROVE Fresh'
  OBVIOUS
<1> USE TheTables DEF GoTo, history, database
<1>0. /\ step \in [Runs -> 1 .. 3] /\ project \in [Runs -> Nat]
      /\ next \in [Runs -> [TableNames -> Nat \ {0}]]
      /\ \A p \in Runs : pc[p] \notin {"ids", "run"} => step[p] = 1
      /\ \A p \in Runs : pc[p] = "run" => step[p] = 3
      /\ \A r \in rows : r.id \in Nat
      /\ \A p \in Runs : \A k \in 1 .. step[p] - 1 : Tables[k] \in TableNames
  BY DEF Typed, TableNames, RowSet
<1>1. ASSUME \A p \in Runs : step'[p] > 1 =>
               step'[p] = step[p] /\ project'[p] = project[p] /\ next'[p] = next[p],
             step' \in [Runs -> 1 .. 3], rows' = rows, shared \subseteq shared'
      PROVE  Fresh'
  <2> SUFFICES ASSUME NEW p \in Runs, NEW k \in 1 .. step'[p] - 1, NEW r \in rows,
                      r.table = Tables[k], r.project = project'[p], r.id >= next'[p][Tables[k]]
               PROVE  p \in shared /\ r.by \in shared
    BY <1>1 DEF Fresh
  <2>1. step'[p] = step[p] /\ project'[p] = project[p] /\ next'[p] = next[p]
    <3>1. step'[p] > 1
      BY <1>1
    <3> QED BY <1>1, <3>1
  <2> QED BY <2>1 DEF Fresh

<1>2. ASSUME NEW p \in Runs, FindProject(p) \/ QueryMaxProject(p) PROVE Fresh'
  <2>1. step[p] = 1 /\ UNCHANGED <<step, next, rows, shared>>
    BY <1>0, <1>2 DEF FindProject, QueryMaxProject
  <2>2. \A q \in Runs : q # p => project'[q] = project[q]
    BY <1>0, <1>2 DEF FindProject, QueryMaxProject
  <2> QED BY <1>0, <1>1, <2>1, <2>2
<1>3. ASSUME NEW p \in Runs, QueryMaxIds(p) PROVE Fresh'
  <2> DEFINE t == Tables[step[p]]
  <2>1. step[p] \in {1, 2} /\ t \in TableNames
    BY <1>3 DEF Typed, QueryMaxIds, TableNames
  <2>2. /\ UNCHANGED <<project, rows>> /\ shared \subseteq shared'
        /\ step' = [step EXCEPT ![p] = @ + 1]
        /\ next' = [next EXCEPT ![p][t] = MaxId(IdsIn(t, project[p])) + 1]
    BY <1>3 DEF QueryMaxIds
  <2>3. MaxId(IdsIn(t, project[p])) \in Nat
        /\ \A r \in rows : r.table = t /\ r.project = project[p] => r.id <= MaxId(IdsIn(t, project[p]))
    BY <1>0, <2>1, NewIds
  <2>4. \A r \in rows : r.table = t /\ r.project = project[p] => ~(r.id >= next'[p][t])
    BY <1>0, <2>1, <2>2, <2>3
  <2> SUFFICES ASSUME NEW q \in Runs, NEW k \in 1 .. step'[q] - 1, NEW r \in rows,
                      r.table = Tables[k], r.project = project[q], r.id >= next'[q][Tables[k]]
               PROVE  q \in shared /\ r.by \in shared
    BY <2>2 DEF Fresh
  <2>5. CASE q = p /\ k = step[p]
    BY <2>4, <2>5
  <2>6. CASE ~(q = p /\ k = step[p])
    <3>1. k \in 1 .. step[q] - 1
      BY <1>0, <2>2, <2>6
    <3>2. q = p => Tables[k] # t
      BY <1>0, <2>1, <2>6, <3>1
    <3>3. next'[q][Tables[k]] = next[q][Tables[k]]
      BY <1>0, <2>1, <2>2, <3>1, <3>2
    <3> QED BY <3>1, <3>3 DEF Fresh
  <2> QED BY <2>5, <2>6
<1>4. ASSUME NEW p \in Runs, NEW t \in TableNames, WriteRow(p, t) PROVE Fresh'
  <2>1. /\ UNCHANGED <<step, project, shared>> /\ rows' \subseteq rows \cup {Row(p, t)}
        /\ next' = [next EXCEPT ![p][t] = @ + 1] /\ step[p] = 3
    BY <1>0, <1>4 DEF WriteRow
  <2>2. /\ Row(p, t).table = t /\ Row(p, t).project = project[p]
        /\ Row(p, t).id = next[p][t] /\ Row(p, t).by = p
    BY DEF Row
  <2>3. \A q \in Runs, u \in TableNames : next'[q][u] = IF q = p /\ u = t THEN next[q][u] + 1 ELSE next[q][u]
    BY <1>0, <2>1
  <2> SUFFICES ASSUME NEW q \in Runs, NEW k \in 1 .. step[q] - 1, NEW r \in rows',
                      r.table = Tables[k], r.project = project[q], r.id >= next'[q][Tables[k]]
               PROVE  q \in shared /\ r.by \in shared
    BY <2>1 DEF Fresh
  <2>4. Tables[k] \in TableNames
    BY <1>0
  <2>5. CASE r \in rows
    <3>1. r.id >= next[q][Tables[k]]
      BY <1>0, <2>3, <2>4, <2>5
    <3> QED BY <2>5, <3>1 DEF Fresh
  <2>6. CASE r = Row(p, t)
    <3>1. q # p
      BY <1>0, <2>2, <2>3, <2>4, <2>6
    <3>2. step[q] > 1 /\ step[p] > 1 /\ project[q] = project[p]
      BY <1>0, <2>1, <2>2, <2>6
    <3> QED BY <2>2, <2>6, <3>1, <3>2 DEF Sharers
  <2> QED BY <2>1, <2>5, <2>6
<1>5. ASSUME NEW p \in Runs, SkipId(p) PROVE Fresh'
  <2>1. /\ UNCHANGED <<step, project, rows, shared>>
        /\ \A q \in Runs, u \in TableNames : next'[q][u] >= next[q][u]
    BY <1>0, <1>5 DEF SkipId, TableNames
  <2>2. \A q \in Runs, u \in TableNames : next'[q][u] \in Nat
    BY <1>0, <1>5 DEF SkipId, TableNames
  <2> SUFFICES ASSUME NEW q \in Runs, NEW k \in 1 .. step[q] - 1, NEW r \in rows,
                      r.table = Tables[k], r.project = project[q], r.id >= next'[q][Tables[k]]
               PROVE  q \in shared /\ r.by \in shared
    BY <2>1 DEF Fresh
  <2>3. r.id >= next[q][Tables[k]]
    BY <1>0, <2>1, <2>2
  <2> QED BY <2>3 DEF Fresh
<1>6. ASSUME NEW p \in Runs, End(p) PROVE Fresh'
  <2>1. step' = [step EXCEPT ![p] = 1] /\ UNCHANGED <<rows, shared>>
    BY <1>6 DEF End
  <2>2. \A q \in Runs : q # p => next'[q] = next[q] /\ project'[q] = project[q]
    BY <1>0, <1>6 DEF End
  <2> QED BY <1>0, <1>1, <2>1, <2>2
<1>7. ASSUME NEW p \in Runs, MissProject(p) \/ InsertProject(p) \/ LoseProject(p) \/ CreateTables(p)
      PROVE  UNCHANGED <<step, project, next, rows, shared>>
  BY <1>7 DEF MissProject, InsertProject, LoseProject, CreateTables
<1>8. ASSUME UNCHANGED <<step, project, next, rows, shared>> PROVE Fresh'
  BY <1>8 DEF Fresh
<1>9. CASE UNCHANGED vars
  BY <1>8, <1>9 DEF vars
<1> QED BY <1>2, <1>3, <1>4, <1>5, <1>6, <1>7, <1>8, <1>9, WritesAreWriteRow DEF Next

\* A row stays where it was written: only the rows of sharers are ever in the way.
LEMMA StaysNext == Typed /\ Fresh /\ Stays /\ [Next]_vars => Stays'
<1> SUFFICES ASSUME Typed, Fresh, Stays, [Next]_vars PROVE Stays'
  OBVIOUS
<1> USE DEF GoTo, history, database
<1>1. ASSUME UNCHANGED <<rows, wrote>>, shared \subseteq shared' PROVE Stays'
  BY <1>1 DEF Stays
<1>2. ASSUME NEW p \in Runs, NEW t \in TableNames, WriteRow(p, t) PROVE Stays'
  <2>1. \A r \in Duplicates(Row(p, t)) : p \in shared /\ r.by \in shared
    BY <1>2, RowType DEF WriteRow
  <2>2. wrote \in [Runs -> SUBSET RowSet] /\ shared' = shared
    BY <1>2 DEF Typed, WriteRow
  <2>3. \A q \in Runs : wrote'[q] = IF q = p THEN wrote[q] \cup {Row(p, t)} ELSE wrote[q]
    BY <1>2, <2>2 DEF WriteRow
  <2>4. Row(p, t).by = p
    BY DEF Row
  <2>5. p \notin shared => Row(p, t) \in rows'
    BY <1>2, <2>1 DEF WriteRow
  <2>6. \A r \in rows : r.by \notin shared => r \in rows'
    BY <1>2, <2>1 DEF WriteRow
  <2> SUFFICES ASSUME NEW q \in Runs, NEW r \in wrote'[q]
               PROVE  r.by = q /\ (q \notin shared => r \in rows')
    BY <2>2 DEF Stays
  <2>7. CASE r \in wrote[q]
    BY <2>6, <2>7 DEF Stays
  <2>8. CASE q = p /\ r = Row(p, t)
    BY <2>4, <2>5, <2>8
  <2> QED BY <2>3, <2>7, <2>8
<1>3. ASSUME NEW p \in Runs,
             \/ FindProject(p) \/ MissProject(p) \/ QueryMaxProject(p) \/ InsertProject(p)
             \/ LoseProject(p) \/ CreateTables(p) \/ QueryMaxIds(p) \/ SkipId(p) \/ End(p)
      PROVE  UNCHANGED <<rows, wrote>> /\ shared \subseteq shared'
  BY <1>3 DEF FindProject, MissProject, QueryMaxProject, InsertProject, LoseProject,
              CreateTables, QueryMaxIds, SkipId, End
<1>4. CASE UNCHANGED vars
  BY <1>1, <1>4 DEF vars
<1> QED BY <1>1, <1>2, <1>3, <1>4, WritesAreWriteRow DEF Next

\* The invariant holds in every behaviour.
LEMMA ProjectsInvariant == Spec => []ProjectsInv
<1>1. ProjectsInv /\ [Next]_vars => ProjectsInv'
  BY TypedNext, BoundedNext, ProjectKeyNext, RegisteredNext, OneProjectNext, SharersNext,
     RowKeyNext, FreshNext, StaysNext DEF ProjectsInv
<1> QED BY <1>1, ProjectsInit, PTL DEF Spec

-----------------------------------------------------------------------------
\* Every variable has its type: a run past its registration has a project_id greater than
\* 0 (IndexCtx.h:166), and the keys of the tables are keys whatever runs write at once.
THEOREM ProjectsTypes == Spec => []TypeOK
<1>1. ProjectsInv => TypeOK
  <2> SUFFICES ASSUME ProjectsInv PROVE TypeOK
    OBVIOUS
  <2>1. Typed /\ ProjectKey /\ RowKey
    BY DEF ProjectsInv
  <2>2. /\ pc \in [Runs -> {"query", "max", "insert", "create", "ids", "run", "failed", "over"}]
        /\ step \in [Runs -> 1 .. Len(Tables) + 1]
        /\ project \in [Runs -> Nat] /\ \A p \in Runs : Prepared(p) => project[p] > 0
        /\ next \in [Runs -> [ToSet(Tables) -> Nat \ {0}]]
    <3>1. Len(Tables) + 1 = 3 /\ ToSet(Tables) = TableNames
      BY TheTables
    <3>2. \A p \in Runs : Prepared(p) => project[p] > 0
      BY <2>1 DEF Typed
    <3> QED BY <2>1, <3>1, <3>2 DEF Typed, Labels
  <2>3. lost \cup raced \subseteq {RootOf[p] : p \in Runs} /\ shared \subseteq Runs
    BY <2>1 DEF Typed, Roots
  <2> QED BY <2>1, <2>2, <2>3 DEF TypeOK, ProjectKey, RowKey
<1> QED BY <1>1, ProjectsInvariant, PTL

\* A project indexes one root and a root has one project, for any runs that do_prepare at
\* once and end anywhere, unless an INSERT was lost or the root was raced for
\* (Main.cc:742-787).
THEOREM RootsHaveProjects == Spec => []ProjectsMatchRoots
<1>1. ProjectsInv => ProjectsMatchRoots
  BY RegisteredMatches DEF ProjectsInv
<1> QED BY <1>1, ProjectsInvariant, PTL

\* A run that never used the ids of its project beside another run loses none of its
\* rows, although every run goes on from MAX ids and REPLACE overwrites (Main.cc:803-833).
THEOREM RowsStay == Spec => []WrittenStays
<1>1. ProjectsInv => WrittenStays
  BY DEF ProjectsInv, Stays, WrittenStays
<1> QED BY <1>1, ProjectsInvariant, PTL
=============================================================================
