------------------------------ MODULE Projects ------------------------------
(***************************************************************************)
(* Several runs of pview on one mysqld: do_prepare finds or registers the  *)
(* project of its root, creates the project's tables and reads the ids to  *)
(* go on from, statement by statement, while other runs do the same or     *)
(* write their rows.  Each statement is a transaction of its own           *)
(* (autocommit).  A run may end at any statement: killed, by an error that *)
(* do_prepare returns 1 for, or by an exception of MYSQLConn::query, which *)
(* nobody catches.                                                         *)
(***************************************************************************)
EXTENDS Integers, Sequences, SequencesExt, FiniteSetsExt

CONSTANTS Runs,      \* runs of the program, one after the other or at once
          RootOf,    \* FLAGS_root of each run, as it is spelled
          MaxRows,   \* bound: the rows that a run writes in a table
          MaxIds     \* bound: the ids that are skipped

ASSUME ProjectsAssumption == IsFiniteSet(Runs) /\ MaxRows \in Nat /\ MaxIds \in Nat

\* The tables of a project whose key is an id, in the order in which do_prepare creates and
\* reads them.  The key of func_definitions, between the two, is usr: its ids tell nothing.
Tables == <<"filepaths", "func_calls">>

VARIABLES
  pc,        \* of each run: "query", "max", "insert", "create", "ids", "run", "failed", "over"
  step,      \* the table that "ids" is at
  project,   \* project_id
  next,      \* next_filepath_id_ and next_func_call_id_
  projects,  \* table projects: pairs of project_id and project_root
  created,   \* the tables there are: pairs of a name and a project_id
  rows,      \* their rows: table, project, id, and the run that wrote it
  wrote,     \* history: the rows each run has written
  lost,      \* history: the roots that an INSERT was lost for without an error
  raced,     \* history: the roots that two runs were registering at once
  shared     \* history: the runs that used one project's ids at once

database == <<projects, created, rows>>
history == <<wrote, lost, raced, shared>>
vars == <<pc, step, project, next, database, history>>

Init == /\ pc = [p \in Runs |-> "query"] /\ step = [p \in Runs |-> 1]
        /\ project = [p \in Runs |-> 0]
        /\ next = [p \in Runs |-> [t \in ToSet(Tables) |-> 1]]
        /\ projects = {} /\ created = {} /\ rows = {}
        /\ wrote = [p \in Runs |-> {}]
        /\ lost = {} /\ raced = {} /\ shared = {}

CountIds(ids) == Cardinality(ids)   \* mutant: the ids are counted

\* SELECT MAX of the ids, which is NULL for an empty table and then read as 0.
MaxId(ids) == Max(ids \cup {0})

GoTo(p, label) == pc' = [pc EXCEPT ![p] = label]

-----------------------------------------------------------------------------
(* do_prepare: the project                                                  *)

IdsOf(root) == {row[1] : row \in {row \in projects : row[2] = root}}

FindProject(p) ==
  /\ pc[p] = "query"
  /\ \E i \in IdsOf(RootOf[p]) : project' = [project EXCEPT ![p] = i]
  /\ GoTo(p, "create")
  /\ UNCHANGED <<step, next, database, history>>

Registering(q) == pc[q] \in {"max", "insert"}

MissProject(p) ==
  /\ pc[p] = "query" /\ IdsOf(RootOf[p]) = {}
  /\ GoTo(p, "max")
  /\ raced' = IF \E q \in Runs : Registering(q) /\ RootOf[q] = RootOf[p]
              THEN raced \cup {RootOf[p]} ELSE raced
  /\ UNCHANGED <<step, project, next, database, wrote, lost, shared>>

QueryMaxSame(p) ==   \* mutant: an id is taken that is in use
  /\ pc[p] = "max"
  /\ project' = [project EXCEPT ![p] = MaxId({row[1] : row \in projects})]
  /\ GoTo(p, "insert")
  /\ UNCHANGED <<step, next, database, history>>

QueryMaxProject(p) ==
  /\ pc[p] = "max"
  /\ project' = [project EXCEPT ![p] = MaxId({row[1] : row \in projects}) + 1]
  /\ GoTo(p, "insert")
  /\ UNCHANGED <<step, next, database, history>>

InsertOver(p) ==   \* mutant: without the primary key, or with REPLACE
  /\ pc[p] = "insert"
  /\ projects' = projects \cup {<<project[p], RootOf[p]>>}
  /\ GoTo(p, "create")
  /\ UNCHANGED <<step, project, next, created, rows, history>>

\* A project_id that another run took in between is a duplicate of the primary key: all
\* that is left to the run is to end.
InsertProject(p) ==
  /\ pc[p] = "insert"
  /\ IF project[p] \in {row[1] : row \in projects}
     THEN GoTo(p, "failed") /\ UNCHANGED projects
     ELSE GoTo(p, "create") /\ projects' = projects \cup {<<project[p], RootOf[p]>>}
  /\ UNCHANGED <<step, project, next, created, rows, history>>

\* Every attempt met a recoverable error: dml returns 0, the row is not there.
LoseProject(p) ==
  /\ pc[p] = "insert"
  /\ lost' = lost \cup {RootOf[p]} /\ GoTo(p, "create")
  /\ UNCHANGED <<step, project, next, database, wrote, raced, shared>>

-----------------------------------------------------------------------------
(* do_prepare: the tables, and the ids to go on from                        *)

\* CREATE TABLE IF NOT EXISTS for each table, in one step as nobody else tells them apart;
\* a table is not there when each attempt met a recoverable error.
CreateTables(p) ==
  /\ pc[p] = "create" /\ GoTo(p, "ids")
  /\ \E made \in SUBSET ToSet(Tables) : created' = created \cup (made \X {project[p]})
  /\ UNCHANGED <<step, project, next, projects, rows, history>>

IdsIn(t, i) == {row.id : row \in {row \in rows : row.table = t /\ row.project = i}}

\* The run has an id of its project to write with.
UsesIds(q) == pc[q] = "run" \/ (pc[q] = "ids" /\ step[q] > 1)

\* Without its table the query throws.
QueryMaxIds(p) ==
  /\ pc[p] = "ids"
  /\ IF step[p] < Len(Tables) THEN UNCHANGED pc ELSE GoTo(p, "run")
  /\ step' = [step EXCEPT ![p] = @ + 1]
  /\ LET t == Tables[step[p]]
         others == {q \in Runs \ {p} : UsesIds(q) /\ project[q] = project[p]}
     IN  /\ <<t, project[p]>> \in created
         /\ next' = [next EXCEPT ![p][t] = MaxId(IdsIn(t, project[p])) + 1]
         /\ shared' = IF others = {} THEN shared ELSE shared \cup others \cup {p}
  /\ UNCHANGED <<project, database, wrote, lost, raced>>

-----------------------------------------------------------------------------
(* do_indexing: the rows that are keyed by an id                            *)

Row(p, t) == [table |-> t, project |-> project[p], id |-> next[p][t], by |-> p]

Duplicates(row) == {r \in rows : /\ r.table = row.table /\ r.project = row.project
                                 /\ r.id = row.id}

MayWrite(p, t) == /\ pc[p] = "run"
                  /\ Cardinality({r \in wrote[p] : r.table = t}) < MaxRows

Write(p, row) == /\ next' = [next EXCEPT ![p][row.table] = @ + 1]
                 /\ wrote' = [wrote EXCEPT ![p] = @ \cup {row}]
                 /\ UNCHANGED <<pc, step, project, projects, created, lost, raced, shared>>

\* REPLACE INTO filepaths puts the row in the place of one with its id.
ReplaceFilepath(p) ==
  /\ MayWrite(p, "filepaths")
  /\ LET row == Row(p, "filepaths")
     IN  rows' = (rows \ Duplicates(row)) \cup {row} /\ Write(p, row)

\* INSERT IGNORE INTO func_calls leaves a row with its id alone.
InsertFuncCall(p) ==
  /\ MayWrite(p, "func_calls")
  /\ LET row == Row(p, "func_calls")
     IN  rows' = (IF Duplicates(row) = {} THEN rows \cup {row} ELSE rows) /\ Write(p, row)

\* An id is used up and no row written: the unit failed, or the call has no caller.
SkipId(p) ==
  /\ pc[p] = "run"
  /\ \E t \in {"filepaths", "func_calls"} :
       /\ next[p][t] <= MaxIds
       /\ next' = [next EXCEPT ![p][t] = @ + 1]
  /\ UNCHANGED <<pc, step, project, database, history>>

\* do_main returned, or the process died; its memory is gone.
End(p) == /\ pc[p] # "over" /\ GoTo(p, "over")
          /\ project' = [project EXCEPT ![p] = 0] /\ step' = [step EXCEPT ![p] = 1]
          /\ next' = [next EXCEPT ![p] = [t \in ToSet(Tables) |-> 1]]
          /\ UNCHANGED <<database, history>>

Next == \E p \in Runs :
  \/ FindProject(p) \/ MissProject(p) \/ QueryMaxProject(p) \/ InsertProject(p) \/ LoseProject(p)
  \/ CreateTables(p) \/ QueryMaxIds(p)
  \/ ReplaceFilepath(p) \/ InsertFuncCall(p) \/ SkipId(p) \/ End(p)

Spec == Init /\ [][Next]_vars

-----------------------------------------------------------------------------
(* Properties                                                               *)

\* A run past its registration works with this project.
Prepared(p) == pc[p] \in {"create", "ids", "run"}

\* Every variable has its type; "all project id must > 0" (IndexCtx.h:166), and the
\* keys of the tables are keys.
TypeOK ==
  /\ pc \in [Runs -> {"query", "max", "insert", "create", "ids", "run", "failed", "over"}]
  /\ step \in [Runs -> 1 .. Len(Tables) + 1]
  /\ project \in [Runs -> Nat] /\ \A p \in Runs : Prepared(p) => project[p] > 0
  /\ next \in [Runs -> [ToSet(Tables) -> Nat \ {0}]]
  /\ \A a \in projects, b \in projects : a[1] = b[1] => a = b
  /\ \A a \in rows, b \in rows :
       a.table = b.table /\ a.project = b.project /\ a.id = b.id => a = b
  /\ lost \cup raced \subseteq {RootOf[p] : p \in Runs} /\ shared \subseteq Runs

\* A project is the index of one root, and a root has one project, whatever other runs
\* register and wherever they end - unless an INSERT was lost (MYSQLConn.cc:182), or, for
\* the second, two runs registered the root at once (Main.cc:742-787).
ProjectsMatchRoots ==
  \A p, q \in Runs :
    Prepared(p) /\ Prepared(q) /\ lost = {} =>
      /\ project[p] = project[q] => RootOf[p] = RootOf[q]
      /\ RootOf[p] = RootOf[q] /\ RootOf[p] \notin raced => project[p] = project[q]

\* What a run has written stays written, although later runs go on from MAX ids and
\* REPLACE, unless it shared the ids of its project with another run (Main.cc:803-833).
WrittenStays == \A p \in Runs \ shared : wrote[p] \subseteq rows
=============================================================================
