---------------------------- MODULE IndexStore ----------------------------
(***************************************************************************)
(* What indexing leaves in the database: the decision to index a unit      *)
(* again (IncludeAnalyzer::check_need_reindex), the statements that        *)
(* ParseTask::send_indexed_result makes for it, their execution by         *)
(* ParseTask::do_store through MYSQLConn::dml, the allocation of file ids  *)
(* (do_prepare, query_or_assign_file_id), and what an edited file, a       *)
(* failed statement, a crash and another run of the program make of it.    *)
(*                                                                         *)
(* One translation unit defines one function in its own file and includes  *)
(* one header that defines another, the same for all units: enough rows to *)
(* tell which file a location_file_id stands for.  No unit includes        *)
(* another unit.  The clock counts seconds, as st_mtim.tv_sec, time_t and  *)
(* create_time do, and never goes back.  The queue is the FIFO channel     *)
(* that module IndexQueue implements.                                      *)
(***************************************************************************)
EXTENDS Integers, Sequences, SequencesExt, FiniteSetsExt, Functions

CONSTANTS Units, Header, Stores,
          Idle,        \* a store task between two batches
          RootIsCwd,   \* pview runs in the project's root, named with a final slash
          RetryCount,  \* FLAGS_mysql_insert_dead_lock_retry_count
          MaxErrors,   \* bound: recoverable errors in a row for one statement
          MaxRuns,     \* bound: how often the program is started
          MaxTime,     \* bound: the last second
          MaxEdits     \* bound: how often files are changed

\* What a store task holds while it stores: a batch and the statements left of it.
Holding ==
  [batch : [unit : Units, file : Nat, hid : Nat \cup {-1}, time : Nat, from : Nat \X Nat],
   left : Seq({"defs", "calls", "path"})]

ASSUME StoreAssumption ==
  /\ IsFiniteSet(Units) /\ Header \notin Units /\ Idle \notin Holding
  /\ RootIsCwd \in BOOLEAN
  /\ RetryCount \in Nat /\ MaxErrors \in Nat /\ MaxRuns \in Nat
  /\ MaxTime \in Nat \ {0} /\ MaxEdits \in Nat

Files == Units \cup {Header}

VARIABLES
  now,      \* the clock
  mtime,    \* st_mtim of each file
  edits,    \* how often each file was changed: its contents
  before,   \* history: the contents of each file before the second of its mtime
  phase,    \* "down", "up", "exited"
  runs,     \* how often the program was started
  next_id,  \* next_filepath_id_
  unit,     \* each unit in this run: "todo", "parsing", "located", "over"
  id,       \* its current_filepath_id_
  time,     \* its current_time_, 0 when it is not being indexed
  hid,      \* the id that its locations in the header carry, -1 for none
  seen,     \* the contents clang read for it, of the unit and of the header
  queue,    \* the index queue: batches
  hand,     \* what each store task is storing: a batch and the statements left
  paths,    \* table filepaths: filepath_id -> file and create_time
  defs,     \* table func_definitions: the function of a file -> location_file_id
  calls,    \* table func_calls: caller's unit, location_file_id, what it was made from
  clean     \* history: since this run started nothing failed and no file was changed

disk == <<now, mtime, edits, before>>
memory == <<next_id, unit, id, time, hid, seen, queue, hand>>
tables == <<paths, defs, calls>>
vars == <<disk, phase, runs, memory, tables, clean>>

NoId == -1
Unread == <<>>

\* The memory of a process that has just started, but for next_id.
AllTodo == [u \in Units |-> "todo"]
NoIds == [u \in Units |-> NoId]
NoTimes == [u \in Units |-> 0]
NoneSeen == [u \in Units |-> Unread]
AllIdle == [s \in Stores |-> Idle]

ForgetAll == /\ unit' = AllTodo /\ id' = NoIds /\ hid' = NoIds
             /\ time' = NoTimes /\ seen' = NoneSeen
             /\ queue' = <<>> /\ hand' = AllIdle

\* No tables, and files as old as the first second.
Init == /\ now = 1 /\ mtime = [f \in Files |-> 1] /\ edits = [f \in Files |-> 0]
        /\ before = [f \in Files |-> 0]
        /\ phase = "down" /\ runs = 0 /\ next_id = 1
        /\ unit = AllTodo /\ id = NoIds /\ hid = NoIds
        /\ time = NoTimes /\ seen = NoneSeen /\ queue = <<>> /\ hand = AllIdle
        /\ paths = <<>> /\ defs = <<>> /\ calls = {}
        /\ clean = TRUE

Rows(f) == {i \in DOMAIN paths : paths[i].file = f}
Known(f) == Rows(f) # {}

-----------------------------------------------------------------------------
(* execute_dml_impl makes RetryCount - 1 attempts and then returns 0, which  *)
(* its callers take for success: the statement is lost without an error.    *)

Outcome(errors, last) == IF errors >= RetryCount - 1 THEN "lost" ELSE last

Outcomes == {Outcome(errors, last) : errors \in 0 .. MaxErrors, last \in {"ok", "error"}}

\* What the statements of a batch do when they are executed.  REPLACE overwrites
\* the row of the same filepath_id; INSERT IGNORE keeps the row of the same usr.
InsertDefs(b) ==
  LET located == IF b.hid = NoId THEN {b.unit} ELSE {b.unit, Header}
  IN  [f \in DOMAIN defs \cup located |-> IF f \in DOMAIN defs THEN defs[f]
                                         ELSE IF f = b.unit THEN b.file ELSE b.hid]

ReplacePath(i, f, t) ==
  [j \in DOMAIN paths \cup {i} |-> IF j = i THEN [file |-> f, time |-> t] ELSE paths[j]]

PathFirst == <<"path", "defs", "calls">>   \* mutant: the order of the batch

\* send_indexed_result: definitions, calls, and the file's row last.
Statements == <<"defs", "calls", "path">>

-----------------------------------------------------------------------------
(* do_prepare, exit and crash                                               *)

CountPaths == Cardinality(DOMAIN paths) - 1   \* mutant: counts rows from zero

\* SELECT MAX(filepath_id), 0 for an empty table.
MaxPathId == IF paths = <<>> THEN 0
             ELSE CHOOSE i \in DOMAIN paths : \A j \in DOMAIN paths : j <= i

Prepare ==
  /\ phase # "up" /\ runs < MaxRuns
  /\ phase' = "up" /\ runs' = runs + 1
  /\ next_id' = MaxPathId + 1 /\ ForgetAll
  /\ clean' = TRUE
  /\ UNCHANGED <<disk, tables>>

\* The process ends, and its memory with it.
Ends(p) == /\ phase' = p /\ next_id' = 1 /\ ForgetAll
           /\ clean' = (clean /\ p = "exited")
           /\ UNCHANGED <<disk, runs, tables>>

\* do_indexing returned (module IndexPipeline): everything sent was stored.
Exit ==
  /\ phase = "up" /\ \A u \in Units : unit[u] = "over"
  /\ queue = <<>> /\ \A s \in Stores : hand[s] = Idle
  /\ Ends("exited")

Crash == phase = "up" /\ Ends("down")

-----------------------------------------------------------------------------
(* The files                                                                *)

Tick == /\ now < MaxTime
        /\ now' = now + 1
        /\ UNCHANGED <<mtime, edits, before, phase, runs, memory, tables, clean>>

EditsMade == FoldFunction(+, 0, edits)

Edit(f) ==
  /\ EditsMade < MaxEdits
  /\ edits' = [edits EXCEPT ![f] = @ + 1]
  /\ mtime' = [mtime EXCEPT ![f] = now]
  /\ before' = [before EXCEPT ![f] = IF mtime[f] = now THEN @ ELSE edits[f]]
  /\ clean' = FALSE
  /\ UNCHANGED <<now, phase, runs, memory, tables>>

-----------------------------------------------------------------------------
(* A parse task indexes a unit                                              *)

\* SELECT UNIX_TIMESTAMP(MAX(create_time)), 0 for a file without a row.
LastTime(f) == IF Known(f) THEN Max({paths[i].time : i \in Rows(f)}) ELSE 0

NewestTime(u) == IF mtime[u] > mtime[Header] THEN mtime[u] ELSE mtime[Header]

UnitNewer(u) ==   \* mutant: the includes of a unit are not looked at
  LastTime(u) <= 0 \/ mtime[u] > LastTime(u)

\* check_need_reindex, when clang can read the includes.
NeedsReindex(u) == LastTime(u) <= 0 \/ NewestTime(u) > LastTime(u)

StartStaleId(u) ==   \* mutant: next_filepath_id_ is read and increased in two steps
  /\ phase = "up" /\ unit[u] = "todo"
  /\ unit' = [unit EXCEPT ![u] = "parsing"]
  /\ id' = [id EXCEPT ![u] = next_id] /\ time' = [time EXCEPT ![u] = now]
  /\ next_id' \in {next_id, next_id + 1}
  /\ UNCHANGED <<disk, phase, runs, hid, seen, queue, hand, tables, clean>>

SkipUnit(u) ==
  /\ phase = "up" /\ unit[u] = "todo" /\ ~NeedsReindex(u)
  /\ unit' = [unit EXCEPT ![u] = "over"]
  /\ UNCHANGED <<disk, phase, runs, next_id, id, time, hid, seen, queue, hand, tables, clean>>

\* The unit needs it, or the analysis of its includes failed.  The clock is read
\* before clang reads the files.
StartUnit(u) ==
  /\ phase = "up" /\ unit[u] = "todo"
  /\ unit' = [unit EXCEPT ![u] = "parsing"]
  /\ id' = [id EXCEPT ![u] = next_id] /\ time' = [time EXCEPT ![u] = now]
  /\ next_id' = next_id + 1
  /\ UNCHANGED <<disk, phase, runs, hid, seen, queue, hand, tables, clean>>

Over(u) == /\ unit' = [unit EXCEPT ![u] = "over"]
           /\ time' = [time EXCEPT ![u] = 0] /\ seen' = [seen EXCEPT ![u] = Unread]

\* clang fails: the id is used up, nothing is sent.
FailUnit(u) ==
  /\ phase = "up" /\ unit[u] \in {"parsing", "located"}
  /\ Over(u) /\ clean' = FALSE
  /\ UNCHANGED <<disk, phase, runs, next_id, id, hid, queue, hand, tables>>

\* get_file_mtime of the header's path, from which the root was cut off.
HeaderTime == IF RootIsCwd THEN mtime[Header] ELSE 0

Contents(u) == <<edits[u], edits[Header]>>

\* clang reads the unit and its header; query_or_assign_file_id for the header:
\* from the cache of a task that indexed unit v before, or under the lock of the
\* filepaths table, which may be refused.
LocateCached(u) ==
  /\ phase = "up" /\ unit[u] = "parsing"
  /\ \E v \in Units : /\ unit[v] = "over" /\ hid[v] # NoId
                      /\ hid' = [hid EXCEPT ![u] = hid[v]]
  /\ unit' = [unit EXCEPT ![u] = "located"]
  /\ seen' = [seen EXCEPT ![u] = Contents(u)]
  /\ UNCHANGED <<disk, phase, runs, next_id, id, time, queue, hand, tables, clean>>

LocateHeader(u) ==
  /\ phase = "up" /\ unit[u] = "parsing"
  /\ unit' = [unit EXCEPT ![u] = "located"]
  /\ seen' = [seen EXCEPT ![u] = Contents(u)]
  /\ \/ /\ \E i \in Rows(Header) : hid' = [hid EXCEPT ![u] = i]
        /\ UNCHANGED <<next_id, paths, clean>>
     \/ /\ hid' = [hid EXCEPT ![u] = NoId] /\ clean' = FALSE
        /\ UNCHANGED <<next_id, paths>>
     \/ /\ ~Known(Header)
        /\ next_id' = next_id + 1
        /\ \E o \in Outcomes :
             /\ hid' = [hid EXCEPT ![u] = IF o = "error" THEN NoId ELSE next_id]
             /\ paths' = IF o = "ok" THEN ReplacePath(next_id, Header, HeaderTime)
                         ELSE paths
             /\ clean' = (clean /\ o = "ok")
  /\ UNCHANGED <<disk, phase, runs, id, time, queue, hand, defs, calls>>

\* What the statements of a batch say of unit u indexed from second t on.
Batch(u, t) == [unit |-> u, file |-> id[u], hid |-> hid[u], time |-> t, from |-> seen[u]]

SendStamped(u) ==   \* mutant: current_time_ is taken when the result is sent
  /\ phase = "up" /\ unit[u] = "located"
  /\ Over(u) /\ queue' = Append(queue, Batch(u, now))
  /\ UNCHANGED <<disk, phase, runs, next_id, id, hid, hand, tables, clean>>

SendUnit(u) ==
  /\ phase = "up" /\ unit[u] = "located"
  /\ Over(u) /\ queue' = Append(queue, Batch(u, time[u]))
  /\ UNCHANGED <<disk, phase, runs, next_id, id, hid, hand, tables, clean>>

-----------------------------------------------------------------------------
(* do_store: the statements of a batch one by one, each in a transaction of  *)
(* its own                                                                  *)

GetStmts(s) ==
  /\ phase = "up" /\ hand[s] = Idle /\ queue # <<>>
  /\ hand' = [hand EXCEPT ![s] = [batch |-> Head(queue), left |-> Statements]]
  /\ queue' = Tail(queue)
  /\ UNCHANGED <<disk, phase, runs, next_id, unit, id, time, hid, seen, tables, clean>>

CallsOf(b) == [unit |-> b.unit, file |-> b.file, from |-> b.from]

Execute(stmt, b) ==
  /\ defs' = IF stmt = "defs" THEN InsertDefs(b) ELSE defs
  /\ calls' = IF stmt = "calls" THEN calls \cup {CallsOf(b)} ELSE calls
  /\ paths' = IF stmt = "path" THEN ReplacePath(b.file, b.unit, b.time) ELSE paths

\* A failed statement discards the rest of the batch.
Remaining(left, o) == IF o = "error" THEN <<>> ELSE Tail(left)

Dml(s) ==
  /\ phase = "up" /\ hand[s] # Idle
  /\ LET b == hand[s].batch
         left == hand[s].left
     IN  \E o \in Outcomes :
           /\ IF o = "ok" THEN Execute(Head(left), b) ELSE UNCHANGED tables
           /\ hand' = [hand EXCEPT ![s] = IF Remaining(left, o) = <<>> THEN Idle
                                          ELSE [batch |-> b, left |-> Remaining(left, o)]]
           /\ clean' = (clean /\ o = "ok")
  /\ UNCHANGED <<disk, phase, runs, next_id, unit, id, time, hid, seen, queue>>

-----------------------------------------------------------------------------
Next == \/ Prepare \/ Exit \/ Crash
        \/ Tick \/ \E f \in Files : Edit(f)
        \/ \E u \in Units : \/ SkipUnit(u) \/ StartUnit(u) \/ FailUnit(u)
                           \/ LocateCached(u) \/ LocateHeader(u)
                           \/ SendUnit(u)
        \/ \E s \in Stores : GetStmts(s) \/ Dml(s)

Spec == Init /\ [][Next]_vars

-----------------------------------------------------------------------------
(* Properties                                                               *)

\* Every variable has its type.
TypeOK == /\ now \in 1 .. MaxTime /\ mtime \in [Files -> 1 .. now]
          /\ edits \in [Files -> Nat] /\ before \in [Files -> Nat]
          /\ phase \in {"down", "up", "exited"} /\ runs \in 0 .. MaxRuns
          /\ next_id \in Nat \ {0}
          /\ unit \in [Units -> {"todo", "parsing", "located", "over"}]
          /\ id \in [Units -> Nat \cup {NoId}] /\ hid \in [Units -> Nat \cup {NoId}]
          /\ time \in [Units -> 0 .. now]
          /\ \A u \in Units : seen[u] = Unread \/ seen[u] \in Nat \X Nat
          /\ \A k \in DOMAIN queue : queue[k].unit \in Units /\ queue[k].time \in 1 .. now
          /\ DOMAIN paths \subseteq Nat \ {0}
          /\ \A i \in DOMAIN paths : paths[i] \in [file : Files, time : 0 .. now]
          /\ DOMAIN defs \subseteq Files /\ \A f \in DOMAIN defs : defs[f] \in Nat \ {0}
          /\ calls \subseteq [unit : Units, file : Nat, from : Nat \X Nat]

\* All stmts of a vector are sent in order and a failed one discards the rest
\* (IndexQueue.h:86-95): the row of a file, which makes the file up to date for
\* all later runs, is there only if the statements before it were executed.
HappensAfterOrFail ==
  \A u \in Units : \A i \in Rows(u) :
    u \in DOMAIN defs /\ \E c \in calls : c.unit = u /\ c.file = i

\* Parse tasks and store tasks write rows of filepaths concurrently, and each run
\* takes its ids from MAX(filepath_id) (Main.cc:803-811): whatever crashes or fails,
\* REPLACE never overwrites the row of another file.
PathsNeverOverwritten ==
  [][\A i \in DOMAIN paths : i \in DOMAIN paths' /\ paths'[i] = paths[i]]_vars

\* A run in which nothing failed leaves every unit indexed when it exits, and as
\* new as its file and its header (Main.cc:286-329, IncludeAnalyzer.cc:91-165), even
\* after earlier runs that failed or crashed and files that changed between them.
CleanRunIsComplete ==
  phase = "exited" /\ clean =>
    \A u \in Units : /\ LastTime(u) >= NewestTime(u) /\ u \in DOMAIN defs
                     /\ \E c \in calls : c.unit = u

\* What was read of file f is what it holds now, but for changes made in second t.
CurrentFor(f, contents, t) ==
  contents = edits[f] \/ (mtime[f] = t /\ contents >= before[f])

\* current_time_ "is used to check whether a translation unit is obselete and should be
\* re-indexed" (ParseTask.cc:644-646), and is taken before clang reads the files: when
\* check_need_reindex takes a unit for up to date, now or in any later run, the calls
\* stored with its newest row are those of the present contents of its file and its
\* header; only what was changed in the very second of that row may be missing, as the
\* times are compared strictly (IncludeAnalyzer.cc:116-122, 165).
UpToDateIsCurrent ==
  \A u \in Units : ~NeedsReindex(u) =>
    \A i \in Rows(u) : paths[i].time = LastTime(u) =>
      \E c \in calls :
        /\ c.unit = u /\ c.file = i
        /\ CurrentFor(u, c.from[1], LastTime(u)) /\ CurrentFor(Header, c.from[2], LastTime(u))

\* In one run the ids in use belong to different files.
IdsInUseDiffer ==
  \A u, v \in Units :
    /\ id[u] # NoId /\ u # v => id[u] # id[v]
    /\ id[u] # NoId => id[u] # hid[v]

\* "This make sure that we have consistent view of a translation unit"
\* (ParseTask.cc:697-706): the location of a definition never names another file.
ConsistentView ==
  \A f \in DOMAIN defs : defs[f] \in DOMAIN paths => paths[defs[f]].file = f
=============================================================================
