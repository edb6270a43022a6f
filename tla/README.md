# A TLA+ model of pview

pview (`src/indexer/`) indexes a C++ project: it parses every translation unit
of a compilation database with clang, writes the functions it defines and the
calls it makes into a MySQL database, and answers queries about callers,
callees, call paths and throw paths from that database. This directory models
the parts of it whose correctness depends on the order of steps: the queue and
the threads of the indexer, what one parse task makes of a translation unit, what
statements, failures, edits, crashes and restarts leave in the database, several runs
of the program on one database, and the searches and listings over it.

Paths below are relative to `src/indexer/`.

## 1. Inventory

| part | state | operations | interacts with | what is hard |
|---|---|---|---|---|
| `IndexQueue` (IndexQueue.h, .cc) | FIFO of batches, statement counter, atomic stop flag, one mutex, two condition variables | `add_stmts`, `get_stmts`, `set_stop`, `get_num_stmts` | called by parse tasks, store tasks and the main thread | lost wakeups, producers asleep with an empty queue, the flag stored outside the mutex, the unsigned counter |
| indexing pipeline (`do_indexing` in Main.cc, `do_parse`, `do_store` in ParseTask.cc) | the shared counter of compile commands, one connection per task, futures | start tasks, claim, parse, send, store, extra store tasks, join | queue, thread pool, database | main waits for parse tasks that wait for store tasks; tasks that fail to connect |
| `ThreadPool` (ThreadPool.h, .cc) | FIFO of tasks, stop flag, workers | constructor, `add_task`, worker loop, destructor | main thread, every task | notification outside the mutex, destruction without the mutex |
| index database (SQL.cc; `send_indexed_result`, `query_or_assign_file_id`, `get_file_last_mtime` in ParseTask.cc) | tables filepaths, func_definitions, func_calls | statements of a batch, id allocation, restart | store tasks, parse tasks, MySQL | partial batches, crash between statements, ids reused after a restart |
| projects and ids (`do_prepare` in Main.cc, IndexCtx) | table projects, a set of tables for each project, the next ids | find or register the project, create its tables, read the MAX ids | other runs of pview | three statements without a lock, runs at once, an end anywhere |
| `MYSQLConn`, `MYSQLTableLock` (MYSQLConn.cc) | a connection, a lock | `ddl`, `dml`, `multi_dml`, `query`, prepared statements, lock, unlock | all tasks | the retry loop and its return value, exceptions that escape |
| queries (Main.cc:337-722) | the set of searched functions, the path found | `callee_of`, `caller_of`, `search_callpath`, `search_throwpath` | database | recursion over cyclic call graphs, what the path contains |
| `IncludeAnalyzer` | visited includes, newest time | `check_need_reindex` | clang's preprocessor, file times | one-second granularity, headers |
| AST consumers (`PViewConsumer`, `PViewPPCallBack`, PView.h) | the definitions and calls of one unit, the cache of file ids | `handle_func`, `MacroDefined`, `MacroExpands`, `gen_decl_info`, `send_indexed_result` | clang, database | rows of a unit that failed, rows without a file, where batches are cut |
| `ExceptionAnalyzer` | sets of thrown types, recursion stack | `analyze` on functions, statements, try blocks | clang's AST | recursion, rethrow, catch filters |
| `MYSQLMgr` | the mysqld child, its directories | initialize, start, kill | operating system | a crash while the data directory is initialized |
| number of tasks (`do_main`) | CPUs, `--max_dop`, commands | arithmetic | thread pool | a task without a worker |
| utilities (StrUtils, siphash, Timer, FileUtils, ClangCompiler) | | | | |

What makes each of them correct: the queue loses no batch and no wakeup and stays
bounded; the pipeline stores each unit once and ends; the pool runs each task once; in
the database a file counts as up to date only when what was stored of it is, and no
row is overwritten; a project belongs to one root; the tables list the calls that the
source contains; the analyzer says that a function might throw exactly when it might; a
search finds a path exactly when there is one; no mysqld outlives its pview.

How they interact: `do_main` builds the pool, computes how many parse and store
tasks to run, starts or finds mysqld, prepares the tables and the next ids,
creates the queue, runs `do_indexing`, then the queries. During indexing the
store tasks and the parse tasks are tasks of the pool; parse tasks put one batch
of statements per translation unit into the queue, store tasks take batches and
execute their statements, the main thread joins the parse tasks, sets the stop
flag, and joins the store tasks.

`PROJECT.json` lists the hazards of this code, each with its line and the
properties that watch it.

## 2. Modules

| module | models | its state in the code |
|---|---|---|
| `StmtQueue` | what the queue promises: a FIFO channel that can be stopped | |
| `IndexQueue` | class `IndexQueue`: each call from the moment it holds the mutex, waiting in two steps | `stmts` is `stmts_`, `num_stmts` is `num_stmts_`, `set_stop` the progress of `set_stop()` (the flag `stop_` is derived from it), `lower_times` is `g_lower_than_producer_times` modulo 1024, `wait` where each thread is with respect to a wait, `res` what `get_stmts` returned |
| `IndexQueueMC` | an instance with a bound on the backlog | |
| `IndexPipeline` | `do_indexing`, `do_parse`, `do_store`; extends `IndexQueue` and uses its actions inside its own | `main`, `parse`, `store` are program counters, `counter` is `*counter_`, `tu` the unit in hand; `sent`, `stored` are history |
| `IndexPipelineMC` | an instance | |
| `TaskCounts` | how many tasks `do_main` asks for and `do_indexing` starts, as functions of the CPUs, `--max_dop` and the commands | |
| `ThreadPool` | class `ThreadPool` and its client | `tasks`, `stopped`, `worker`, `task`, the client `main`; `added`, `ran` are history |
| `IndexPipelineProofs` | the theorems about `IndexQueue`, `IndexPipeline` and `TaskCounts` | |
| `CallPath` | `search_callpath`, `search_throwpath` and the queries that call them, over one module: they differ in what ends the search and in what is pushed then | `stack` is the recursion: for each activation the callers its loop has left and the one whose callees the next activation searches; `searched` is `searched_caller_usr`, `result` is `result`; `table`, `query` are the database and the command line |
| `CallPathMC` | instances: the call graphs | |
| `CallPathProofs` | the theorems about `CallPath` | |
| `ManagedMysqld` | `MYSQLMgr` and its use in `do_main`, over several runs of pview | `main` is where `do_main` is, `running` is `status_.running`, `datadir` the directory, `initializer` and `server` the child processes of each run; `ended` is history |
| `ManagedMysqldProofs` | the theorems about `ManagedMysqld` | |
| `IndexStore` | the decision to index a unit again, ids, batches, statements, the three tables, edited files, crash and restart | `paths`, `defs`, `calls` are the tables, `next_id` is `next_filepath_id_`, `unit`, `id`, `time`, `hid`, `seen`, `hand`, `queue` the memory of a run; `now`, `mtime`, `edits` are the clock and the files; `before`, what a file held before the second of its last change, and `clean` are history |
| `IndexStoreMC` | an instance with a bound on edits, and its symmetry | |
| `IndexStoreProofs` | the theorems about `IndexStore` | |
| `ExceptionAnalyzer` | class `ExceptionAnalyzer` and `func_might_throw`, as recursive operators over small programs; `Throws`, what such a program does, to compare | |
| `UnitIndex` | what a parse task makes of units: the symbols clang reports, `func_defs` and `func_calls` (`func_defs_`, `func_calls_`), their batches, the tables, the listings `CalleesOf` and `CallersOf` | `pos` is where clang is in unit `n`, `cached` whether `local_filepath_cache_` has the header, `next_call_id` is `next_func_call_id_`, `fd_start`, `fc_start` and `stmts` are the locals of `send_indexed_result`; `failed`, `missed` and `origin`, the symbol each call id was given to, are history |
| `UnitThrows` | what the consumers ask `ExceptionAnalyzer` at a symbol of a unit, and whether the answer is right | |
| `UnitIndexMC` | instances: the programs and the units | |
| `UnitIndexProofs` | the theorems about `UnitIndex` | |
| `Projects` | `do_prepare` of several runs, statement by statement, and the rows they write | `pc`, `step`, `project`, `next` are the memory of each run, `projects`, `created`, `rows` the database; `wrote`, `lost`, `raced`, `shared` are history |
| `ProjectsMC` | an instance | |
| `ProjectsProofs` | the theorems about `Projects` | |
| `NatSets` | induction over sets of naturals, least and greatest elements, partial sums: lemmas for the proofs | |
| `ThreadPoolProofs` | the theorems about `ThreadPool` | |

**Waiting.** `std::condition_variable::wait(lock, predicate)` is modelled the
same way in both modules that need it. A thread that finds its predicate false
is "deciding": it still holds the mutex, but what is not protected by the mutex
(the stop flags) can change. `Sleep` releases the mutex and blocks. A
notification makes a sleeper "woken"; it has to get the mutex before it tests
its predicate again. Any sleeper can wake up spuriously. `notify_one` wakes an
arbitrary sleeper, and is lost when nobody sleeps. Everything between taking the
mutex and waiting or returning is one step: nothing it touches is touched
without the mutex, except the stop flag, which is read once per call in the
predicate.

**The database.** A translation unit in `IndexStore` defines one function in its
own file and one in a header that all units include. That is enough to tell
which file a `location_file_id` stands for, and to have two tasks that ask for
the id of the same file. A statement succeeds, fails with an error, or is lost:
`execute_dml_impl` makes `RetryCount - 1` attempts and reports success when all
of them failed. `LOCK TABLES` may be refused, and the header then has no id for the unit;
the query inside it is taken to succeed.

**Time.** Files change at any moment, and the clock of `IndexStore` counts seconds, as
`get_file_mtime`, `time_t` and `create_time` do, and never goes back. A unit is indexed
again when its file or its header is younger than its newest row, strictly; the row's
time is taken before clang reads the files (ParseTask.cc:650). So a unit that is not
indexed again may be stored as it was before a change in the very second of its row, and
`UpToDateIsCurrent` allows exactly that: what was read is what the file holds now, or, if
the file last changed in that second, it is not older than what it held before that
second (`before`). A row of a header is
written with the time of a path from which the root was cut off, which the file system
finds only when pview runs in the root (`RootIsCwd`; otherwise `get_file_mtime` finds
nothing and the row says second 0). The runs take the usual case, that it does not. No
unit includes another one: with `RootIsCwd` such a unit could count as up to date by the
row that the other wrote for it as a header.

**Symbols.** `UnitIndex` takes a unit as the sequence of symbols that clang reports, each
with a location in the unit's own file, in a header or outside of the project. A location is
where a name is spelled (ParseTask.cc:501, 521), so a function and the calls in its body
may be in different files: a name that comes out of a macro of another library, or of `##`,
is outside of the project although the body is inside. `SourceAssumption` says no more than
that a call names its caller. `send_indexed_result` makes one
statement per step. A macro's `func_might_throw` is never initialized
(ParseTask.cc:1049-1073): any value may be stored. File ids stand for their files and USRs
for functions: `IndexStore` and `Projects` are about ids. Clang may fail at any symbol, the
header's id may be refused.

**Exceptions.** Whether a function might throw is a constant operator of `UnitIndex`,
`MightThrow`, as its rows, batches and listings do not depend on the answer.
`UnitIndexMC.cfg` gives it `MightThrowAt` of `UnitThrows`, which asks `ExceptionAnalyzer`
about what clang has read of the unit so far (`Visible`). The analysis is compared with `Escapes`: what can leave a statement when
any child of a block can be reached. `MightThrowIsRight` asks for neither false positives
nor false negatives, but for three forms listed in section 5, which it names as operators
(`HidesInArguments`, `RethrowsAsBase`, `CatchesAll`).

**Projects.** In `Projects` each statement of `do_prepare` is a step. A run may end
before any of them: killed, with an error, or by an exception of `query`, which nobody
catches. The creation of the tables is one step, as nobody tells its statements
apart, and any of them may be lost. `func_definitions` is left out: its key is `usr`, and
its ids identify nothing. A row is what it was written by; its contents are the business
of `IndexStore`.

**The call graph.** `CallPath` takes any set of pairs for the rows of
`func_calls`, with a flag for `caller_might_throw` per row. The order of rows is
MySQL's, so a frame keeps the callers left as a set and takes any of them. A
caller without rows gets a frame with nothing in it, where `search_throwpath`
goes on at once (Main.cc:640): both add the caller to the searched ones and come
back with nothing.

**The children.** In `ManagedMysqld` the mysqld processes take steps of their own:
they write, complete, fail, come up and die at any moment, and go on when pview
crashes. What mysqld does is external, modelled by what `MYSQLMgr` relies on: it
initializes an empty directory only, needs initialized data, and one server at
a time has the directory and the port. A child whose `execve` fails returns from
`start_child_process` as a second pview; it leaves `do_main` with 1, and may hang
in the destructor of the thread pool, whose threads it does not have
("lost"). That the pool's destructor can also hang in pview itself
(`pool_join`) is not combined with this module.

## 3. What the runs show

| run | instance | what it shows |
|---|---|---|
| `queue` | 2 parse tasks, 2 store tasks, batches of 1 and 2 statements, thresholds 3 and 2, one producer woken every 2nd time, at most 4 batches | no lost wakeup of either kind, bounded backlog, counter correct, nobody asleep after `set_stop`, FIFO channel (refinement), waits end |
| `pipeline` | 2 parse tasks, 2 store tasks, 1 extra store task, which starts when 2 statements are left, 3 units; all tasks but one store task may fail to connect | each unit is in one place and stored once, store tasks outlive the parsing, everything sent is stored at exit, `do_indexing` returns |
| `pipeline_no_store` | the same, every task may fail to connect | violated: `do_indexing` never returns |
| `pool` | 3 workers, 3 tasks | each task runs once, no lost wakeup, futures become ready |
| `pool_join` | the same | violated: the destructor can hang |
| `store` | 2 units and a header, 2 store tasks, 2 runs of the program, 2 seconds, at any moment up to 2 edits of any file, or with a second unit one of the header, one recoverable error per statement at most | a file's row implies its statements were executed; no row of `filepaths` is overwritten; ids in use differ; a clean run leaves everything indexed and as new as the files; a unit that is taken for up to date is stored as it is now, but for changes in the second of its row |
| `store_retry` | no edits, two recoverable errors in a row | violated: a lost statement, and the rest of the batch executed |
| `store_restart` | no edits, no recoverable errors | violated: after a crash or a failed statement the next run reuses an id that stored definitions refer to |
| `unit` | one unit with each of some 2900 programs that throw, catch and rethrow; two units with a common header and symbols of every kind, a function outside of the project with calls in it among them; batches of 2 rows | no INSERT is empty or too long; the listings of callers and callees are what the source says, nothing comes from a unit that failed; functions that might throw are told from the others |
| `projects` | 3 runs at once or one after the other, 2 roots, one row in each table and a skipped id per run | project ids are unique and positive; projects and roots match; a run's rows stay unless it shared its ids |
| `callpath` | 4 functions, two of them with the same name; for a call path all 4096 sets of calls, for a throw path all tables of up to 4 calls with any flags | a path is found exactly when there is one, it follows the calls, depth bounded, the recursion ends |
| `mysqld` | 3 runs of pview, each with `kill_at_exit` set or not, crashes anywhere | no server outlives a pview that returns and is to kill it; mysqld starts on complete data unless something failed before; starting ends, unless `execve` failed |

The bounds are small, and they are chosen so that every case of the code
happens: with thresholds 3 and 2 the queue is below, between and above them with
both producers asleep, and the modulo counter wraps; two store tasks compete for
one notification; three units are more than two parse tasks claim at once and
enough to make both wait; three workers allow one to sleep, one to be woken and
one to overtake it. In `queue`, `MaxBacklog` bounds the queue only after
`set_stop`: before it `BacklogBounded` keeps it below. In `store`, two units are
what a reused id needs, two runs what a restart and an index that is brought up to date
need, and two seconds tell an edit in the second of the row from a later one; units, and
store tasks, may be exchanged (symmetry; the one action property is a property of single
steps). Two edits change a file before the second of a row and in it, around the moment
when clang reads it; one unit has all that check_need_reindex compares, so with a second
one the header is edited once only (`MCEdit`, `MCStartUnit`). In `pipeline`, a batch of two statements is all that can be left
when parsing ends, and it is enough for the extra store task to start (`LargeBacklog`). In
`unit`, two rows make a batch that ends at, before and after the last
row, with skipped rows in it; no program is nested deeper than `MaxTraceLevel`, which
counts the nesting of the syntax tree, not of calls, so the cut is not exercised. In
`projects`, two runs of one root race for it, and the third takes an id between their
statements; a skipped id makes MAX differ from the number of rows. In `callpath`, four
functions give cycles through and beside the path, two starting functions, and a
function reached on two ways, one of them cut short because it was searched. In
`mysqld`, three runs are one that fails, one that meets what it left, and one that
meets the server of the second.

**Fairness.** Threads that wait for the mutex get it eventually: strong fairness
for the steps that need it free, since it is held for a bounded time and becomes
free again and again. `Sleep` and the steps of the main thread are only weakly
fair. Connecting, clang and the database answer in the end (strong fairness of the
steps of tasks, whose alternatives are success and failure). Spurious wakeups,
new tasks and the destruction of the pool are not promised. `ProducersResume`
claims that some producer leaves the wait, not that each does: the code does not
promise the latter, a woken producer can be overtaken for ever. A query is one
thread: weak fairness of its steps. In `mysqld` the steps of pview and of a
mysqld that initializes are weakly fair; crashes, servers and lost children promise
nothing.

**Deadlock.** `queue` and `pipeline` are checked for deadlock (`pipeline` has a
stuttering step for a returned `do_indexing`). `pool`, `store`, `projects` and `mysqld`
stop when the pool is gone or the last run is over, `unit` when the last statement is
stored.

## 4. What is proved

Every theorem holds for any values of the constants that satisfy the named assumption
of its module; a passing run evaluates that assumption too. For the queue these are
finite sets of tasks (`ThreadsAssumption`), an exit threshold between 1 and the wait
threshold, as 12288 is (`ThresholdAssumption`), and batches of any sizes
(`BatchAssumption`). Each safety property is proved from an invariant that is inductive;
the paragraphs say what it adds to the property and why.

| module | the theorems and the property each states |
|---|---|
| `IndexPipelineProofs` | of the queue: `NoConsumerWakeupLost`, `NoProducerWakeupLost`, `BacklogBounded`, `NobodySleepsAfterStop`, `CounterAgrees`, the refinement of `StmtQueue` |
| `IndexPipelineProofs` | of the pipeline: `EachUnitOnce`, `StoresOutliveParsing`, `StoredAtExit`; the pipeline uses the queue as `IndexQueue` says; enough workers for the tasks |
| `ThreadPoolProofs` | `EachTaskOnce`, `NoTaskWakeupLost` |
| `IndexStoreProofs` | `IdsInUseDiffer`, `PathsNeverOverwritten`, `HappensAfterOrFail`, `UpToDateIsCurrent`, `CleanRunIsComplete` |
| `UnitIndexProofs` | `StatementsHaveRows`, `ListingsFollowSource` |
| `ProjectsProofs` | `ProjectsMatchRoots`, `WrittenStays` |
| `CallPathProofs` | `FoundIffReachable`, `PathFollowsCalls`, `RecursionBounded` |
| `ManagedMysqldProofs` | `NotOutlived`, `StartsOnCompleteData` |

Each of them also proves the type invariant of its component.

For the queue, `IndexPipelineProofs` proves `Spec => []IInv`, where `IInv` is the conjunction of
the types, `NoConsumerWakeupLost`, `NoProducerWakeupLost`, `BacklogBounded`,
`NobodySleepsAfterStop` and `CounterAgrees`. Each conjunct is preserved given
the types, except where noted:

- *Consumers*: a new batch wakes a sleeper, so the number of woken store tasks
  keeps up with the queue, or nobody is left asleep; a woken store task that
  runs takes one batch.
- *Producers*: below the exit threshold `get_stmts` wakes all of them, and a
  producer goes to sleep only at the wait threshold, which is not below it.
- *Backlog*: a producer that returns saw the queue below the wait threshold; one
  that pushes past it is inside the wait.
- *Stop*: the notification needs the mutex, so nobody is deciding, and everyone
  who sleeps is woken; who tests the predicate later finds the flag.
- *Counter*: `StmtsIn` is a recursive function over the queue. The lemmas
  `SumsDef`, `StmtsInAppend`, `StmtsInTail` say what it does on `Append` and
  `Tail`; they use the induction principle of `NatSets`, stated for sets of
  naturals instead of predicates.

`QueueIsAChannel` proves that every step of `IndexQueue` is a step of
`StmtQueue` or a stutter under the refinement `queue <- stmts`,
`stopped <- stop`, `got <- res`.

For the pipeline it starts from `PipelineUsesQueue`, `PipelineSpec => Spec`: each
step of a task or of the main thread is a step of the queue or leaves its
variables alone. The invariant `IInv` of the queue then holds in the pipeline, and
`PInv` adds

- *Claims*: each claimed unit lies below the counter and in one place, so a claim,
  which takes the counter and moves it, takes a unit that nobody has; `Overshoot`
  bounds how far the tasks that find no unit left run past the end (what keeps the
  counter in its type);
- *StopOrder*: where the main thread is says whether the stop flag is set and who
  has ended; a store task ends only with `nullptr`, which the queue returns with
  the flag set and nothing left;
- the conservation of batches: a batch that was sent is in the queue, in the hands
  of one store task, or stored, once.

`UnitsOnce`, `StoresOutlive` and `AllStoredAtExit` follow. They hold for any sets of
tasks and any number of units.

`CallPathProofs` proves, for any database, that the search finds a path exactly when
a function with what is asked for can be reached (`FoundIffThereIsOne`). The
invariant is the usual one of a search, made to fit a recursion that never looks at
a function twice: as long as nothing is found, the starting functions and the
callees of every searched function are searched or left in the loop of *some*
activation (`Pending`), not necessarily the one that met them. When the stack is
empty nothing is pending, so the searched functions are closed under calls and
contain everything that can be reached. `RecursionIsBounded` bounds the depth:
every activation but the last is below one searched function of its own. With
finitely many functions this is the safety half of termination.

`PathFollowsCalls` needs to know what the recursion does before anything is found:
`PathInv` says that what the loop of an activation searches is called by what the
activation below it searches (`Called`), the lowest one being the loop over the starting
functions; so the stack is a chain of calls at any time. Once the function is found the
activations return one by one, each pushing its caller: what was pushed is the end of a
chain that the caller on top of the stack leads on to (`LeadsOn`), until the stack is
empty and the chain begins with a starting function.

`ManagedMysqldProofs` proves the types, `NotOutlived` and `StartsOnCompleteData` from
`MysqldInv`, for any number of runs: an initialization that goes on is either
watched by `check_command` or belongs to a crashed run (`Watched`), and incomplete
data come from an initialization that goes on or failed (`Origin`); so a run that
skips the initialization of incomplete data comes after a crash or a failure.

`ThreadPoolProofs` proves the types, `EachTaskOnce` and `NoTaskWakeupLost` for any finite
sets of workers and tasks (`PoolAssumption`). `EachTaskOnce` counts places; the invariant
says instead, one task at a time, that a task is at one index of the queue or with one
worker or done (`Placed`), from which the counts follow. For the wakeups, `DecidesOnEmpty`
is needed: `add_task` notifies after it released the mutex, and a worker that found the
queue empty before may be about to sleep only while it is still empty, because it keeps
the mutex until it sleeps.

`IndexStoreProofs` is about any units, store tasks and bounds, over any number of runs
that fail, crash and find edited files. Its invariants are three:

- `IdsInv`: a unit is sent once in a run, with its id (`SentOnce`); while a run is up all
  ids of rows and all ids in memory are below `next_filepath_id_` (`IdsBelow`, from the
  lemma that `MaxPathId` is the greatest id of a row); and the row with the id of a unit
  is that unit's own, not there as long as its result is on its way (`OwnRow`). This is
  why REPLACE never replaces: the id of a row that is about to be written was drawn in
  this run, and nobody has written it yet. `IdsStayApart` and `RowsAreForever` follow,
  whatever the database loses.
- `OrderInv`: the statements of a batch that are gone were executed (`InOrder`); what
  clang read of a file, wherever its result is, is what the file holds now, or the file was
  changed after the second that the row is going to say, or it last changed in that second
  and what was read is at least what it held before (`ReadCurrent`); and every row has calls
  that are as current as it (`RowsHaveCalls`). `RowComesLast` and `UpToDateMeansCurrent`
  follow: a unit that check_need_reindex leaves alone has no file that was changed later.
- `CleanInv`: as long as nothing failed and no file was changed during a run, a unit that
  is done with has a row as new as its files, or is on its way to one.
  `CleanRunIsUpToDate` follows.

`RowComesLast`, `UpToDateMeansCurrent` and `CleanRunsAreComplete` have the hypothesis
`FewErrors`, that a statement meets fewer recoverable errors in a row than
`execute_dml_impl` makes attempts. It is needed: without it they are false, as
`store_retry` shows. The run `store` has it (one error, two attempts), and the other four
theorems do not.

`UnitIndexProofs` is about any units, any size of the batches and any `MightThrow`. Its
assumptions are that a batch has room for a row (`IndexAssumption`) and `SourceAssumption`,
which types the units and does not say where a caller is defined; the run evaluates both. `UnitInv` follows each symbol on its way to the tables, in both
directions:

- nothing is made up: a call id was given to one symbol (`Origins`), and a row of a call,
  collected, in a statement or stored, says what the symbol with its id says (`CallRows`);
  a row of a definition comes from a symbol of a unit that did not fail (`DefRows`);
- nothing is lost: a symbol that clang is past is in a row collected (`CollectedCalls`); a
  row that batching is past is in a statement (`BatchedCalls`); and what a unit had when it
  was sent is in the queue or in the tables (`ListedCalls`), and so for definitions. For
  the second, a batch begins where the one before it ended;
- what a failed unit collected goes with it: when clang is in no unit, nothing is collected
  and no statement is left over (`Typed`), and a failed unit is never sent.

The size of a statement (`StatementsSized`) follows from where a batch ends: the rows
counted grow by at most one from row to row, so at the first place that counts `BatchSize`
rows no more are taken. `ListingsFollowSource` compares two numbers, the rows a listing
counts and the calls in the source. `origin` maps the former to the latter: into them by
`CallRows`, onto them by `ListedCalls`, and one to one because an id belongs to one symbol
and a symbol gets one id. The listing of callers asks only for those with a row in
`func_definitions`, and so does the property. INSERT IGNORE drops no call, since all ids differ; of definitions
it keeps one per USR, and the listing wants no more.

`ProjectsProofs` is about any number of runs of any roots at once. `ProjectsInv` says that
a prepared run has found or inserted the row of its project, unless the INSERT was lost
(`Registered`); that while a run is between its SELECT and its INSERT there is no row of
its root and nobody else is registering it, unless two runs raced (`OneProject`); that the
runs which use one project's ids at once are known (`Sharers`); and that rows with ids a
run has not reached are rows of runs beside it (`Fresh`). From `Fresh` a run that shares
its ids with nobody duplicates no row, and nobody who comes later duplicates a row of its.

`TasksHaveWorkers` (in `IndexPipelineProofs`, about `TaskCounts`): for any number of CPUs but zero, any `--max_dop`
and any number of commands, the tasks of `do_indexing` fit the workers of the pool, there
is a parse task and there are two store tasks. The actions of `IndexPipeline` rely on it:
a task there is never kept from running by the others. `IndexPipelineMC` checks the same
for small numbers.

Only model-checked:

- the liveness properties: neither fairness nor ENABLED is in reach of the installed
  provers;
- `MightThrowIsRight`: `ExceptionAnalyzer` is written with recursive operators over
  statements, which the proof system does not expand, and what a recursive function computes
  for every program would need an induction that it cannot instantiate.

## 5. Disagreements between the code and what it says

1. `~ThreadPool` can hang (`pool_join`): the notification is not under the mutex.
2. When no store task gets a connection, indexing hangs instead of aborting
   (`pipeline_no_store`). With fewer than 1000 statements left it returns with
   success and nothing stored.
3. A statement that meets too many recoverable errors counts as executed
   (`store_retry`).
4. The statements of a unit are not one transaction; after a crash an id is
   reused (`store_restart`).
5. A printed call path lacks the caller of its last function: on a direct hit nobody
   pushes it (Main.cc:540-551). `PathFollowsCalls` says what is left of the promise.
6. A non-empty data directory is not an initialized one, although MYSQLMgr.cc:260 says
   so. `StartsOnCompleteData` holds only as long as no run crashed or failed before.

Not stated as violated properties, but visible in the modules:

- `ManagedMysqld`: a data directory that does not exist ends the program
  (`IsEmptyThrows`), although the next lines would create it; `do_prepare` connects once,
  right after the fork, so a run with its own mysqld depends on who is faster; a mysqld
  left by a crashed run is never noticed, because `check_port_in_use` always answers no
  (FileUtils.cc:76).
- `ExceptionAnalyzer`: func_might_throw "should not have false-positive"
  (ParseTask.h:265-270), but it takes what a handler for a base class rethrows for the
  base class, and counts what the handler of a `catch(...)` throws although nothing may
  reach it; and it does not look into the arguments of a call. `MaxTraceLevel` is meant as
  a depth of calls (ParseTask.cc:859-866) and counts nested statements too: what is thrown
  deeper than 20 is missed.
- `UnitIndex`: a use of a macro has no caller (ParseTask.cc:989-1047), and calls without a
  caller are never stored, so a function-like macro, which "we handle [...] as function"
  (PView.h:137-141), has no callers; `func_might_throw` of a macro is read uninitialized. When a header's id
  is refused the unit's rows in that header are dropped and the unit counts as indexed
  (`missed`). The listing of "all callers of a function" (README.txt:1-3) leaves out a
  caller whose name is spelled outside of the project, as gtest's `TEST` does it, although
  the calls in its body are stored: its own row is skipped (ParseTask.cc:221), and
  do_query_caller_of warns that the database may not be set up correctly (Main.cc:489-494).
  `ListingsFollowSource` says that only those are missing.
- `CallPath`: a function that throws and calls nothing has no throw path from itself.
- `IndexStore`: definitions are never updated (INSERT IGNORE on `usr`), and calls of an
  old version stay beside those of the new one: there is no "background purger"
  (ParseTask.h:180). The time of a row, which is to tell whether a unit is obsolete
  (ParseTask.cc:645-646), does not tell it for a change in the same second, after clang
  read the file: no later run notices, until the file changes again. `UpToDateIsCurrent`
  says that nothing else is missed.
- `Projects`: the "Unique id associated with project_root_" (IndexCtx.h) is not unique
  when two runs register a root at once, or when the INSERT was lost; a run that draws a
  taken id ends. A root spelled in two ways is two projects.
- "All interfaces does not throw exception" (MYSQLConn.h), but `query` does;
  `multi_dml`, which nothing calls, returns 1 on success.

## 6. Not modelled, and the plan

Next:

1. Two runs that index the same project at once, with the header rows that `LOCK TABLES`
   protects, on top of `IndexStore`.
2. Files that are deleted, and units that include one another.

Left out for good: `multi_dml`, prepared statements, `debug_single_file` and
`update_indexed_file`, which nothing calls or which are for debugging; class definitions,
which are collected and never stored; how a compiler instance is built
(ClangCompiler.cc); what clang reports about a unit beyond the order of symbols;
formatting of statements, logging, command line, hashing and string utilities.
