--------------------------- MODULE ManagedMysqld ---------------------------
(***************************************************************************)
(* pview with a mysqld of its own (--noexternal_mysql): class MYSQLMgr     *)
(* (src/indexer/MYSQLMgr.h, .cc) and its use in do_main, over several runs *)
(* of the program on one data directory.  A run initializes the directory  *)
(* with one child process if it is empty, starts mysqld as another one,    *)
(* connects once, and kills mysqld when it exits, if it is told to.        *)
(*                                                                         *)
(* The children are processes of their own: they go on when pview crashes. *)
(***************************************************************************)
EXTENDS Integers

CONSTANT NumRuns   \* bound: how often pview is started

ASSUME NumRunsAssumption == NumRuns \in Nat \ {0}

Runs == 1 .. NumRuns

VARIABLES
  run,          \* the current run, or the last one
  main,         \* where do_main is
  kill_at_exit, \* conf_.kill_at_exit of each run
  running,      \* status_.running of the current run
  datadir,      \* "absent", "empty", "partial" or "inited"
  initializer,  \* of each run: the child mysqld --initialize-insecure
  server,       \* of each run: the child mysqld; status_.mysqld_pid names the current one
  ended         \* how each run ended

vars == <<run, main, kill_at_exit, running, datadir, initializer, server, ended>>

Init == /\ run = 0 /\ main = "off" /\ running = FALSE
        /\ kill_at_exit \in [Runs -> BOOLEAN]
        /\ datadir \in {"absent", "empty"}
        /\ initializer = [r \in Runs |-> "none"]
        /\ server = [r \in Runs |-> "none"]
        /\ ended = [r \in Runs |-> "not_yet"]

-----------------------------------------------------------------------------
(* pview                                                                    *)

\* From the start of do_main to start_mysqld, or an error before.
StartRun ==
  /\ main = "off" /\ run < NumRuns
  /\ run' = run + 1
  /\ main' \in {"start_mysqld", "failed"}
  /\ running' = FALSE
  /\ UNCHANGED <<kill_at_exit, datadir, initializer, server, ended>>

\* is_empty throws for a directory that does not exist: nobody catches it.
IsEmptyThrows ==
  /\ main = "start_mysqld" /\ datadir = "absent"
  /\ main' = "off" /\ ended' = [ended EXCEPT ![run] = "crashed"]
  /\ UNCHANGED <<run, kill_at_exit, running, datadir, initializer, server>>

SkipInitialize ==
  /\ main = "start_mysqld" /\ datadir \notin {"absent", "empty"}
  /\ main' = "exec_mysqld"
  /\ UNCHANGED <<run, kill_at_exit, running, datadir, initializer, server, ended>>

InitializeNoWait ==   \* mutant: the child is started and not waited for
  /\ main = "start_mysqld" /\ datadir = "empty"
  /\ initializer' = [initializer EXCEPT ![run] = "running"] /\ main' = "exec_mysqld"
  /\ UNCHANGED <<run, kill_at_exit, running, datadir, server, ended>>

\* The directories are not writable, or fork fails; or a child is forked, in which
\* execve may fail: the child then is a second pview, without threads.
Initialize ==
  /\ main = "start_mysqld" /\ datadir = "empty"
  /\ \/ main' = "failed" /\ UNCHANGED initializer
     \/ /\ main' = "waitpid"
        /\ \E s \in {"running", "lost"} : initializer' = [initializer EXCEPT ![run] = s]
  /\ UNCHANGED <<run, kill_at_exit, running, datadir, server, ended>>

CheckExited ==   \* mutant: a child that failed is waited for again
  /\ main = "waitpid" /\ initializer[run] = "done"
  /\ main' = "exec_mysqld"
  /\ UNCHANGED <<run, kill_at_exit, running, datadir, initializer, server, ended>>

\* check_command returns when the child exited or was killed, and goes on waiting
\* when it was stopped or continued.  No signal handler interrupts waitpid.
CheckCommand ==
  /\ main = "waitpid" /\ initializer[run] \in {"done", "failed"}
  /\ main' = IF initializer[run] = "done" THEN "exec_mysqld" ELSE "failed"
  /\ UNCHANGED <<run, kill_at_exit, running, datadir, initializer, server, ended>>

ExecUnchecked ==   \* mutant: the -1 of a fork that failed is taken for a pid
  /\ main = "exec_mysqld"
  /\ main' = "connect" /\ running' = TRUE
  /\ \E s \in {"none", "starting", "dead"} : server' = [server EXCEPT ![run] = s]
  /\ UNCHANGED <<run, kill_at_exit, datadir, initializer, ended>>

\* check_port_in_use always answers no: nothing is refused because of a mysqld that
\* an earlier run left.  The parent learns nothing of an execve that fails.
ExecMysqld ==
  /\ main = "exec_mysqld"
  /\ \/ main' = "failed" /\ UNCHANGED <<server, running>>
     \/ /\ main' = "connect" /\ running' = TRUE
        /\ \E s \in {"starting", "dead"} : server' = [server EXCEPT ![run] = s]
  /\ UNCHANGED <<run, kill_at_exit, datadir, initializer, ended>>

\* do_prepare connects once, to whoever listens on the port.
Connect ==
  /\ main = "connect"
  /\ \/ main' = "failed"
     \/ main' = "serving" /\ \E r \in Runs : server[r] = "up"
  /\ UNCHANGED <<run, kill_at_exit, running, datadir, initializer, server, ended>>

ReturnServed ==   \* mutant: mysqld is killed by a run that succeeds only
  /\ main \in {"serving", "failed"}
  /\ main' = "off" /\ ended' = [ended EXCEPT ![run] = "returned"]
  /\ server' = IF main = "serving" /\ kill_at_exit[run]
               THEN [server EXCEPT ![run] = "dead"] ELSE server
  /\ UNCHANGED <<run, kill_at_exit, running, datadir, initializer>>

\* do_main returns, and the destructor of the context destroys MYSQLMgr.
Return ==
  /\ main \in {"serving", "failed"}
  /\ main' = "off" /\ ended' = [ended EXCEPT ![run] = "returned"]
  /\ server' = IF running /\ kill_at_exit[run] THEN [server EXCEPT ![run] = "dead"] ELSE server
  /\ UNCHANGED <<run, kill_at_exit, running, datadir, initializer>>

\* pview is killed, or aborts.
Crash ==
  /\ main # "off"
  /\ main' = "off" /\ ended' = [ended EXCEPT ![run] = "crashed"]
  /\ UNCHANGED <<run, kill_at_exit, running, datadir, initializer, server>>

-----------------------------------------------------------------------------
(* mysqld                                                                   *)

\* mysqld --initialize writes into an empty directory only.
Write(r) ==
  /\ initializer[r] = "running" /\ datadir = "empty"
  /\ initializer' = [initializer EXCEPT ![r] = "writing"]
  /\ datadir' = "partial"
  /\ UNCHANGED <<run, main, kill_at_exit, running, server, ended>>

Complete(r) ==
  /\ initializer[r] = "writing"
  /\ initializer' = [initializer EXCEPT ![r] = "done"]
  /\ datadir' = "inited"
  /\ UNCHANGED <<run, main, kill_at_exit, running, server, ended>>

\* It finds the directory in use, meets an error, or is killed.  A lost child exits
\* with 1 unless it waits for ever for the threads of its parent's thread pool.
FailToInitialize(r) ==
  /\ initializer[r] \in {"running", "writing", "lost"}
  /\ initializer' = [initializer EXCEPT ![r] = "failed"]
  /\ UNCHANGED <<run, main, kill_at_exit, running, datadir, server, ended>>

\* mysqld needs complete data, the lock on them, and the port.
ComeUp(r) ==
  /\ server[r] = "starting" /\ datadir = "inited" /\ \A q \in Runs : server[q] # "up"
  /\ server' = [server EXCEPT ![r] = "up"]
  /\ UNCHANGED <<run, main, kill_at_exit, running, datadir, initializer, ended>>

Die(r) ==
  /\ server[r] \in {"starting", "up"}
  /\ server' = [server EXCEPT ![r] = "dead"]
  /\ UNCHANGED <<run, main, kill_at_exit, running, datadir, initializer, ended>>

-----------------------------------------------------------------------------
Pview == \/ IsEmptyThrows \/ SkipInitialize \/ Initialize \/ CheckCommand
         \/ ExecMysqld \/ Connect \/ Return

Initializer(r) == Write(r) \/ Complete(r) \/ (initializer[r] # "lost" /\ FailToInitialize(r))

Next == \/ StartRun \/ Pview \/ Crash
        \/ \E r \in Runs : \/ Write(r) \/ Complete(r) \/ FailToInitialize(r)
                           \/ ComeUp(r) \/ Die(r)

Spec == Init /\ [][Next]_vars

\* pview takes its steps, and mysqld --initialize comes to an end.
FairSpec == Spec /\ WF_vars(Pview) /\ \A r \in Runs : WF_vars(Initializer(r))

-----------------------------------------------------------------------------
(* Properties                                                               *)

\* Every variable has its type; status_.running is set only with a child's pid.
TypeOK ==
  /\ run \in 0 .. NumRuns /\ running \in BOOLEAN /\ kill_at_exit \in [Runs -> BOOLEAN]
  /\ main \in {"off", "start_mysqld", "waitpid", "exec_mysqld", "connect", "serving", "failed"}
  /\ main # "off" => run \in Runs /\ ended[run] = "not_yet"
  /\ main # "off" /\ running => server[run] # "none"
  /\ datadir \in {"absent", "empty", "partial", "inited"}
  /\ initializer \in [Runs -> {"none", "running", "writing", "lost", "done", "failed"}]
  /\ server \in [Runs -> {"none", "starting", "up", "dead"}]
  /\ ended \in [Runs -> {"not_yet", "returned", "crashed"}]

\* "it is make sure not to live longer than the pview process" (MYSQLMgr.h:45), as
\* long as pview returns, with success or failure, and is told to kill it.
NotOutlived ==
  \A r \in Runs : ended[r] = "returned" /\ kill_at_exit[r] => server[r] \in {"none", "dead"}

\* No mysqld starts on data whose initialization is going on or was given up
\* (MYSQLMgr.cc:261, 289, 327), unless a run crashed or an initialization failed.
StartsOnCompleteData ==
  main \in {"exec_mysqld", "connect", "serving"} =>
    \/ datadir = "inited"
    \/ \E r \in 1 .. run - 1 : ended[r] = "crashed" \/ initializer[r] = "failed"

\* start_mysqld and the connection come to an end one way or the other, although
\* check_command waits without a limit (MYSQLMgr.cc:79-104), unless execve failed.
RunSettles ==
  main # "off" ~> main \in {"off", "serving"} \/ (run \in Runs /\ initializer[run] = "lost")
=============================================================================
