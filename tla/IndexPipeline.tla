--------------------------- MODULE IndexPipeline ---------------------------
(***************************************************************************)
(* do_indexing (src/indexer/Main.cc:223-334) with its parse tasks          *)
(* (ParseTask::do_parse) and store tasks (ParseTask::do_store), composed   *)
(* over the queue of module IndexQueue: a parse task is one of its         *)
(* producers, a store task one of its consumers, and the main thread is    *)
(* the caller of set_stop.                                                 *)
(*                                                                         *)
(* Abstracted here: what a translation unit contains and how its           *)
(* statements change the database.  Every task has a worker of the pool    *)
(* (module TaskCounts).                                                    *)
(***************************************************************************)
EXTENDS IndexQueue

CONSTANTS ExtraStores,   \* the consumers that do_indexing may start late
          CanFail,       \* the tasks whose connection to the database may fail
          LargeBacklog,  \* 100_KB statements
          SmallBacklog   \* 1_KB statements

Stores == Consumers \ ExtraStores

NumCmds == Cardinality(Batches)   \* cmds_.size()

ASSUME PipelineAssumption ==
  /\ ExtraStores \subseteq Consumers
  /\ CanFail \subseteq Threads
  /\ IsFiniteSet(Batches) /\ Batches = 1 .. NumCmds
  /\ \A b \in Batches : BatchSize[b] >= 1   \* ParseTask.cc:322, the filepath row
  /\ LargeBacklog \in Nat /\ SmallBacklog \in Nat /\ SmallBacklog >= 1

VARIABLES
  main,     \* where do_indexing is
  parse,    \* where each parse task is
  store,    \* where each store task is
  counter,  \* *counter_: the next compile command to index
  tu,       \* the translation unit a parse task is indexing
  sent,     \* history: the translation units whose batch went to the queue
  stored    \* history: how many times each batch was stored

taskVars == <<main, parse, store, counter, tu, sent, stored>>
pipelineVars == <<stmts, num_stmts, set_stop, lower_times, wait, res,
                  main, parse, store, counter, tu, sent, stored>>

PipelineInit ==
  /\ Init
  /\ main = "parsing"
  /\ parse = [p \in Producers |-> "start"]
  /\ store = [s \in Consumers |-> IF s \in ExtraStores THEN "absent" ELSE "start"]
  /\ counter = 0
  /\ tu = [p \in Producers |-> 0]
  /\ sent = {}
  /\ stored = [b \in Batches |-> 0]

-----------------------------------------------------------------------------
(* do_parse                                                                 *)

ParseConnect(p) ==
  /\ parse[p] = "start"
  /\ \/ parse' = [parse EXCEPT ![p] = "claim"]
     \/ p \in CanFail /\ parse' = [parse EXCEPT ![p] = "failed"]
  /\ UNCHANGED <<vars, main, store, counter, tu, sent, stored>>

ClaimTwice(p) ==   \* mutant: the counter is read and increased in two steps
  /\ parse[p] = "claim" /\ wait[p] = "out"
  /\ tu' = [tu EXCEPT ![p] = IF counter < NumCmds THEN counter + 1 ELSE 0]
  /\ parse' = [parse EXCEPT ![p] = IF counter < NumCmds THEN "index" ELSE "done"]
  /\ counter' \in {counter, counter + 1}
  /\ UNCHANGED <<vars, main, store, sent, stored>>

ClaimPastEnd(p) ==   \* mutant: off by one at the end of the commands
  /\ parse[p] = "claim" /\ wait[p] = "out"
  /\ counter' = counter + 1
  /\ tu' = [tu EXCEPT ![p] = IF counter <= NumCmds THEN counter + 1 ELSE 0]
  /\ parse' = [parse EXCEPT ![p] = IF counter <= NumCmds THEN "index" ELSE "done"]
  /\ UNCHANGED <<vars, main, store, sent, stored>>

\* counter_->fetch_add(1); a task past the end cleans up and returns.
Claim(p) ==
  /\ parse[p] = "claim" /\ wait[p] = "out"
  /\ counter' = counter + 1
  /\ IF counter < NumCmds
     THEN /\ tu' = [tu EXCEPT ![p] = counter + 1]
          /\ parse' = [parse EXCEPT ![p] = "index"]
     ELSE /\ tu' = [tu EXCEPT ![p] = 0]
          /\ parse' = [parse EXCEPT ![p] = "done"]
  /\ UNCHANGED <<vars, main, store, sent, stored>>

\* index_translation_unit returns without a result: the file is up to date,
\* clang failed, no file id.
SkipTU(p) ==
  /\ parse[p] = "index"
  /\ parse' = [parse EXCEPT ![p] = "claim"]
  /\ UNCHANGED <<vars, main, store, counter, tu, sent, stored>>

\* ... or ends in send_indexed_result, which may wait inside add_stmts.
SendTU(p) ==
  /\ parse[p] = "index"
  /\ AddStmts(p, tu[p])
  /\ parse' = [parse EXCEPT ![p] = "claim"]
  /\ sent' = sent \cup {tu[p]}
  /\ UNCHANGED <<main, store, counter, tu, stored>>

ResumeParse(p) == AddStmtsWokenUp(p) /\ UNCHANGED taskVars

-----------------------------------------------------------------------------
(* do_store                                                                 *)

StoreConnect(s) ==
  /\ store[s] = "start"
  /\ \/ store' = [store EXCEPT ![s] = "get"]
     \/ s \in CanFail /\ store' = [store EXCEPT ![s] = "failed"]
  /\ UNCHANGED <<vars, main, parse, counter, tu, sent, stored>>

\* An empty vector would end the task, as nullptr does (ParseTask.cc:167).
StoreGet(s) ==
  /\ store[s] = "get"
  /\ \/ /\ GetStmtsBatch(s)
        /\ store' = [store EXCEPT ![s] = IF BatchSize[Head(stmts)] = 0 THEN "done" ELSE "dml"]
     \/ /\ GetStmtsNull(s)
        /\ store' = [store EXCEPT ![s] = "done"]
     \/ GetStmtsMustWait(s) /\ UNCHANGED store
  /\ UNCHANGED <<main, parse, counter, tu, sent, stored>>

StoreAndLeave(s) ==   \* mutant: the loop ends after one batch
  /\ store[s] = "dml"
  /\ stored' = [stored EXCEPT ![res[s]] = @ + 1]
  /\ store' = [store EXCEPT ![s] = "done"]
  /\ UNCHANGED <<vars, main, parse, counter, tu, sent>>

StoreDml(s) ==
  /\ store[s] = "dml"
  /\ stored' = [stored EXCEPT ![res[s]] = @ + 1]
  /\ store' = [store EXCEPT ![s] = "get"]
  /\ UNCHANGED <<vars, main, parse, counter, tu, sent>>

-----------------------------------------------------------------------------
(* do_indexing                                                              *)

Ended(state) == state \in {"done", "failed", "absent"}

StopEarly ==   \* mutant: set_stop before the parse tasks are joined
  /\ main = "parsing"
  /\ SetStopStore
  /\ main' = "stopping"
  /\ UNCHANGED <<parse, store, counter, tu, sent, stored>>

\* parse_results.get_all_with_except, then the first half of set_stop.
JoinParseTasks ==
  /\ main = "parsing" /\ \A p \in Producers : Ended(parse[p])
  /\ SetStopStore
  /\ main' = "stopping"
  /\ UNCHANGED <<parse, store, counter, tu, sent, stored>>

TellStores ==
  /\ main = "stopping"
  /\ SetStopNotify
  /\ main' = "extra"
  /\ UNCHANGED <<parse, store, counter, tu, sent, stored>>

StartExtraStores ==
  /\ main = "extra"
  /\ store' = [s \in Consumers |->
                 IF s \in ExtraStores /\ num_stmts >= LargeBacklog THEN "start" ELSE store[s]]
  /\ main' = "drain"
  /\ UNCHANGED <<vars, parse, counter, tu, sent, stored>>

\* The loop that sleeps for a second until the backlog is small.
WaitForBacklog ==
  /\ main = "drain" /\ num_stmts < SmallBacklog
  /\ main' = "join_stores"
  /\ UNCHANGED <<vars, parse, store, counter, tu, sent, stored>>

JoinNoStore ==   \* mutant: returns without joining the store tasks
  /\ main = "join_stores"
  /\ main' = "join_extra"
  /\ UNCHANGED <<vars, parse, store, counter, tu, sent, stored>>

JoinStores ==
  /\ main = "join_stores" /\ \A s \in Stores : Ended(store[s])
  /\ main' = "join_extra"
  /\ UNCHANGED <<vars, parse, store, counter, tu, sent, stored>>

JoinExtraStores ==
  /\ main = "join_extra" /\ \A s \in ExtraStores : Ended(store[s])
  /\ main' = "done"
  /\ UNCHANGED <<vars, parse, store, counter, tu, sent, stored>>

-----------------------------------------------------------------------------
ParseStep(p) == ParseConnect(p) \/ Claim(p) \/ SkipTU(p) \/ SendTU(p) \/ ResumeParse(p)

StoreStep(s) == StoreConnect(s) \/ StoreGet(s) \/ StoreDml(s)

MainStep == \/ JoinParseTasks \/ TellStores \/ StartExtraStores
            \/ WaitForBacklog \/ JoinStores \/ JoinExtraStores

WaitStep(t) == (Sleep(t) \/ SpuriousWakeup(t)) /\ UNCHANGED taskVars

PipelineNext == \/ \E p \in Producers : ParseStep(p)
                \/ \E s \in Consumers : StoreStep(s)
                \/ \E t \in Threads : WaitStep(t)
                \/ MainStep

PipelineSpec == PipelineInit /\ [][PipelineNext]_pipelineVars

(* Every thread runs: connecting, clang and the database answer in the end, *)
(* and a thread that wants the queue's mutex finds it free again and again  *)
(* until it gets it.  Waking up without a notification is never promised.   *)
PipelineFairness ==
  /\ \A p \in Producers : SF_pipelineVars(ParseStep(p))
  /\ \A s \in Consumers : SF_pipelineVars(StoreStep(s))
  /\ \A t \in Threads : WF_pipelineVars(Sleep(t) /\ UNCHANGED taskVars)
  /\ SF_pipelineVars(MainStep)

FairPipelineSpec == PipelineSpec /\ PipelineFairness

-----------------------------------------------------------------------------
(* Properties                                                               *)

Connected(s) == store[s] \in {"get", "dml", "done"}

\* The variables of the tasks have their types.
PipelineTypeOK ==
  /\ main \in {"parsing", "stopping", "extra", "drain", "join_stores", "join_extra", "done"}
  /\ parse \in [Producers -> {"start", "claim", "index", "failed", "done"}]
  /\ store \in [Consumers -> {"absent", "start", "get", "dml", "failed", "done"}]
  /\ counter \in 0 .. NumCmds + Cardinality(Producers)
  /\ tu \in [Producers -> Batches \cup {0}]
  /\ sent \subseteq Batches
  /\ stored \in [Batches -> Nat]

Copies(b) == Cardinality({i \in 1 .. Len(stmts) : stmts[i] = b})
             + Cardinality({s \in Consumers : store[s] = "dml" /\ res[s] = b})
             + stored[b]

\* The parse tasks share one atomic counter and the store tasks one queue
\* (ParseTask.cc:449, 166): a translation unit that was sent is at every moment in
\* the queue, in the hands of one store task or stored, and only once; one that
\* was not sent is nowhere.
EachUnitOnce == \A b \in Batches : Copies(b) = IF b \in sent THEN 1 ELSE 0

\* A store task that got a connection does not leave while a parse task may
\* still send something (ParseTask.cc:166-169, Main.cc:286-288), and when one has
\* left there is nothing in the queue and never will be.
StoresOutliveParsing ==
  (\E s \in Consumers : store[s] = "done") =>
    stmts = <<>> /\ \A p \in Producers : Ended(parse[p])

\* When do_indexing returns, every batch that was sent has been stored, if one
\* store task at least had a connection (Main.cc:317-329).
StoredAtExit ==
  main = "done" /\ (\E s \in Stores : store[s] # "failed") =>
    \A b \in Batches : stored[b] = IF b \in sent THEN 1 ELSE 0

\* do_indexing returns (Main.cc:277-331), although its parse tasks may all wait in
\* add_stmts and its store tasks in get_stmts, and some tasks get no connection.
Finishes == <>(main = "done")
=============================================================================
