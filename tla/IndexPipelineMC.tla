-------------------------- MODULE IndexPipelineMC --------------------------
(* A small instance of IndexPipeline: more translation units than the queue *)
(* holds, statements of two sizes, one extra store task; and the numbers of *)
(* tasks that module TaskCounts is about.                                   *)
EXTENDS IndexPipeline

Counts == INSTANCE TaskCounts

\* What TaskCounts proves, for some machines: each task has a worker.
ASSUME TasksHaveWorkers ==
  \A cpus \in 1 .. 40, flag \in 0 .. 80, cmds \in {0, 1, 5, 200} :
    /\ Counts!ParseTasks(cpus, flag) >= 1 /\ Counts!StoreTasks(cpus, flag) >= 2
    /\ Counts!StoreTasks(cpus, flag) + Counts!StartedParseTasks(cpus, flag, cmds)
         <= Counts!Workers(cpus)
    /\ Counts!StartedExtraStores(cpus, flag, cmds) <= Counts!StartedParseTasks(cpus, flag, cmds)

CONSTANT N   \* the number of compile commands

MCBatches == 1 .. N

MCBatchSize == [b \in MCBatches |-> IF b = 1 THEN 1 ELSE 2]

\* do_indexing returns once; the process then ends.
Terminated == main = "done" /\ UNCHANGED pipelineVars

MCSpec == PipelineInit /\ [][PipelineNext \/ Terminated]_pipelineVars /\ PipelineFairness
=============================================================================
