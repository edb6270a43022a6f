---------------------------- MODULE ThreadPool ----------------------------
(***************************************************************************)
(* class ThreadPool (src/indexer/ThreadPool.h, ThreadPool.cc): a fixed set *)
(* of workers, a FIFO of tasks, one mutex, one condition variable and an   *)
(* atomic stop flag, used by one client: the main thread, which adds tasks *)
(* from do_indexing, waits for their futures and destroys the pool when    *)
(* the process exits.  Waiting is modelled as in module IndexQueue.        *)
(***************************************************************************)
EXTENDS Integers, Sequences, FiniteSets

CONSTANTS Workers, Tasks, NoTask

ASSUME PoolAssumption == IsFiniteSet(Workers) /\ IsFiniteSet(Tasks) /\ NoTask \notin Tasks

VARIABLES
  tasks,    \* tasks
  stopped,  \* stopped
  worker,   \* each worker: "free" (wants the mutex), "deciding", "asleep", "woken",
            \* "running", "exited"
  task,     \* what each worker runs
  main,     \* the client: "calls", "notifies", "stops", "joins", "gone"
  added,    \* history: the tasks given to add_task
  ran       \* history: how often each task ran to its end

vars == <<tasks, stopped, worker, task, main, added, ran>>

Init == /\ tasks = <<>>
        /\ stopped = FALSE
        /\ worker = [w \in Workers |-> "free"]
        /\ task = [w \in Workers |-> NoTask]
        /\ main = "calls"
        /\ added = {}
        /\ ran = [t \in Tasks |-> 0]

MutexFree == \A w \in Workers : worker[w] # "deciding"

Asleep == {w \in Workers : worker[w] = "asleep"}

Woken == {w \in Workers : worker[w] = "woken"}

NobodyOf(S) == {{}}   \* mutant: the notification is forgotten

OneOf(S) == IF S = {} THEN {{}} ELSE {{w} : w \in S}

Notified(ws) == [w \in Workers |-> IF w \in ws THEN "woken" ELSE worker[w]]

-----------------------------------------------------------------------------
(* The loop of a worker                                                     *)

CanTakeMutex(w) == worker[w] \in {"free", "woken"} /\ MutexFree

\* Mutant: the front task is read but stays in the queue.
TakeWithoutPop(w) ==
  /\ CanTakeMutex(w) /\ tasks # <<>>
  /\ task' = [task EXCEPT ![w] = Head(tasks)]
  /\ worker' = [worker EXCEPT ![w] = "running"]
  /\ UNCHANGED <<tasks, stopped, main, added, ran>>

TakeTask(w) ==
  /\ CanTakeMutex(w) /\ tasks # <<>>
  /\ task' = [task EXCEPT ![w] = Head(tasks)]
  /\ tasks' = Tail(tasks)
  /\ worker' = [worker EXCEPT ![w] = "running"]
  /\ UNCHANGED <<stopped, main, added, ran>>

MustWait(w) ==
  /\ CanTakeMutex(w) /\ tasks = <<>> /\ ~stopped
  /\ worker' = [worker EXCEPT ![w] = "deciding"]
  /\ UNCHANGED <<tasks, stopped, task, main, added, ran>>

Sleep(w) ==
  /\ worker[w] = "deciding"
  /\ worker' = [worker EXCEPT ![w] = "asleep"]
  /\ UNCHANGED <<tasks, stopped, task, main, added, ran>>

SpuriousWakeup(w) ==
  /\ worker[w] = "asleep"
  /\ worker' = [worker EXCEPT ![w] = "woken"]
  /\ UNCHANGED <<tasks, stopped, task, main, added, ran>>

Exit(w) ==
  /\ CanTakeMutex(w) /\ tasks = <<>> /\ stopped
  /\ worker' = [worker EXCEPT ![w] = "exited"]
  /\ UNCHANGED <<tasks, stopped, task, main, added, ran>>

\* The task ends: its future is ready.
EndTask(w) ==
  /\ worker[w] = "running"
  /\ ran' = [ran EXCEPT ![task[w]] = @ + 1]
  /\ task' = [task EXCEPT ![w] = NoTask]
  /\ worker' = [worker EXCEPT ![w] = "free"]
  /\ UNCHANGED <<tasks, stopped, main, added>>

-----------------------------------------------------------------------------
(* The client: add_task notifies after it released the mutex                *)

AddTask(t) ==
  /\ main = "calls" /\ t \notin added /\ MutexFree
  /\ tasks' = Append(tasks, t)
  /\ added' = added \cup {t}
  /\ main' = "notifies"
  /\ UNCHANGED <<stopped, worker, task, ran>>

NotifyOne ==
  /\ main = "notifies"
  /\ \E ws \in OneOf(Asleep) : worker' = Notified(ws)
  /\ main' = "calls"
  /\ UNCHANGED <<tasks, stopped, task, added, ran>>

\* ~ThreadPool runs once every future was fetched; it takes no mutex.
StoreStopped ==
  /\ main = "calls" /\ \A t \in added : ran[t] >= 1
  /\ stopped' = TRUE
  /\ main' = "stops"
  /\ UNCHANGED <<tasks, worker, task, added, ran>>

NotifyAll ==
  /\ main = "stops"
  /\ worker' = Notified(Asleep)
  /\ main' = "joins"
  /\ UNCHANGED <<tasks, stopped, task, added, ran>>

Join ==
  /\ main = "joins" /\ \A w \in Workers : worker[w] = "exited"
  /\ main' = "gone"
  /\ UNCHANGED <<tasks, stopped, worker, task, added, ran>>

-----------------------------------------------------------------------------
WorkerStep(w) == TakeTask(w) \/ MustWait(w) \/ Sleep(w) \/ Exit(w) \/ EndTask(w)

MainStep == NotifyOne \/ NotifyAll \/ Join

Next == \/ \E w \in Workers : WorkerStep(w) \/ SpuriousWakeup(w)
        \/ \E t \in Tasks : AddTask(t)
        \/ MainStep \/ StoreStopped

\* Workers run whenever the mutex is free often enough, tasks end, and the main
\* thread finishes what it began.  It may add tasks and exit or not.
FairSpec == /\ Init /\ [][Next]_vars
            /\ \A w \in Workers : SF_vars(WorkerStep(w))
            /\ WF_vars(MainStep)

-----------------------------------------------------------------------------
(* Properties                                                               *)

TypeOK == /\ tasks \in Seq(Tasks)
          /\ stopped \in BOOLEAN
          /\ worker \in [Workers -> {"free", "deciding", "asleep", "woken", "running", "exited"}]
          /\ task \in [Workers -> Tasks \cup {NoTask}]
          /\ main \in {"calls", "notifies", "stops", "joins", "gone"}
          /\ added \subseteq Tasks
          /\ ran \in [Tasks -> 0 .. 1]

\* No task is lost or run twice by the workers that share the queue
\* (ThreadPool.cc:65-79): one that was added is queued, running or finished.
EachTaskOnce ==
  \A t \in Tasks :
    Cardinality({i \in 1 .. Len(tasks) : tasks[i] = t})
      + Cardinality({w \in Workers : task[w] = t}) + ran[t]
    = IF t \in added THEN 1 ELSE 0

\* add_task notifies after it released the mutex (ThreadPool.h:139-145): while a
\* worker sleeps, every queued task has a woken worker or a notification coming.
NoTaskWakeupLost ==
  (\E w \in Workers : worker[w] \in {"deciding", "asleep"}) =>
    Len(tasks) <= Cardinality(Woken) + IF main = "notifies" THEN 1 ELSE 0

\* Each task given to add_task runs: every future becomes ready.
TasksRun == \A t \in Tasks : (t \in added) ~> (ran[t] = 1)

\* Once the destructor began, every worker is joined (ThreadPool.cc:94-104 and the
\* assertion of ~Worker, ThreadPool.h:105).
PoolGoes == stopped ~> (main = "gone")
=============================================================================
