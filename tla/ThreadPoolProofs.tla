-------------------------- MODULE ThreadPoolProofs --------------------------
(***************************************************************************)
(* Proofs about ThreadPool, for any workers and tasks: the safety of the   *)
(* pool needs no fairness, so they start from Init and Next.               *)
(***************************************************************************)
EXTENDS ThreadPool, FiniteSetTheorems, TLAPS

WorkerStates == {"free", "deciding", "asleep", "woken", "running", "exited"}

\* The types, but for the bound on ran.
Typed == /\ tasks \in Seq(Tasks)
         /\ stopped \in BOOLEAN
         /\ worker \in [Workers -> WorkerStates]
         /\ task \in [Workers -> Tasks \cup {NoTask}]
         /\ main \in {"calls", "notifies", "stops", "joins", "gone"}
         /\ added \in SUBSET Tasks
         /\ ran \in [Tasks -> Nat]

\* Where the tasks are: a worker has one while it runs it; nothing is in two places.
Queued(t) == \E i \in 1 .. Len(tasks) : tasks[i] = t
Held(t) == \E w \in Workers : task[w] = t

Placed ==
  /\ \A w \in Workers : worker[w] = "running" <=> task[w] # NoTask
  /\ \A i, j \in 1 .. Len(tasks) : tasks[i] = tasks[j] => i = j
  /\ \A v, w \in Workers : task[v] = task[w] /\ task[v] # NoTask => v = w
  /\ \A t \in Tasks : Queued(t) => t \in added /\ ~Held(t) /\ ran[t] = 0
  /\ \A t \in Tasks : Held(t) => t \in added /\ ran[t] = 0
  /\ \A t \in Tasks : ran[t] = IF t \in added /\ ~Queued(t) /\ ~Held(t) THEN 1 ELSE 0

\* A worker that is about to sleep holds the mutex, and found the queue empty.
DecidesOnEmpty == \A w \in Workers : worker[w] = "deciding" => tasks = <<>>

PoolInv == Typed /\ Placed /\ DecidesOnEmpty /\ NoTaskWakeupLost

-----------------------------------------------------------------------------
\* Waking workers keeps the states typed.
LEMMA NotifiedType ==
  ASSUME worker \in [Workers -> WorkerStates], NEW ws
  PROVE  Notified(ws) \in [Workers -> WorkerStates]
BY DEF Notified, WorkerStates

\* Nothing is queued or held at the start.
LEMMA PoolInit == Init => PoolInv
<1> SUFFICES ASSUME Init PROVE PoolInv
  OBVIOUS
<1> USE PoolAssumption DEF Init
<1>1. Typed
  <2>1. /\ tasks \in Seq(Tasks)
        /\ stopped \in BOOLEAN
        /\ added \in SUBSET Tasks
    <3>1. tasks \in Seq(Tasks)
      BY SMT
    <3>2. stopped \in BOOLEAN
      OBVIOUS
    <3>3. added \in SUBSET Tasks
      OBVIOUS
    <3> QED BY <3>1, <3>2, <3>3
  <2>2. worker \in [Workers -> WorkerStates] /\ task \in [Workers -> Tasks \cup {NoTask}]
    BY DEF WorkerStates
  <2>3. main \in {"calls", "notifies", "stops", "joins", "gone"} /\ ran \in [Tasks -> Nat]
    OBVIOUS
  <2> QED BY <2>1, <2>2, <2>3 DEF Typed
<1>2. Placed
  BY DEF Placed, Queued, Held
<1>3. DecidesOnEmpty
  BY DEF DecidesOnEmpty
<1>4. NoTaskWakeupLost
  BY DEF NoTaskWakeupLost
<1> QED BY <1>1, <1>2, <1>3, <1>4 DEF PoolInv

\* The variables keep their types.
LEMMA TypedInductive == Typed /\ Placed /\ [Next]_vars => Typed'
<1> SUFFICES ASSUME Typed, Placed, [Next]_vars PROVE Typed'
  OBVIOUS
<1> USE PoolAssumption DEF Typed, WorkerStates
<1>1. ASSUME NEW w \in Workers, TakeTask(w) PROVE Typed'
  BY <1>1 DEF TakeTask
<1>2. ASSUME NEW w \in Workers, MustWait(w) \/ Sleep(w) \/ SpuriousWakeup(w) \/ Exit(w)
      PROVE  Typed'
  BY <1>2 DEF MustWait, Sleep, SpuriousWakeup, Exit
<1>3. ASSUME NEW w \in Workers, EndTask(w) PROVE Typed'
  <2>1. task[w] \in Tasks
    BY <1>3 DEF EndTask, Placed
  <2> QED BY <1>3, <2>1 DEF EndTask
<1>4. ASSUME NEW t \in Tasks, AddTask(t) PROVE Typed'
  BY <1>4 DEF AddTask
<1>5. CASE NotifyOne \/ NotifyAll
  <2>1. PICK ws : worker' = Notified(ws)
    BY <1>5 DEF NotifyOne, NotifyAll
  <2>2. worker' \in [Workers -> WorkerStates]
    BY <2>1, NotifiedType
  <2> QED BY <1>5, <2>2 DEF NotifyOne, NotifyAll
<1>6. CASE StoreStopped \/ Join
  BY <1>6 DEF StoreStopped, Join
<1>7. CASE UNCHANGED vars
  BY <1>7 DEF vars
<1> QED BY <1>1, <1>2, <1>3, <1>4, <1>5, <1>6, <1>7 DEF Next, WorkerStep, MainStep

\* A step that takes, ends and adds no task leaves the tasks where they are.
LEMMA PlacedUnchanged ==
  ASSUME Placed, UNCHANGED <<tasks, task, added, ran>>,
         \A w \in Workers : worker'[w] = "running" <=> worker[w] = "running"
  PROVE  Placed'
BY DEF Placed, Queued, Held

\* A task goes from add_task to the queue, to one worker, and to its end.
LEMMA PlacedInductive == Typed /\ Placed /\ [Next]_vars => Placed'
<1> SUFFICES ASSUME Typed, Placed, [Next]_vars PROVE Placed'
  OBVIOUS
<1> USE PoolAssumption DEF Typed
<1>1. ASSUME NEW w \in Workers, TakeTask(w) PROVE Placed'
  <2> DEFINE h == tasks[1]
  <2>1. h \in Tasks /\ h # NoTask /\ tasks # <<>>
    BY <1>1 DEF TakeTask
  <2>2. Len(tasks') = Len(tasks) - 1 /\ \A i \in 1 .. Len(tasks') : tasks'[i] = tasks[i + 1]
    BY <1>1 DEF TakeTask
  <2>3. task[w] = NoTask
    BY <1>1 DEF TakeTask, CanTakeMutex, Placed
  <2>4. \A v \in Workers : task'[v] = IF v = w THEN h ELSE task[v]
    BY <1>1 DEF TakeTask
  <2>5. \A v \in Workers : worker'[v] = IF v = w THEN "running" ELSE worker[v]
    BY <1>1 DEF TakeTask
  <2>6. Queued(h) /\ ~Held(h) /\ h \in added /\ ran[h] = 0
    BY <2>1 DEF Queued, Placed
  <2>7. \A t \in Tasks : Queued(t)' <=> Queued(t) /\ t # h
    <3> SUFFICES ASSUME NEW t \in Tasks PROVE Queued(t)' <=> Queued(t) /\ t # h
      OBVIOUS
    <3>1. ASSUME Queued(t)' PROVE Queued(t) /\ t # h
      <4>1. PICK i \in 1 .. Len(tasks') : tasks'[i] = t
        BY <3>1 DEF Queued
      <4>2. i + 1 \in 1 .. Len(tasks) /\ tasks[i + 1] = t /\ 1 \in 1 .. Len(tasks)
        BY <2>1, <2>2, <4>1
      <4> QED BY <4>2 DEF Queued, Placed
    <3>2. ASSUME Queued(t), t # h PROVE Queued(t)'
      <4>1. PICK i \in 1 .. Len(tasks) : tasks[i] = t
        BY <3>2 DEF Queued
      <4>2. i - 1 \in 1 .. Len(tasks') /\ (i - 1) + 1 = i
        BY <2>2, <3>2, <4>1
      <4>3. tasks'[i - 1] = t
        BY <2>2, <4>1, <4>2
      <4> QED BY <4>2, <4>3 DEF Queued
    <3> QED BY <3>1, <3>2
  <2>8. \A t \in Tasks : Held(t)' <=> Held(t) \/ t = h
    BY <2>3, <2>4, <2>6 DEF Held
  <2>9. added' = added /\ ran' = ran
    BY <1>1 DEF TakeTask
  <2> HIDE DEF h
  <2>10. \A v \in Workers : worker'[v] = "running" <=> task'[v] # NoTask
    BY <2>1, <2>4, <2>5 DEF Placed
  <2>11. \A i, j \in 1 .. Len(tasks') : tasks'[i] = tasks'[j] => i = j
    <3> SUFFICES ASSUME NEW i \in 1 .. Len(tasks'), NEW j \in 1 .. Len(tasks'),
                        tasks'[i] = tasks'[j]
                 PROVE  i = j
      OBVIOUS
    <3>1. i + 1 \in 1 .. Len(tasks) /\ j + 1 \in 1 .. Len(tasks)
      BY <2>2
    <3>2. tasks[i + 1] = tasks[j + 1]
      BY <2>2
    <3>3. i + 1 = j + 1
      BY <3>1, <3>2 DEF Placed
    <3> QED BY <3>3
  <2>12. \A u, v \in Workers : task'[u] = task'[v] /\ task'[u] # NoTask => u = v
    BY <2>4, <2>6 DEF Placed, Held
  <2>13. \A t \in Tasks : Queued(t)' => t \in added' /\ ~Held(t)' /\ ran'[t] = 0
    BY <2>7, <2>8, <2>9 DEF Placed
  <2>14. \A t \in Tasks : Held(t)' => t \in added' /\ ran'[t] = 0
    BY <2>6, <2>8, <2>9 DEF Placed
  <2>15. \A t \in Tasks : ran'[t] = IF t \in added' /\ ~Queued(t)' /\ ~Held(t)' THEN 1 ELSE 0
    BY <2>6, <2>7, <2>8, <2>9 DEF Placed
  <2> QED BY <2>10, <2>11, <2>12, <2>13, <2>14, <2>15 DEF Placed
<1>2. ASSUME NEW w \in Workers, MustWait(w) \/ Sleep(w) \/ SpuriousWakeup(w) \/ Exit(w)
      PROVE  Placed'
  BY <1>2, PlacedUnchanged DEF MustWait, Sleep, SpuriousWakeup, Exit, CanTakeMutex
<1>3. ASSUME NEW w \in Workers, EndTask(w) PROVE Placed'
  <2> DEFINE e == task[w]
  <2>1. e \in Tasks /\ e # NoTask /\ Held(e) /\ e \in added /\ ran[e] = 0 /\ ~Queued(e)
    BY <1>3 DEF EndTask, Placed, Held
  <2>2. \A v \in Workers : task'[v] = IF v = w THEN NoTask ELSE task[v]
    BY <1>3 DEF EndTask
  <2>3. \A v \in Workers : worker'[v] = IF v = w THEN "free" ELSE worker[v]
    BY <1>3 DEF EndTask
  <2>4. \A t \in Tasks : ran'[t] = IF t = e THEN 1 ELSE ran[t]
    BY <1>3, <2>1 DEF EndTask
  <2>5. \A t \in Tasks : Held(t)' <=> Held(t) /\ t # e
    BY <2>1, <2>2 DEF Held, Placed
  <2>6. added' = added /\ tasks' = tasks /\ \A t \in Tasks : Queued(t)' <=> Queued(t)
    BY <1>3 DEF EndTask, Queued
  <2> HIDE DEF e
  <2>7. \A v \in Workers : worker'[v] = "running" <=> task'[v] # NoTask
    BY <2>2, <2>3 DEF Placed
  <2>8. \A u, v \in Workers : task'[u] = task'[v] /\ task'[u] # NoTask => u = v
    BY <2>2 DEF Placed
  <2>9. \A t \in Tasks : Queued(t)' => t \in added' /\ ~Held(t)' /\ ran'[t] = 0
    BY <2>1, <2>4, <2>5, <2>6 DEF Placed
  <2>10. \A t \in Tasks : Held(t)' => t \in added' /\ ran'[t] = 0
    BY <2>4, <2>5, <2>6 DEF Placed
  <2>11. \A t \in Tasks : ran'[t] = IF t \in added' /\ ~Queued(t)' /\ ~Held(t)' THEN 1 ELSE 0
    BY <2>1, <2>4, <2>5, <2>6 DEF Placed
  <2> QED BY <2>6, <2>7, <2>8, <2>9, <2>10, <2>11 DEF Placed
<1>4. ASSUME NEW t \in Tasks, AddTask(t) PROVE Placed'
  <2>1. Len(tasks') = Len(tasks) + 1
        /\ \A i \in 1 .. Len(tasks') : tasks'[i] = IF i = Len(tasks) + 1 THEN t ELSE tasks[i]
    BY <1>4 DEF AddTask
  <2>2. t \notin added /\ added' = added \cup {t} /\ UNCHANGED <<worker, task, ran>>
    BY <1>4 DEF AddTask
  <2>3. ~Queued(t) /\ ~Held(t)
    BY <2>2 DEF Placed
  <2>4. \A u \in Tasks : Queued(u)' <=> Queued(u) \/ u = t
    <3> SUFFICES ASSUME NEW u \in Tasks PROVE Queued(u)' <=> Queued(u) \/ u = t
      OBVIOUS
    <3>1. ASSUME Queued(u)' PROVE Queued(u) \/ u = t
      <4>1. PICK i \in 1 .. Len(tasks') : tasks'[i] = u
        BY <3>1 DEF Queued
      <4>2. i \in 1 .. Len(tasks) \/ i = Len(tasks) + 1
        BY <2>1
      <4> QED BY <2>1, <4>1, <4>2 DEF Queued
    <3>2. ASSUME Queued(u) PROVE Queued(u)'
      <4>1. PICK i \in 1 .. Len(tasks) : tasks[i] = u
        BY <3>2 DEF Queued
      <4>2. i \in 1 .. Len(tasks') /\ i # Len(tasks) + 1
        BY <2>1
      <4> QED BY <2>1, <4>1, <4>2 DEF Queued
    <3>3. ASSUME u = t PROVE Queued(u)'
      <4>1. Len(tasks) + 1 \in 1 .. Len(tasks') /\ tasks'[Len(tasks) + 1] = u
        BY <2>1, <3>3
      <4> QED BY <4>1 DEF Queued
    <3> QED BY <3>1, <3>2, <3>3
  <2>5. \A u \in Tasks : Held(u)' <=> Held(u)
    BY <2>2 DEF Held
  <2>6. \A i, j \in 1 .. Len(tasks') : tasks'[i] = tasks'[j] => i = j
    <3> SUFFICES ASSUME NEW i \in 1 .. Len(tasks'), NEW j \in 1 .. Len(tasks'),
                        tasks'[i] = tasks'[j]
                 PROVE  i = j
      OBVIOUS
    <3>1. \A k \in 1 .. Len(tasks) : tasks[k] # t
      BY <2>3 DEF Queued
    <3>2. \A k \in 1 .. Len(tasks') :
            \/ k \in 1 .. Len(tasks) /\ tasks'[k] = tasks[k]
            \/ k = Len(tasks) + 1 /\ tasks'[k] = t
      BY <2>1
    <3> QED BY <3>1, <3>2 DEF Placed
  <2>7. \A u \in Tasks : Queued(u)' => u \in added' /\ ~Held(u)' /\ ran'[u] = 0
    BY <2>2, <2>3, <2>4, <2>5 DEF Placed
  <2>8. \A u \in Tasks : Held(u)' => u \in added' /\ ran'[u] = 0
    BY <2>2, <2>5 DEF Placed
  <2>9. \A u \in Tasks : ran'[u] = IF u \in added' /\ ~Queued(u)' /\ ~Held(u)' THEN 1 ELSE 0
    BY <2>2, <2>3, <2>4, <2>5 DEF Placed
  <2> QED BY <2>2, <2>6, <2>7, <2>8, <2>9 DEF Placed
<1>5. CASE NotifyOne \/ NotifyAll
  <2>1. PICK ws : worker' = Notified(ws) /\ ws \subseteq Asleep
    BY <1>5 DEF NotifyOne, NotifyAll, OneOf
  <2>2. \A w \in Workers : worker'[w] = "running" <=> worker[w] = "running"
    BY <2>1 DEF Notified, Asleep
  <2> QED BY <1>5, <2>2, PlacedUnchanged DEF NotifyOne, NotifyAll
<1>6. CASE StoreStopped \/ Join
  BY <1>6, PlacedUnchanged DEF StoreStopped, Join
<1>7. CASE UNCHANGED vars
  BY <1>7, PlacedUnchanged DEF vars
<1> QED BY <1>1, <1>2, <1>3, <1>4, <1>5, <1>6, <1>7 DEF Next, WorkerStep, MainStep

\* Only a worker that found no task decides to sleep, and add_task needs its mutex.
LEMMA DecidesInductive == Typed /\ DecidesOnEmpty /\ [Next]_vars => DecidesOnEmpty'
<1> SUFFICES ASSUME Typed, DecidesOnEmpty, [Next]_vars,
                    NEW d \in Workers, worker'[d] = "deciding"
             PROVE  tasks' = <<>>
  BY DEF DecidesOnEmpty
<1> USE DEF Typed, DecidesOnEmpty, CanTakeMutex, MutexFree
<1>1. ASSUME NEW w \in Workers, TakeTask(w) PROVE tasks' = <<>>
  BY <1>1 DEF TakeTask
<1>2. ASSUME NEW w \in Workers, MustWait(w) PROVE tasks' = <<>>
  BY <1>2 DEF MustWait
<1>3. ASSUME NEW w \in Workers, Sleep(w) \/ SpuriousWakeup(w) \/ Exit(w) \/ EndTask(w)
      PROVE  tasks' = <<>>
  BY <1>3 DEF Sleep, SpuriousWakeup, Exit, EndTask
<1>4. ASSUME NEW t \in Tasks, AddTask(t) PROVE tasks' = <<>>
  BY <1>4 DEF AddTask
<1>5. CASE NotifyOne \/ NotifyAll
  <2>1. PICK ws : worker' = Notified(ws) /\ tasks' = tasks
    BY <1>5 DEF NotifyOne, NotifyAll
  <2>2. worker[d] = "deciding"
    BY <2>1 DEF Notified
  <2> QED BY <2>1, <2>2
<1>6. CASE StoreStopped \/ Join
  BY <1>6 DEF StoreStopped, Join
<1>7. CASE UNCHANGED vars
  BY <1>7 DEF vars
<1> QED BY <1>1, <1>2, <1>3, <1>4, <1>5, <1>6, <1>7 DEF Next, WorkerStep, MainStep

\* The woken workers can be counted.
LEMMA WokenFinite ==
  /\ IsFiniteSet(Woken) /\ Cardinality(Woken) \in Nat
  /\ IsFiniteSet(Woken') /\ Cardinality(Woken') \in Nat
BY PoolAssumption, FS_Subset, FS_CardinalityType DEF Woken

\* The notification that add_task still owes its task.
Owed == IF main = "notifies" THEN 1 ELSE 0

\* add_task owes one wakeup for each task, and a woken worker that runs takes one.
LEMMA WakeupInductive ==
  Typed /\ DecidesOnEmpty /\ NoTaskWakeupLost /\ [Next]_vars => NoTaskWakeupLost'
<1> SUFFICES ASSUME Typed, DecidesOnEmpty, NoTaskWakeupLost, [Next]_vars,
                    NEW d \in Workers, worker'[d] \in {"deciding", "asleep"}
             PROVE  Len(tasks') <= Cardinality(Woken') + Owed'
  BY DEF NoTaskWakeupLost, Owed
<1> USE PoolAssumption, WokenFinite DEF Typed
<1>0. /\ Len(tasks) \in Nat
      /\ worker[d] \in {"deciding", "asleep"} => Len(tasks) <= Cardinality(Woken) + Owed
  BY DEF NoTaskWakeupLost, Owed
<1>1. ASSUME NEW w \in Workers, TakeTask(w) PROVE Len(tasks') <= Cardinality(Woken') + Owed'
  <2>1. Len(tasks') = Len(tasks) - 1 /\ main' = main
    BY <1>1 DEF TakeTask
  <2>2. \A v \in Workers : worker'[v] = IF v = w THEN "running" ELSE worker[v]
    BY <1>1 DEF TakeTask
  <2>3. Woken' = Woken \ {w}
    BY <2>2 DEF Woken
  <2>4. Cardinality(Woken') >= Cardinality(Woken) - 1
    <3> DEFINE S == Woken
    <3>1. IsFiniteSet(S) /\ Cardinality(S) \in Nat
      OBVIOUS
    <3> HIDE DEF S
    <3>2. Cardinality(S \ {w}) = IF w \in S THEN Cardinality(S) - 1 ELSE Cardinality(S)
      BY <3>1, FS_RemoveElement
    <3>3. Cardinality(S \ {w}) >= Cardinality(S) - 1
      BY <3>1, <3>2
    <3> QED BY <2>3, <3>3 DEF S
  <2>5. worker[d] \in {"deciding", "asleep"}
    BY <2>2
  <2> QED BY <1>0, <2>1, <2>4, <2>5 DEF Owed
<1>2. ASSUME NEW w \in Workers, MustWait(w) \/ Exit(w)
      PROVE  Len(tasks') <= Cardinality(Woken') + Owed'
  <2>1. tasks' = <<>>
    BY <1>2 DEF MustWait, Exit
  <2> QED BY <2>1 DEF Owed
<1>3. ASSUME NEW w \in Workers, Sleep(w) PROVE Len(tasks') <= Cardinality(Woken') + Owed'
  <2>1. tasks' = <<>>
    BY <1>3 DEF Sleep, DecidesOnEmpty
  <2> QED BY <2>1 DEF Owed
<1>4. ASSUME NEW w \in Workers, SpuriousWakeup(w)
      PROVE  Len(tasks') <= Cardinality(Woken') + Owed'
  <2>1. \A v \in Workers : worker'[v] = IF v = w THEN "woken" ELSE worker[v]
    BY <1>4 DEF SpuriousWakeup
  <2>2. Woken \subseteq Woken' /\ worker[d] \in {"deciding", "asleep"}
    BY <2>1 DEF Woken
  <2>3. Cardinality(Woken) <= Cardinality(Woken')
    BY <2>2, FS_Subset
  <2>4. tasks' = tasks /\ main' = main
    BY <1>4 DEF SpuriousWakeup
  <2> QED BY <1>0, <2>2, <2>3, <2>4 DEF Owed
<1>5. ASSUME NEW w \in Workers, EndTask(w) PROVE Len(tasks') <= Cardinality(Woken') + Owed'
  <2>1. \A v \in Workers : worker'[v] = IF v = w THEN "free" ELSE worker[v]
    BY <1>5 DEF EndTask
  <2>2. Woken' = Woken /\ worker[d] \in {"deciding", "asleep"}
    BY <1>5, <2>1 DEF EndTask, Woken
  <2>3. tasks' = tasks /\ main' = main
    BY <1>5 DEF EndTask
  <2> QED BY <1>0, <2>2, <2>3 DEF Owed
<1>6. ASSUME NEW t \in Tasks, AddTask(t) PROVE Len(tasks') <= Cardinality(Woken') + Owed'
  <2>1. Len(tasks') = Len(tasks) + 1 /\ Owed = 0 /\ Owed' = 1 /\ worker' = worker
    BY <1>6 DEF AddTask, Owed
  <2>2. Woken' = Woken
    BY <2>1 DEF Woken
  <2> QED BY <1>0, <2>1, <2>2
<1>7. CASE NotifyOne
  <2>1. PICK ws \in OneOf(Asleep) : worker' = Notified(ws)
    BY <1>7 DEF NotifyOne
  <2>2. \A v \in Workers : worker'[v] = IF v \in ws THEN "woken" ELSE worker[v]
    BY <2>1 DEF Notified
  <2>3. tasks' = tasks /\ Owed = 1 /\ Owed' = 0 /\ worker[d] \in {"deciding", "asleep"}
    BY <1>7, <2>2 DEF NotifyOne, Owed
  <2>4. CASE worker[d] = "deciding"
    BY <2>3, <2>4 DEF DecidesOnEmpty
  <2>5. CASE worker[d] = "asleep"
    <3>1. PICK a \in Asleep : ws = {a}
      BY <2>1, <2>5 DEF OneOf, Asleep
    <3>2. Woken' = Woken \cup {a} /\ a \notin Woken
      BY <2>2, <3>1 DEF Woken, Asleep
    <3>3. Cardinality(Woken') = Cardinality(Woken) + 1
      BY <3>2, FS_AddElement
    <3> QED BY <1>0, <2>3, <3>3
  <2> QED BY <2>3, <2>4, <2>5
<1>8. CASE NotifyAll
  <2>1. \A v \in Workers : worker'[v] = IF v \in Asleep THEN "woken" ELSE worker[v]
    BY <1>8 DEF NotifyAll, Notified
  <2>2. worker[d] = "deciding"
    BY <2>1 DEF Asleep
  <2>3. tasks' = <<>>
    BY <1>8, <2>2 DEF NotifyAll, DecidesOnEmpty
  <2> QED BY <2>3 DEF Owed
<1>9. CASE StoreStopped \/ Join
  <2>1. worker' = worker /\ tasks' = tasks /\ Owed' = Owed
    BY <1>9 DEF StoreStopped, Join, Owed
  <2>2. Woken' = Woken
    BY <2>1 DEF Woken
  <2> QED BY <1>0, <2>1, <2>2
<1>10. CASE UNCHANGED vars
  <2>1. worker' = worker /\ tasks' = tasks /\ Owed' = Owed
    BY <1>10 DEF vars, Owed
  <2>2. Woken' = Woken
    BY <2>1 DEF Woken
  <2> QED BY <1>0, <2>1, <2>2
<1> QED
  BY <1>1, <1>2, <1>3, <1>4, <1>5, <1>6, <1>7, <1>8, <1>9, <1>10
  DEF Next, WorkerStep, MainStep

\* Every step of the workers and of the client keeps the invariant.
LEMMA PoolInductive == PoolInv /\ [Next]_vars => PoolInv'
BY TypedInductive, PlacedInductive, DecidesInductive, WakeupInductive DEF PoolInv

\* The invariant holds in every behaviour; the fairness of FairSpec is not used.
LEMMA InvariantHolds == FairSpec => []PoolInv
BY PoolInit, PoolInductive, PTL DEF FairSpec

-----------------------------------------------------------------------------
\* A set whose members are all equal has at most one.
LEMMA AtMostOne ==
  ASSUME NEW S, \A x, y \in S : x = y
  PROVE  Cardinality(S) = IF S = {} THEN 0 ELSE 1
<1>1. CASE S = {}
  BY <1>1, FS_EmptySet
<1>2. CASE S # {}
  <2>1. PICK x : S = {x}
    BY <1>2
  <2>2. Cardinality(S) = 1
    BY <2>1, FS_Singleton
  <2> QED BY <1>2, <2>2
<1> QED BY <1>1, <1>2

\* ran counts to one at most, as no task runs twice.
LEMMA PlacedRunsOnce == Typed /\ Placed => TypeOK
<1> SUFFICES ASSUME Typed, Placed PROVE TypeOK
  OBVIOUS
<1>1. \A t \in Tasks : ran[t] \in 0 .. 1
  BY DEF Placed
<1>2. ran \in [Tasks -> 0 .. 1]
  BY <1>1 DEF Typed
<1> QED BY <1>2 DEF Typed, TypeOK, WorkerStates

\* A task in one place at most is counted once.
LEMMA PlacedCounts == Typed /\ Placed => EachTaskOnce
<1> SUFFICES ASSUME Typed, Placed, NEW t \in Tasks
             PROVE  Cardinality({i \in 1 .. Len(tasks) : tasks[i] = t})
                      + Cardinality({w \in Workers : task[w] = t}) + ran[t]
                    = IF t \in added THEN 1 ELSE 0
  BY DEF EachTaskOnce
<1> DEFINE Q == {i \in 1 .. Len(tasks) : tasks[i] = t}
           H == {w \in Workers : task[w] = t}
<1>1. Cardinality(Q) = IF Queued(t) THEN 1 ELSE 0
  <2>1. \A i, j \in Q : i = j
    BY DEF Placed
  <2>2. Q = {} <=> ~Queued(t)
    BY DEF Queued
  <2> HIDE DEF Q
  <2> QED BY <2>1, <2>2, AtMostOne
<1>2. Cardinality(H) = IF Held(t) THEN 1 ELSE 0
  <2>1. \A v, w \in H : v = w
    BY PoolAssumption DEF Placed
  <2>2. H = {} <=> ~Held(t)
    BY DEF Held
  <2> HIDE DEF H
  <2> QED BY <2>1, <2>2, AtMostOne
<1>3. /\ Queued(t) => t \in added /\ ~Held(t) /\ ran[t] = 0
      /\ Held(t) => t \in added /\ ran[t] = 0
      /\ ran[t] = IF t \in added /\ ~Queued(t) /\ ~Held(t) THEN 1 ELSE 0
  BY DEF Placed
<1> HIDE DEF Q, H
<1>4. Cardinality(Q) + Cardinality(H) + ran[t] = IF t \in added THEN 1 ELSE 0
  BY <1>1, <1>2, <1>3
<1> QED BY <1>4 DEF Q, H

-----------------------------------------------------------------------------
\* Every variable of the pool keeps its type, and a task never runs to its end twice.
THEOREM PoolTypes == FairSpec => []TypeOK
<1>1. PoolInv => TypeOK
  BY PlacedRunsOnce DEF PoolInv
<1> QED BY <1>1, InvariantHolds, PTL

\* However many workers share the queue (Worker::run pops under the mutex), a task
\* given to add_task is queued, run by one worker, or done, and never two of these.
THEOREM TasksOnce == FairSpec => []EachTaskOnce
<1>1. PoolInv => EachTaskOnce
  BY PlacedCounts DEF PoolInv
<1> QED BY <1>1, InvariantHolds, PTL

\* add_task notifies after it released the mutex; still no task waits in the queue
\* while every worker that could take it sleeps and no notification is coming.
THEOREM TaskWakeups == FairSpec => []NoTaskWakeupLost
BY InvariantHolds, PTL DEF PoolInv
=============================================================================
