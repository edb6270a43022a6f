------------------------ MODULE IndexPipelineProofs ------------------------
(***************************************************************************)
(* Proofs about IndexQueue, for any sets of parse and store tasks and any  *)
(* thresholds, and about IndexPipeline over it: do_indexing uses the queue *)
(* as module IndexQueue lets its clients use it, so that everything proved *)
(* of the queue holds there, and each translation unit that was sent is    *)
(* stored once by the time do_indexing returns, for any number of tasks    *)
(* and commands.                                                           *)
(***************************************************************************)
EXTENDS IndexPipeline, NatSets, FiniteSetTheorems, TLAPS

-----------------------------------------------------------------------------
(* The queue                                                                *)

\* What all the proofs know about the values of the variables.
Typed == /\ stmts \in Seq(Batches)
         /\ set_stop \in {"not_called", "stored", "returned"}
         /\ lower_times \in 0 .. WakeEvery - 1
         /\ wait \in [Threads -> {"out", "deciding", "asleep", "woken"}]
         /\ res \in [Consumers -> Batches \cup {Nothing, NoMore}]

\* Waking threads keeps the wait states typed, and only sleepers are woken.
LEMMA NotifiedType ==
  ASSUME wait \in [Threads -> {"out", "deciding", "asleep", "woken"}], NEW w
  PROVE  Notified(w) \in [Threads -> {"out", "deciding", "asleep", "woken"}]
BY DEF Notified

\* The wait states, the queue and the results keep their types.
LEMMA TypedInductive == Typed /\ [Next]_vars => Typed'
<1> SUFFICES ASSUME Typed, [Next]_vars PROVE Typed'
  OBVIOUS
<1> USE ThreadsAssumption, ThresholdAssumption, BatchAssumption
<1> USE DEF Typed
<1>1. ASSUME NEW p \in Producers, NEW b \in Batches, AddStmts(p, b)
      PROVE  Typed'
  <2>1. PICK w : wait' = [Notified(w) EXCEPT ![p] = IF ProducerMayLeave(Len(stmts) + 1)
                                                    THEN "out" ELSE "deciding"]
    BY <1>1 DEF AddStmts
  <2>2. wait' \in [Threads -> {"out", "deciding", "asleep", "woken"}]
    BY <2>1, NotifiedType
  <2> QED BY <1>1, <2>2 DEF AddStmts
<1>2. ASSUME NEW p \in Producers, AddStmtsWokenUp(p) PROVE Typed'
  BY <1>2 DEF AddStmtsWokenUp
<1>3. ASSUME NEW c \in Consumers, GetStmtsBatch(c) PROVE Typed'
  <2>1. PICK w : wait' = [Notified(w) EXCEPT ![c] = "out"]
    BY <1>3 DEF GetStmtsBatch
  <2>2. wait' \in [Threads -> {"out", "deciding", "asleep", "woken"}]
    BY <2>1, NotifiedType
  <2>3. lower_times' \in 0 .. WakeEvery - 1
    BY <1>3 DEF GetStmtsBatch
  <2> QED BY <1>3, <2>2, <2>3 DEF GetStmtsBatch
<1>4. ASSUME NEW c \in Consumers, GetStmtsNull(c) \/ GetStmtsMustWait(c) PROVE Typed'
  BY <1>4 DEF GetStmtsNull, GetStmtsMustWait
<1>5. ASSUME NEW t \in Threads, Sleep(t) \/ SpuriousWakeup(t) PROVE Typed'
  BY <1>5 DEF Sleep, SpuriousWakeup
<1>6. CASE SetStopStore
  BY <1>6 DEF SetStopStore
<1>7. CASE SetStopNotify
  BY <1>7, NotifiedType DEF SetStopNotify
<1>8. CASE UNCHANGED vars
  BY <1>8 DEF vars
<1> QED
  BY <1>1, <1>2, <1>3, <1>4, <1>5, <1>6, <1>7, <1>8 DEF Next, ProducerStep, ConsumerStep

-----------------------------------------------------------------------------
(* The sums that num_stmts_ is compared with                                *)

\* The recursive definition of Sums has a solution, so Sums is one.
LEMMA SumsDef ==
  ASSUME NEW q \in Seq(Batches)
  PROVE  \A n \in 0 .. Len(q) :
           /\ Sums(q)[n] = IF n = 0 THEN 0 ELSE Sums(q)[n - 1] + BatchSize[q[n]]
           /\ Sums(q)[n] \in Nat
<1> DEFINE L == Len(q)
           s == [n \in Nat |-> IF n \in 1 .. L THEN BatchSize[q[n]] ELSE 0]
<1>1. /\ L \in Nat /\ s \in [Nat -> Nat]
      /\ \A n \in Nat : n < L => /\ s[n + 1] = BatchSize[q[n + 1]]
                                /\ BatchSize[q[n + 1]] \in Nat
  BY BatchAssumption
<1> HIDE DEF L, s
<1>2. PICK f \in [Nat -> Nat] :
             f[0] = 0 /\ \A n \in Nat : n < L => f[n + 1] = f[n] + s[n + 1]
  BY <1>1, PartialSums
<1> DEFINE h == [n \in 0 .. L |-> f[n]]
<1>3. ASSUME NEW n \in 0 .. L
      PROVE  h[n] = IF n = 0 THEN 0 ELSE h[n - 1] + BatchSize[q[n]]
  <2>1. CASE n = 0
    BY <1>1, <1>2, <2>1
  <2>2. CASE n # 0
    <3>1. n - 1 \in Nat /\ n - 1 < L /\ (n - 1) + 1 = n
      BY <1>1, <2>2
    <3>2. f[(n - 1) + 1] = f[n - 1] + BatchSize[q[(n - 1) + 1]]
      BY <1>1, <1>2, <3>1
    <3> QED BY <1>1, <2>2, <3>1, <3>2
  <2> QED BY <2>1, <2>2
<1>4. h = [n \in 0 .. L |-> IF n = 0 THEN 0 ELSE h[n - 1] + BatchSize[q[n]]]
  BY <1>3
<1> HIDE DEF h
<1>5. Sums(q) = [n \in 0 .. L |-> IF n = 0 THEN 0 ELSE Sums(q)[n - 1] + BatchSize[q[n]]]
  BY <1>4 DEF Sums, L
<1>6. \A n \in 0 .. L : Sums(q)[n] = IF n = 0 THEN 0 ELSE Sums(q)[n - 1] + BatchSize[q[n]]
  BY <1>5
<1> DEFINE M == {n \in Nat : n <= L => Sums(q)[n] \in Nat}
<1>8. 0 \in M
  <2>1. 0 \in 0 .. L
    BY <1>1
  <2> QED BY <1>6, <2>1
<1>9. ASSUME NEW n \in M PROVE n + 1 \in M
  <2> SUFFICES ASSUME n < L PROVE Sums(q)[n + 1] \in Nat
    BY <1>1
  <2>1. n + 1 \in 0 .. L /\ n + 1 # 0 /\ (n + 1) - 1 = n
    BY <1>1
  <2>2. Sums(q)[n + 1] = Sums(q)[n] + BatchSize[q[n + 1]]
    BY <1>6, <2>1
  <2>3. Sums(q)[n] \in Nat /\ BatchSize[q[n + 1]] \in Nat
    BY <1>1
  <2>4. \A x, y \in Nat : x + y \in Nat
    OBVIOUS
  <2> QED BY <2>2, <2>3, <2>4, Zenon
<1>10. M = Nat
  <2>1. M \in SUBSET Nat
    OBVIOUS
  <2> HIDE DEF M
  <2> QED BY <1>8, <1>9, <2>1, SetInduction
<1>11. ASSUME NEW n \in 0 .. L PROVE Sums(q)[n] \in Nat
  <2>1. n \in Nat /\ n <= L
    BY <1>1
  <2>2. n \in M
    BY <2>1, <1>10, Zenon
  <2> QED BY <2>1, <2>2, Zenon
<1> QED BY <1>6, <1>11 DEF L

\* Pushing a batch adds its size to the sum.
LEMMA StmtsInAppend ==
  ASSUME NEW q \in Seq(Batches), NEW b \in Batches
  PROVE  StmtsIn(Append(q, b)) = StmtsIn(q) + BatchSize[b]
<1> DEFINE r == Append(q, b)
           M == {n \in Nat : n <= Len(q) => Sums(r)[n] = Sums(q)[n]}
<1>1. /\ r \in Seq(Batches) /\ Len(r) = Len(q) + 1 /\ Len(q) \in Nat
      /\ r[Len(q) + 1] = b
      /\ \A n \in Nat : n < Len(q) => r[n + 1] = q[n + 1]
  OBVIOUS
<1> HIDE DEF r
<1>2. 0 \in M
  BY <1>1, SumsDef
<1>3. ASSUME NEW n \in M PROVE n + 1 \in M
  <2> SUFFICES ASSUME n < Len(q) PROVE Sums(r)[n + 1] = Sums(q)[n + 1]
    BY <1>1
  <2>1. n + 1 \in 0 .. Len(q) /\ n + 1 \in 0 .. Len(r) /\ n + 1 # 0 /\ (n + 1) - 1 = n
    BY <1>1
  <2>2. Sums(r)[n + 1] = Sums(r)[n] + BatchSize[r[n + 1]]
    BY <1>1, <2>1, SumsDef
  <2>3. Sums(q)[n + 1] = Sums(q)[n] + BatchSize[q[n + 1]]
    BY <1>1, <2>1, SumsDef
  <2> QED BY <1>1, <2>2, <2>3
<1>4. M = Nat
  <2>1. M \in SUBSET Nat
    OBVIOUS
  <2> HIDE DEF M
  <2> QED BY <1>2, <1>3, <2>1, SetInduction
<1>5. Len(r) \in 0 .. Len(r) /\ Len(r) # 0 /\ Len(r) - 1 = Len(q)
  BY <1>1
<1>6. Sums(r)[Len(r)] = Sums(r)[Len(q)] + BatchSize[b]
  BY <1>1, <1>5, SumsDef
<1> QED BY <1>1, <1>4, <1>6 DEF StmtsIn, r

\* Popping the first batch takes its size away from the sum.
LEMMA StmtsInTail ==
  ASSUME NEW q \in Seq(Batches), q # <<>>
  PROVE  StmtsIn(q) = StmtsIn(Tail(q)) + BatchSize[Head(q)]
<1> DEFINE r == Tail(q)
           M == {n \in Nat : n <= Len(r) => Sums(q)[n + 1] = Sums(r)[n] + BatchSize[q[1]]}
<1>1. /\ r \in Seq(Batches) /\ Len(q) = Len(r) + 1 /\ Len(r) \in Nat
      /\ Head(q) = q[1] /\ q[1] \in Batches
      /\ \A n \in Nat : n < Len(r) => r[n + 1] = q[n + 2] /\ q[n + 2] \in Batches
  OBVIOUS
<1> HIDE DEF r
<1>2. 0 \in M
  <2>1. /\ 0 \in 0 .. Len(q) /\ 1 \in 0 .. Len(q) /\ 0 \in 0 .. Len(r)
        /\ 1 # 0 /\ 1 - 1 = 0
    BY <1>1
  <2>2. Sums(q)[1] = Sums(q)[0] + BatchSize[q[1]] /\ Sums(q)[0] = 0 /\ Sums(r)[0] = 0
    BY <1>1, <2>1, SumsDef
  <2> QED BY <2>2
<1>3. ASSUME NEW n \in M PROVE n + 1 \in M
  <2> SUFFICES ASSUME n < Len(r)
               PROVE  Sums(q)[n + 2] = Sums(r)[n + 1] + BatchSize[q[1]]
    BY <1>1
  <2>1. /\ n + 1 \in 0 .. Len(r) /\ n + 2 \in 0 .. Len(q) /\ n \in 0 .. Len(r)
        /\ n + 1 # 0 /\ n + 2 # 0 /\ (n + 1) - 1 = n /\ (n + 2) - 1 = n + 1
    BY <1>1
  <2>2. Sums(r)[n + 1] = Sums(r)[n] + BatchSize[q[n + 2]] /\ Sums(r)[n] \in Nat
    BY <1>1, <2>1, SumsDef
  <2>3. Sums(q)[n + 2] = Sums(q)[n + 1] + BatchSize[q[n + 2]]
    BY <1>1, <2>1, SumsDef
  <2>4. BatchSize[q[1]] \in Nat /\ BatchSize[q[n + 2]] \in Nat
    BY <1>1, BatchAssumption
  <2>5. Sums(q)[n + 1] = Sums(r)[n] + BatchSize[q[1]]
    OBVIOUS
  <2> QED BY <2>2, <2>3, <2>4, <2>5
<1>4. M = Nat
  <2>1. M \in SUBSET Nat
    OBVIOUS
  <2> HIDE DEF M
  <2> QED BY <1>2, <1>3, <2>1, SetInduction
<1> QED BY <1>1, <1>4 DEF StmtsIn, r

\* The number of statements in a queue is a natural number.
LEMMA StmtsInNat == ASSUME NEW q \in Seq(Batches) PROVE StmtsIn(q) \in Nat
BY SumsDef DEF StmtsIn

-----------------------------------------------------------------------------
(* Each safety property is preserved by every step.                         *)

\* notify_one wakes one sleeper if there is one, and nobody else.
LEMMA OneOfProperties ==
  ASSUME NEW S, NEW w \in OneOf(S)
  PROVE  /\ w \subseteq S
         /\ S # {} => \E t \in S : w = {t}
         /\ S = {} => w = {}
BY DEF OneOf

\* get_stmts notifies sleeping parse tasks only.
LEMMA ProducersToWakeSubset ==
  ASSUME NEW n \in Int, NEW w \in ProducersToWake(n)
  PROVE  w \subseteq Asleep(Producers)
BY OneOfProperties DEF ProducersToWake

\* set_stop notifies under the mutex, and who tests a predicate later sees the flag.
LEMMA NobodySleepsInductive ==
  Typed /\ NobodySleepsAfterStop /\ [Next]_vars => NobodySleepsAfterStop'
<1> SUFFICES ASSUME Typed, NobodySleepsAfterStop, [Next]_vars,
                    (set_stop = "returned")', NEW u \in Threads
             PROVE  wait'[u] \notin {"deciding", "asleep"}
  BY DEF NobodySleepsAfterStop, Waiting, Threads
<1> USE DEF Typed, NobodySleepsAfterStop, Waiting
<1>1. ASSUME NEW p \in Producers, NEW b \in Batches, AddStmts(p, b)
      PROVE  wait'[u] \notin {"deciding", "asleep"}
  BY <1>1, NotifiedType DEF AddStmts, ProducerMayLeave, stop, Notified
<1>2. ASSUME NEW p \in Producers, AddStmtsWokenUp(p)
      PROVE  wait'[u] \notin {"deciding", "asleep"}
  BY <1>2 DEF AddStmtsWokenUp, ProducerMayLeave, stop
<1>3. ASSUME NEW c \in Consumers, GetStmtsBatch(c)
      PROVE  wait'[u] \notin {"deciding", "asleep"}
  BY <1>3, NotifiedType DEF GetStmtsBatch, Notified
<1>4. ASSUME NEW c \in Consumers, GetStmtsNull(c) \/ GetStmtsMustWait(c)
      PROVE  wait'[u] \notin {"deciding", "asleep"}
  BY <1>4 DEF GetStmtsNull, GetStmtsMustWait, stop
<1>5. ASSUME NEW t \in Threads, Sleep(t) \/ SpuriousWakeup(t)
      PROVE  wait'[u] \notin {"deciding", "asleep"}
  BY <1>5 DEF Sleep, SpuriousWakeup
<1>6. CASE SetStopStore
  BY <1>6 DEF SetStopStore
<1>7. CASE SetStopNotify
  BY <1>7 DEF SetStopNotify, MutexFree, Notified, Asleep
<1>8. CASE UNCHANGED vars
  BY <1>8 DEF vars
<1> QED
  BY <1>1, <1>2, <1>3, <1>4, <1>5, <1>6, <1>7, <1>8 DEF Next, ProducerStep, ConsumerStep

\* A parse task falls asleep at the wait threshold, and get_stmts wakes all of them
\* when it goes below the exit threshold.
LEMMA ProducerWakeupInductive ==
  Typed /\ NoProducerWakeupLost /\ [Next]_vars => NoProducerWakeupLost'
<1> SUFFICES ASSUME Typed, NoProducerWakeupLost, [Next]_vars,
                    NEW q \in Producers, wait'[q] \in {"deciding", "asleep"}
             PROVE  Len(stmts') >= ExitThreshold
  BY DEF NoProducerWakeupLost, Waiting
<1> USE ThreadsAssumption, ThresholdAssumption
<1> USE DEF Typed, NoProducerWakeupLost, Waiting, Threads
<1>0. Len(stmts) \in Nat
  OBVIOUS
<1>1. ASSUME NEW p \in Producers, NEW b \in Batches, AddStmts(p, b)
      PROVE  Len(stmts') >= ExitThreshold
  <2>1. Len(stmts') = Len(stmts) + 1
    BY <1>1 DEF AddStmts
  <2>2. CASE q = p
    BY <1>1, <2>1, <2>2, NotifiedType DEF AddStmts, ProducerMayLeave
  <2>3. CASE q # p
    <3>1. wait[q] \in {"deciding", "asleep"}
      BY <1>1, <2>3, NotifiedType DEF AddStmts, Notified
    <3> QED BY <3>1, <2>1
  <2> QED BY <2>2, <2>3
<1>2. ASSUME NEW p \in Producers, AddStmtsWokenUp(p) PROVE Len(stmts') >= ExitThreshold
  BY <1>2 DEF AddStmtsWokenUp, ProducerMayLeave
<1>3. ASSUME NEW c \in Consumers, GetStmtsBatch(c) PROVE Len(stmts') >= ExitThreshold
  <2>1. Len(stmts') = Len(stmts) - 1
    BY <1>3 DEF GetStmtsBatch
  <2>2. PICK w \in ProducersToWake(Len(stmts) - 1) :
               wait' = [Notified(w) EXCEPT ![c] = "out"]
    BY <1>3 DEF GetStmtsBatch
  <2>3. wait[q] = "asleep" /\ q \notin w
    BY <1>3, <2>2, NotifiedType DEF GetStmtsBatch, InGetStmts, MutexFree, Notified
  <2>4. CASE Len(stmts) - 1 < ExitThreshold
    BY <2>2, <2>3, <2>4 DEF ProducersToWake, Asleep
  <2> QED BY <2>1, <2>4
<1>4. ASSUME NEW c \in Consumers, GetStmtsNull(c) \/ GetStmtsMustWait(c)
      PROVE  Len(stmts') >= ExitThreshold
  BY <1>4 DEF GetStmtsNull, GetStmtsMustWait
<1>5. ASSUME NEW t \in Threads, Sleep(t) \/ SpuriousWakeup(t)
      PROVE  Len(stmts') >= ExitThreshold
  BY <1>5 DEF Sleep, SpuriousWakeup
<1>6. CASE SetStopStore
  BY <1>6 DEF SetStopStore
<1>7. CASE SetStopNotify
  BY <1>7 DEF SetStopNotify, Notified, Asleep
<1>8. CASE UNCHANGED vars
  BY <1>8 DEF vars
<1> QED
  BY <1>1, <1>2, <1>3, <1>4, <1>5, <1>6, <1>7, <1>8 DEF Next, ProducerStep, ConsumerStep

\* The woken store tasks can be counted.
LEMMA WokenFinite ==
  /\ IsFiniteSet(Woken(Consumers)) /\ Cardinality(Woken(Consumers)) \in Nat
  /\ IsFiniteSet(Woken(Consumers)') /\ Cardinality(Woken(Consumers)') \in Nat
BY ThreadsAssumption, FS_Subset, FS_CardinalityType DEF Woken

\* add_stmts wakes a store task for its batch, and one that runs takes a batch.
LEMMA ConsumerWakeupInductive ==
  Typed /\ NoConsumerWakeupLost /\ [Next]_vars => NoConsumerWakeupLost'
<1> SUFFICES ASSUME Typed, NoConsumerWakeupLost, [Next]_vars,
                    NEW d \in Consumers, wait'[d] \in {"deciding", "asleep"}
             PROVE  Len(stmts') <= Cardinality(Woken(Consumers)')
  BY DEF NoConsumerWakeupLost, Waiting
<1> DEFINE W == Woken(Consumers)
<1> USE ThreadsAssumption, WokenFinite
<1> USE DEF Typed, NoConsumerWakeupLost, Waiting, Threads
<1>0. Len(stmts) \in Nat
  OBVIOUS
<1>1. ASSUME NEW p \in Producers, NEW b \in Batches, AddStmts(p, b)
      PROVE  Len(stmts') <= Cardinality(W')
  <2>1. PICK w \in OneOf(Asleep(Consumers)) :
          wait' = [Notified(w) EXCEPT ![p] = IF ProducerMayLeave(Len(stmts) + 1)
                                             THEN "out" ELSE "deciding"]
    BY <1>1 DEF AddStmts
  <2>2. \A c \in Consumers : wait'[c] = IF c \in w THEN "woken" ELSE wait[c]
    BY <2>1, NotifiedType DEF Notified
  <2>3. wait[d] = "asleep"
    BY <1>1, <2>2 DEF AddStmts, MutexFree
  <2>4. PICK t \in Asleep(Consumers) : w = {t}
    BY <2>3 DEF Asleep, OneOf
  <2>5. W' = W \cup {t} /\ t \notin W
    BY <2>2, <2>4 DEF Woken, Asleep
  <2>6. Cardinality(W') = Cardinality(W) + 1
    BY <2>5, FS_AddElement
  <2>7. Len(stmts') = Len(stmts) + 1
    BY <1>1 DEF AddStmts
  <2> QED BY <2>3, <2>6, <2>7
<1>2. ASSUME NEW p \in Producers, AddStmtsWokenUp(p)
      PROVE  Len(stmts') <= Cardinality(W')
  <2>1. \A c \in Consumers : wait'[c] = wait[c]
    BY <1>2 DEF AddStmtsWokenUp
  <2>2. W' = W
    BY <2>1 DEF Woken
  <2> QED BY <1>2, <2>1, <2>2 DEF AddStmtsWokenUp
<1>3. ASSUME NEW c \in Consumers, GetStmtsBatch(c)
      PROVE  Len(stmts') <= Cardinality(W')
  <2>1. Len(stmts') = Len(stmts) - 1
    BY <1>3 DEF GetStmtsBatch
  <2>2. PICK w \in ProducersToWake(Len(stmts) - 1) :
               wait' = [Notified(w) EXCEPT ![c] = "out"]
    BY <1>3 DEF GetStmtsBatch
  <2>3. w \subseteq Producers
    BY <2>2, ProducersToWakeSubset DEF Asleep
  <2>4. \A e \in Consumers : wait'[e] = IF e = c THEN "out" ELSE wait[e]
    BY <2>2, <2>3, NotifiedType DEF Notified
  <2>5. Len(stmts) <= Cardinality(W)
    BY <2>4
  <2>6. W' = W \ {c}
    BY <2>4 DEF Woken
  <2>7. Cardinality(W') >= Cardinality(W) - 1
    BY <2>6, FS_RemoveElement
  <2> QED BY <2>1, <2>5, <2>7
<1>4. ASSUME NEW c \in Consumers, GetStmtsNull(c) \/ GetStmtsMustWait(c)
      PROVE  Len(stmts') <= Cardinality(W')
  BY <1>4 DEF GetStmtsNull, GetStmtsMustWait
<1>5. ASSUME NEW t \in Threads, Sleep(t) PROVE Len(stmts') <= Cardinality(W')
  <2>1. W' = W
    BY <1>5 DEF Sleep, Woken
  <2> QED BY <1>5, <2>1 DEF Sleep
<1>6. ASSUME NEW t \in Threads, SpuriousWakeup(t) PROVE Len(stmts') <= Cardinality(W')
  <2>1. W \subseteq W'
    BY <1>6 DEF SpuriousWakeup, Woken
  <2>2. Cardinality(W) <= Cardinality(W')
    BY <2>1, FS_Subset
  <2> QED BY <1>6, <2>2 DEF SpuriousWakeup
<1>7. CASE SetStopStore
  BY <1>7 DEF SetStopStore, Woken
<1>8. CASE SetStopNotify
  BY <1>8 DEF SetStopNotify, MutexFree, Notified, Asleep
<1>9. CASE UNCHANGED vars
  BY <1>9 DEF vars, Woken
<1> QED
  BY <1>1, <1>2, <1>3, <1>4, <1>5, <1>6, <1>7, <1>8, <1>9
     DEF Next, ProducerStep, ConsumerStep

\* A parse task that pushes past the wait threshold stays inside the wait.
LEMMA BacklogInductive ==
  Typed /\ BacklogBounded /\ [Next]_vars => BacklogBounded'
<1> DEFINE H == {p \in Producers : wait[p] # "out"}
<1> SUFFICES ASSUME Typed, BacklogBounded, [Next]_vars, ~stop'
             PROVE  Len(stmts') < WaitThreshold + Cardinality(H')
  BY DEF BacklogBounded
<1> USE ThreadsAssumption, ThresholdAssumption
<1> USE DEF Typed, Threads
<1>0. /\ Len(stmts) \in Nat
      /\ IsFiniteSet(H) /\ Cardinality(H) \in Nat
      /\ IsFiniteSet(H') /\ Cardinality(H') \in Nat
  BY FS_Subset, FS_CardinalityType
<1>1. ASSUME ~stop PROVE Len(stmts) < WaitThreshold + Cardinality(H)
  BY <1>1 DEF BacklogBounded
<1>2. ASSUME NEW p \in Producers, NEW b \in Batches, AddStmts(p, b)
      PROVE  Len(stmts') < WaitThreshold + Cardinality(H')
  <2>1. Len(stmts') = Len(stmts) + 1 /\ ~stop
    BY <1>2 DEF AddStmts, stop
  <2>2. CASE ProducerMayLeave(Len(stmts) + 1)
    BY <1>0, <2>1, <2>2 DEF ProducerMayLeave
  <2>3. CASE ~ProducerMayLeave(Len(stmts) + 1)
    <3>1. PICK w \in OneOf(Asleep(Consumers)) :
                 wait' = [Notified(w) EXCEPT ![p] = "deciding"]
      BY <1>2, <2>3 DEF AddStmts
    <3>2. w \subseteq Asleep(Consumers)
      BY OneOfProperties
    <3>3. \A q \in Producers : wait'[q] = IF q = p THEN "deciding" ELSE wait[q]
      BY <3>1, <3>2, NotifiedType DEF Notified, Asleep
    <3>4. H' = H \cup {p} /\ p \notin H
      BY <1>2, <3>3 DEF AddStmts
    <3>5. Cardinality(H') = Cardinality(H) + 1
      BY <1>0, <3>4, FS_AddElement
    <3>6. Len(stmts) < WaitThreshold + Cardinality(H)
      BY <1>1, <2>1
    <3> HIDE DEF H
    <3> QED BY <1>0, <3>6, <2>1, <3>5
  <2> QED BY <2>2, <2>3
<1>3. ASSUME NEW p \in Producers, AddStmtsWokenUp(p)
      PROVE  Len(stmts') < WaitThreshold + Cardinality(H')
  <2>1. CASE ProducerMayLeave(Len(stmts))
    BY <1>0, <1>3, <2>1 DEF AddStmtsWokenUp, ProducerMayLeave, stop
  <2>2. CASE ~ProducerMayLeave(Len(stmts))
    <3>1. H' = H
      BY <1>3, <2>2 DEF AddStmtsWokenUp
    <3> QED BY <1>1, <1>3, <3>1 DEF AddStmtsWokenUp, stop
  <2> QED BY <2>1, <2>2
<1>4. ASSUME NEW c \in Consumers, GetStmtsBatch(c)
      PROVE  Len(stmts') < WaitThreshold + Cardinality(H')
  <2>1. Len(stmts') = Len(stmts) - 1 /\ ~stop
    BY <1>4 DEF GetStmtsBatch, stop
  <2>2. PICK w \in ProducersToWake(Len(stmts) - 1) :
               wait' = [Notified(w) EXCEPT ![c] = "out"]
    BY <1>4 DEF GetStmtsBatch
  <2>3. w \subseteq Asleep(Producers)
    BY <1>0, <2>2, ProducersToWakeSubset
  <2>4. H' = H
    BY <2>2, <2>3, NotifiedType DEF Notified, Asleep
  <2>5. Len(stmts) < WaitThreshold + Cardinality(H)
    BY <1>1, <2>1
  <2>6. Cardinality(H') = Cardinality(H)
    BY <2>4
  <2> HIDE DEF H
  <2> QED BY <1>0, <2>1, <2>5, <2>6
<1>5. ASSUME NEW c \in Consumers, GetStmtsNull(c) \/ GetStmtsMustWait(c)
      PROVE  Len(stmts') < WaitThreshold + Cardinality(H')
  <2>1. H' = H
    BY <1>5 DEF GetStmtsNull, GetStmtsMustWait
  <2> QED BY <1>1, <1>5, <2>1 DEF GetStmtsNull, GetStmtsMustWait, stop
<1>6. ASSUME NEW t \in Threads, Sleep(t) \/ SpuriousWakeup(t)
      PROVE  Len(stmts') < WaitThreshold + Cardinality(H')
  <2>1. H' = H
    BY <1>6 DEF Sleep, SpuriousWakeup
  <2> QED BY <1>1, <1>6, <2>1 DEF Sleep, SpuriousWakeup, stop
<1>7. CASE SetStopStore
  BY <1>7 DEF SetStopStore, stop
<1>8. CASE SetStopNotify
  BY <1>8 DEF SetStopNotify, stop
<1>9. CASE UNCHANGED vars
  BY <1>1, <1>9 DEF vars, stop
<1> QED
  BY <1>2, <1>3, <1>4, <1>5, <1>6, <1>7, <1>8, <1>9 DEF Next, ProducerStep, ConsumerStep

\* add_stmts and get_stmts change the queue and num_stmts_ by the same batch.
LEMMA CounterInductive ==
  Typed /\ CounterAgrees /\ [Next]_vars => CounterAgrees'
<1> SUFFICES ASSUME Typed, CounterAgrees, [Next]_vars PROVE num_stmts' = StmtsIn(stmts')
  BY DEF CounterAgrees, StmtsIn, Sums
<1>0. num_stmts = StmtsIn(stmts) /\ StmtsIn(stmts) \in Nat /\ stmts \in Seq(Batches)
  BY StmtsInNat DEF CounterAgrees, Typed
<1>1. ASSUME NEW p \in Producers, NEW b \in Batches, AddStmts(p, b)
      PROVE  num_stmts' = StmtsIn(stmts')
  BY <1>0, <1>1, StmtsInAppend DEF AddStmts, Counted
<1>2. ASSUME NEW c \in Consumers, GetStmtsBatch(c) PROVE num_stmts' = StmtsIn(stmts')
  <2>1. StmtsIn(stmts) = StmtsIn(Tail(stmts)) + BatchSize[Head(stmts)]
    BY <1>0, <1>2, StmtsInTail DEF GetStmtsBatch
  <2>2. Tail(stmts) \in Seq(Batches) /\ Head(stmts) \in Batches
    BY <1>0, <1>2 DEF GetStmtsBatch
  <2>3. StmtsIn(Tail(stmts)) \in Nat /\ BatchSize[Head(stmts)] \in Nat
    BY <2>2, StmtsInNat, BatchAssumption
  <2>4. num_stmts' = num_stmts - BatchSize[Head(stmts)] /\ stmts' = Tail(stmts)
    BY <1>2 DEF GetStmtsBatch
  <2> QED BY <1>0, <2>1, <2>3, <2>4
<1>3. CASE UNCHANGED <<stmts, num_stmts>>
  BY <1>0, <1>3
<1> QED
  BY <1>1, <1>2, <1>3 DEF Next, ProducerStep, ConsumerStep, AddStmtsWokenUp, GetStmtsNull,
     GetStmtsMustWait, Sleep, SpuriousWakeup, SetStopStore, SetStopNotify, vars

-----------------------------------------------------------------------------
(* The theorems about the queue                                             *)

\* The inductive invariant: the safety properties, and the types.
IInv == /\ Typed
        /\ NobodySleepsAfterStop
        /\ NoProducerWakeupLost
        /\ NoConsumerWakeupLost
        /\ BacklogBounded
        /\ CounterAgrees

\* The empty queue of a new IndexQueue satisfies all of it.
LEMMA IInvInit == Init => IInv
<1> SUFFICES ASSUME Init PROVE IInv
  OBVIOUS
<1> USE ThreadsAssumption, ThresholdAssumption, BatchAssumption DEF Init
<1>1. Typed
  BY DEF Typed
<1>2. Waiting(Producers) = {} /\ Waiting(Consumers) = {}
  BY DEF Waiting, Threads
<1>3. BacklogBounded
  <2>1. {p \in Producers : wait[p] # "out"} = {}
    BY DEF Threads
  <2>2. Cardinality({p \in Producers : wait[p] # "out"}) = 0
    BY <2>1, FS_EmptySet
  <2>3. Len(stmts) = 0
    OBVIOUS
  <2> QED BY <2>2, <2>3 DEF BacklogBounded
<1>4. CounterAgrees
  <2>0. <<>> \in Seq(Batches) /\ Len(<<>>) = 0
    OBVIOUS
  <2>1. PICK q \in Seq(Batches) : q = <<>> /\ Len(q) = 0
    BY <2>0, Zenon
  <2>2. 0 \in 0 .. Len(q)
    BY <2>1
  <2>3. Sums(q)[0] = 0
    BY <2>2, SumsDef
  <2> QED BY <2>1, <2>3 DEF CounterAgrees, StmtsIn
<1> QED BY <1>1, <1>2, <1>3, <1>4
        DEF IInv, NobodySleepsAfterStop, NoProducerWakeupLost, NoConsumerWakeupLost

\* The invariant of the queue holds under any interleaving of its calls.
THEOREM InvariantHolds == Spec => []IInv
<1>1. IInv /\ [Next]_vars => IInv'
  BY TypedInductive, NobodySleepsInductive, ProducerWakeupInductive,
     ConsumerWakeupInductive, BacklogInductive, CounterInductive DEF IInv
<1> QED BY <1>1, IInvInit, PTL DEF Spec

\* num_stmts_, read by do_indexing without the mutex, is the number of
\* statements queued, whatever the interleaving of add_stmts and get_stmts.
THEOREM Counter == Spec => []CounterAgrees
BY InvariantHolds, PTL DEF IInv

\* Every variable keeps its type; in particular the unsigned num_stmts_ is never
\* decreased below zero by get_stmts.
THEOREM TypeCorrect == Spec => []TypeOK
<1>1. IInv => TypeOK
  BY StmtsInNat DEF IInv, Typed, TypeOK, CounterAgrees
<1> QED BY <1>1, InvariantHolds, PTL

\* While a store task sleeps in get_stmts, every queued batch has a woken store
\* task coming for it: add_stmts never loses the wakeup of a consumer.
THEOREM ConsumerWakeups == Spec => []NoConsumerWakeupLost
BY InvariantHolds, PTL DEF IInv

\* A parse task sleeps in add_stmts only behind ExitThreshold batches or more.
THEOREM ProducerWakeups == Spec => []NoProducerWakeupLost
BY InvariantHolds, PTL DEF IInv

\* Before set_stop the queue passes WaitThreshold by at most one batch for
\* each parse task that is inside add_stmts.
THEOREM Backlog == Spec => []BacklogBounded
BY InvariantHolds, PTL DEF IInv

\* After set_stop returned nobody is asleep or about to sleep in the queue.
THEOREM StopWakesEverybody == Spec => []NobodySleepsAfterStop
BY InvariantHolds, PTL DEF IInv

\* The queue with its mutex, waits and wakeups implements the FIFO channel of
\* module StmtQueue: every step of a call is a step of the channel or no step.
THEOREM QueueIsAChannel == Spec => ImplementsChannel
<1>1. Init => Channel!Init
  BY DEF Init, Channel!Init, stop
<1>2. IInv /\ [Next]_vars => [Channel!Next]_(Channel!vars)
  <2> SUFFICES ASSUME IInv, [Next]_vars PROVE [Channel!Next]_(Channel!vars)
    OBVIOUS
  <2> USE DEF Channel!vars, stop
  <2>1. ASSUME NEW p \in Producers, NEW b \in Batches, AddStmts(p, b)
        PROVE  Channel!Put(b)
    BY <2>1 DEF AddStmts, Channel!Put
  <2>2. ASSUME NEW c \in Consumers, GetStmtsBatch(c) PROVE Channel!Take(c)
    BY <2>2 DEF GetStmtsBatch, Channel!Take
  <2>3. ASSUME NEW c \in Consumers, GetStmtsNull(c) PROVE Channel!GiveUp(c)
    BY <2>3 DEF GetStmtsNull, Channel!GiveUp
  <2>4. CASE SetStopStore
    BY <2>4 DEF SetStopStore, Channel!Stop, Channel!Next
  <2>5. CASE \/ \E p \in Producers : AddStmtsWokenUp(p)
             \/ \E c \in Consumers : GetStmtsMustWait(c)
             \/ \E t \in Threads : Sleep(t) \/ SpuriousWakeup(t)
             \/ SetStopNotify
             \/ UNCHANGED vars
    BY <2>5 DEF AddStmtsWokenUp, GetStmtsMustWait, Sleep, SpuriousWakeup,
                SetStopNotify, vars
  <2> QED BY <2>1, <2>2, <2>3, <2>4, <2>5
          DEF Next, ProducerStep, ConsumerStep, Channel!Next
<1> QED BY <1>1, <1>2, InvariantHolds, PTL DEF Spec, ImplementsChannel, Channel!Spec

-----------------------------------------------------------------------------
(* do_indexing                                                              *)

Running == {"start", "claim", "index"}   \* of a parse task

\* The types, and what a task has in its hands.
PTyped ==
  /\ Typed
  /\ main \in {"parsing", "stopping", "extra", "drain", "join_stores", "join_extra", "done"}
  /\ parse \in [Producers -> Running \cup {"failed", "done"}]
  /\ store \in [Consumers -> {"absent", "start", "get", "dml", "failed", "done"}]
  /\ counter \in Nat
  /\ tu \in [Producers -> Batches \cup {0}]
  /\ sent \in SUBSET Batches
  /\ stored \in [Batches -> Nat]
  /\ \A p \in Producers : parse[p] = "index" => tu[p] \in Batches
  /\ \A s \in Consumers : store[s] = "dml" => res[s] \in Batches

\* The commands claimed so far are those up to the counter.  Two parse tasks
\* never index the same one, nor one that was sent before.
Claims ==
  /\ \A b \in sent : b <= counter
  /\ \A p \in Producers : parse[p] = "index" => tu[p] <= counter /\ tu[p] \notin sent
  /\ \A p, q \in Producers :
       parse[p] = "index" /\ parse[q] = "index" /\ p # q => tu[p] # tu[q]

\* Each parse task increases the counter past the end once at most.
DoneTasks == {p \in Producers : parse[p] = "done"}

Overshoot == counter <= NumCmds + Cardinality(DoneTasks)

\* The main thread calls set_stop after the parse tasks, and goes on after the
\* tasks that it joined.
StopOrder ==
  /\ set_stop # "not_called" => \A p \in Producers : Ended(parse[p])
  /\ \A s \in Stores : store[s] # "absent"
  /\ main \in {"parsing", "stopping", "extra"} => \A s \in ExtraStores : store[s] = "absent"
  /\ main \in {"join_extra", "done"} => \A s \in Stores : Ended(store[s])
  /\ main = "done" => \A s \in ExtraStores : Ended(store[s])

\* The inductive invariant of the pipeline.
PInv == PTyped /\ Claims /\ Overshoot /\ StopOrder /\ StoresOutliveParsing /\ EachUnitOnce

-----------------------------------------------------------------------------
(* The pipeline uses the queue                                              *)

\* What PipelineAssumption says about numbers.
LEMMA Numbers ==
  /\ NumCmds \in Nat /\ Batches = 1 .. NumCmds /\ IsFiniteSet(Batches)
  /\ \A b \in Batches : BatchSize[b] \in Nat /\ BatchSize[b] >= 1
BY PipelineAssumption, BatchAssumption, FS_CardinalityType DEF NumCmds

\* A step of the pipeline is a step of the queue, or leaves it alone.
LEMMA QueueStep == PTyped /\ [PipelineNext]_pipelineVars => [Next]_vars
<1> SUFFICES ASSUME PTyped, [PipelineNext]_pipelineVars PROVE [Next]_vars
  OBVIOUS
<1>1. ASSUME NEW p \in Producers, SendTU(p) PROVE Next
  <2>1. tu[p] \in Batches
    BY <1>1 DEF PTyped, SendTU
  <2> QED BY <1>1, <2>1 DEF SendTU, Next, ProducerStep
<1>2. ASSUME NEW p \in Producers, ResumeParse(p) PROVE Next
  BY <1>2 DEF ResumeParse, Next, ProducerStep
<1>3. ASSUME NEW p \in Producers, ParseConnect(p) \/ Claim(p) \/ SkipTU(p)
      PROVE  UNCHANGED vars
  BY <1>3 DEF ParseConnect, Claim, SkipTU
<1>4. ASSUME NEW s \in Consumers, StoreGet(s) PROVE Next
  BY <1>4 DEF StoreGet, Next, ConsumerStep
<1>5. ASSUME NEW s \in Consumers, StoreConnect(s) \/ StoreDml(s) PROVE UNCHANGED vars
  BY <1>5 DEF StoreConnect, StoreDml
<1>6. ASSUME NEW t \in Threads, WaitStep(t) PROVE Next
  BY <1>6 DEF WaitStep, Next
<1>7. CASE MainStep
  BY <1>7 DEF MainStep, JoinParseTasks, TellStores, StartExtraStores, WaitForBacklog,
              JoinStores, JoinExtraStores, Next
<1>8. CASE UNCHANGED pipelineVars
  BY <1>8 DEF pipelineVars, vars
<1> QED BY <1>1, <1>2, <1>3, <1>4, <1>5, <1>6, <1>7, <1>8
        DEF PipelineNext, ParseStep, StoreStep

\* The types are preserved.
LEMMA PTypedInductive == PTyped /\ [PipelineNext]_pipelineVars => PTyped'
<1> SUFFICES ASSUME PTyped, [PipelineNext]_pipelineVars PROVE PTyped'
  OBVIOUS
<1>0. Typed'
  BY QueueStep, TypedInductive DEF PTyped
<1> USE <1>0, Numbers DEF PTyped, Running
<1>1. ASSUME NEW p \in Producers, ParseConnect(p) PROVE PTyped'
  BY <1>1 DEF ParseConnect, vars
<1>2. ASSUME NEW p \in Producers, Claim(p) PROVE PTyped'
  <2>1. counter' = counter + 1 /\ UNCHANGED <<vars, main, store, sent, stored>>
    BY <1>2 DEF Claim
  <2>2. CASE counter < NumCmds
    <3>1. /\ tu' = [tu EXCEPT ![p] = counter + 1]
          /\ parse' = [parse EXCEPT ![p] = "index"]
          /\ counter + 1 \in Batches
      BY <1>2, <2>2 DEF Claim
    <3> QED BY <2>1, <3>1 DEF vars
  <2>3. CASE ~(counter < NumCmds)
    <3>1. /\ tu' = [tu EXCEPT ![p] = 0]
          /\ parse' = [parse EXCEPT ![p] = "done"]
      BY <1>2, <2>3 DEF Claim
    <3> QED BY <2>1, <3>1 DEF vars
  <2> QED BY <2>2, <2>3
<1>3. ASSUME NEW p \in Producers, SkipTU(p) \/ ResumeParse(p) PROVE PTyped'
  BY <1>3 DEF SkipTU, ResumeParse, AddStmtsWokenUp, vars, taskVars
<1>4. ASSUME NEW p \in Producers, SendTU(p) PROVE PTyped'
  BY <1>4 DEF SendTU, AddStmts
<1>5. ASSUME NEW s \in Consumers, StoreConnect(s) PROVE PTyped'
  BY <1>5 DEF StoreConnect, vars
<1>6. ASSUME NEW s \in Consumers, StoreGet(s) PROVE PTyped'
  <2>1. CASE GetStmtsBatch(s)
    <3>1. Head(stmts) \in Batches
      BY <2>1 DEF GetStmtsBatch, Typed
    <3>2. res' = [res EXCEPT ![s] = Head(stmts)] /\ store' \in [Consumers -> {"absent", "start", "get", "dml", "failed", "done"}]
      BY <1>6, <2>1 DEF GetStmtsBatch, StoreGet, GetStmtsNull, GetStmtsMustWait
    <3>3. \A t \in Consumers : t # s => store'[t] = store[t]
      BY <1>6 DEF StoreGet
    <3>4. \A t \in Consumers : store'[t] = "dml" => res'[t] \in Batches
      BY <3>1, <3>2, <3>3 DEF Typed
    <3> QED BY <1>6, <3>2, <3>4 DEF StoreGet
  <2>2. CASE GetStmtsNull(s) /\ store' = [store EXCEPT ![s] = "done"]
    BY <1>6, <2>2 DEF GetStmtsNull, StoreGet, Typed
  <2>3. CASE GetStmtsMustWait(s) /\ UNCHANGED store
    BY <1>6, <2>3 DEF GetStmtsMustWait, StoreGet
  <2> QED BY <1>6, <2>1, <2>2, <2>3 DEF StoreGet
<1>7. ASSUME NEW s \in Consumers, StoreDml(s) PROVE PTyped'
  BY <1>7 DEF StoreDml, vars
<1>8. ASSUME NEW t \in Threads, WaitStep(t) PROVE PTyped'
  BY <1>8 DEF WaitStep, Sleep, SpuriousWakeup, taskVars
<1>9. CASE MainStep
  BY <1>9 DEF MainStep, JoinParseTasks, TellStores, StartExtraStores, WaitForBacklog,
              JoinStores, JoinExtraStores, SetStopStore, SetStopNotify, vars
<1>10. CASE UNCHANGED pipelineVars
  BY <1>10 DEF pipelineVars
<1> QED BY <1>1, <1>2, <1>3, <1>4, <1>5, <1>6, <1>7, <1>8, <1>9, <1>10
        DEF PipelineNext, ParseStep, StoreStep

\* The initial state.
LEMMA PTypedInit == PipelineInit => PTyped
<1> SUFFICES ASSUME PipelineInit PROVE PTyped
  OBVIOUS
<1>1. Typed
  BY IInvInit DEF PipelineInit, IInv
<1> QED BY <1>1 DEF PipelineInit, PTyped, Running

\* do_indexing with its parse and store tasks uses the queue as module IndexQueue
\* describes it: its theorems hold of the queue inside pview.
THEOREM PipelineUsesQueue == PipelineSpec => Spec
<1>1. PipelineInit => Init
  BY DEF PipelineInit
<1> QED BY <1>1, PTypedInit, PTypedInductive, QueueStep, PTL DEF PipelineSpec, Spec

-----------------------------------------------------------------------------
(* The units that parse tasks claim                                         *)

\* fetch_add gives each parse task a command of its own.
LEMMA ClaimsInductive == PTyped /\ Claims /\ [PipelineNext]_pipelineVars => Claims'
<1> SUFFICES ASSUME PTyped, Claims, [PipelineNext]_pipelineVars PROVE Claims'
  OBVIOUS
<1>0. /\ counter \in Nat /\ NumCmds \in Nat /\ Batches = 1 .. NumCmds /\ sent \subseteq Batches
      /\ \A p \in Producers : parse[p] = "index" => tu[p] \in Batches
      /\ parse \in [Producers -> Running \cup {"failed", "done"}]
      /\ tu \in [Producers -> Batches \cup {0}]
  BY Numbers DEF PTyped
<1> USE DEF Claims
<1>1. ASSUME NEW p \in Producers, Claim(p) PROVE Claims'
  <2>1. counter' = counter + 1 /\ sent' = sent
    BY <1>1 DEF Claim
  <2>2. CASE counter < NumCmds
    <3>1. \A q \in Producers : /\ tu'[q] = IF q = p THEN counter + 1 ELSE tu[q]
                               /\ parse'[q] = IF q = p THEN "index" ELSE parse[q]
      BY <1>0, <1>1, <2>2 DEF Claim
    <3>2. \A b \in sent : b <= counter'
      BY <1>0, <2>1
    <3>3. \A q \in Producers : parse'[q] = "index" => tu'[q] <= counter' /\ tu'[q] \notin sent
      BY <1>0, <2>1, <3>1
    <3>4. ASSUME NEW q \in Producers, NEW r \in Producers,
                 parse'[q] = "index", parse'[r] = "index", q # r
          PROVE  tu'[q] # tu'[r]
      BY <1>0, <3>1, <3>4
    <3> QED BY <2>1, <3>2, <3>3, <3>4
  <2>3. CASE ~(counter < NumCmds)
    <3>1. \A q \in Producers : parse'[q] = "index" => parse[q] = "index" /\ tu'[q] = tu[q]
      BY <1>0, <1>1, <2>3 DEF Claim
    <3> QED BY <1>0, <2>1, <3>1
  <2> QED BY <2>2, <2>3
<1>2. ASSUME NEW p \in Producers, SendTU(p) PROVE Claims'
  <2>1. /\ sent' = sent \cup {tu[p]} /\ counter' = counter /\ tu' = tu
        /\ parse[p] = "index"
        /\ \A q \in Producers : parse'[q] = "index" => parse[q] = "index" /\ q # p
    BY <1>0, <1>2 DEF SendTU
  <2> QED BY <2>1
<1>3. CASE /\ UNCHANGED <<counter, tu, sent>>
           /\ \A q \in Producers : parse'[q] = "index" => parse[q] = "index"
  BY <1>3
<1>4. ASSUME NEW p \in Producers, ParseConnect(p) \/ SkipTU(p) \/ ResumeParse(p)
      PROVE  /\ UNCHANGED <<counter, tu, sent>>
             /\ \A q \in Producers : parse'[q] = "index" => parse[q] = "index"
  BY <1>0, <1>4 DEF ParseConnect, SkipTU, ResumeParse, taskVars
<1>5. CASE UNCHANGED <<parse, counter, tu, sent>>
  BY <1>5
<1>6. ASSUME NEW s \in Consumers, StoreStep(s) PROVE UNCHANGED <<parse, counter, tu, sent>>
  BY <1>6 DEF StoreStep, StoreConnect, StoreGet, StoreDml
<1>7. ASSUME NEW t \in Threads, WaitStep(t) PROVE UNCHANGED <<parse, counter, tu, sent>>
  BY <1>7 DEF WaitStep, taskVars
<1>8. ASSUME MainStep PROVE UNCHANGED <<parse, counter, tu, sent>>
  BY <1>8 DEF MainStep, JoinParseTasks, TellStores, StartExtraStores, WaitForBacklog,
              JoinStores, JoinExtraStores
<1>9. ASSUME UNCHANGED pipelineVars PROVE UNCHANGED <<parse, counter, tu, sent>>
  BY <1>9 DEF pipelineVars
<1> QED BY <1>1, <1>2, <1>3, <1>4, <1>5, <1>6, <1>7, <1>8, <1>9 DEF PipelineNext, ParseStep

\* A parse task that finds the counter past the end leaves.
LEMMA OvershootInductive == PTyped /\ Overshoot /\ [PipelineNext]_pipelineVars => Overshoot'
<1> SUFFICES ASSUME PTyped, Overshoot, [PipelineNext]_pipelineVars PROVE Overshoot'
  OBVIOUS
<1>0. /\ counter \in Nat /\ NumCmds \in Nat
      /\ parse \in [Producers -> Running \cup {"failed", "done"}]
      /\ counter <= NumCmds + Cardinality(DoneTasks)
  BY Numbers DEF PTyped, Overshoot
<1>1. IsFiniteSet(DoneTasks) /\ Cardinality(DoneTasks) \in Nat
  BY ThreadsAssumption, FS_Subset, FS_CardinalityType DEF DoneTasks
<1>2. ASSUME NEW p \in Producers, Claim(p) PROVE Overshoot'
  <2>1. counter' = counter + 1
    BY <1>2 DEF Claim
  <2>2. CASE counter < NumCmds
    <3>1. DoneTasks' = DoneTasks
      BY <1>0, <1>2, <2>2 DEF Claim, DoneTasks
    <3> QED BY <1>0, <1>1, <2>1, <2>2, <3>1 DEF Overshoot
  <2>3. CASE ~(counter < NumCmds)
    <3>1. DoneTasks' = DoneTasks \cup {p} /\ p \notin DoneTasks
      BY <1>0, <1>2, <2>3 DEF Claim, DoneTasks
    <3>2. Cardinality(DoneTasks') = Cardinality(DoneTasks) + 1
      BY <1>1, <3>1, FS_AddElement
    <3> QED BY <1>0, <1>1, <2>1, <3>2 DEF Overshoot
  <2> QED BY <2>2, <2>3
<1>3. ASSUME counter' = counter, DoneTasks' = DoneTasks PROVE Overshoot'
  BY <1>0, <1>3 DEF Overshoot
<1>4. ASSUME NEW p \in Producers, ParseConnect(p) \/ SkipTU(p) \/ SendTU(p) \/ ResumeParse(p)
      PROVE  counter' = counter /\ DoneTasks' = DoneTasks
  BY <1>0, <1>4 DEF ParseConnect, SkipTU, SendTU, ResumeParse, taskVars, DoneTasks
<1>5. ASSUME NEW s \in Consumers, StoreStep(s) PROVE counter' = counter /\ DoneTasks' = DoneTasks
  BY <1>5 DEF StoreStep, StoreConnect, StoreGet, StoreDml, DoneTasks
<1>6. ASSUME NEW t \in Threads, WaitStep(t) PROVE counter' = counter /\ DoneTasks' = DoneTasks
  BY <1>6 DEF WaitStep, taskVars, DoneTasks
<1>7. ASSUME MainStep PROVE counter' = counter /\ DoneTasks' = DoneTasks
  BY <1>7 DEF MainStep, JoinParseTasks, TellStores, StartExtraStores, WaitForBacklog,
              JoinStores, JoinExtraStores, DoneTasks
<1>8. ASSUME UNCHANGED pipelineVars PROVE counter' = counter /\ DoneTasks' = DoneTasks
  BY <1>8 DEF pipelineVars, DoneTasks
<1> QED BY <1>2, <1>3, <1>4, <1>5, <1>6, <1>7, <1>8 DEF PipelineNext, ParseStep

-----------------------------------------------------------------------------
(* The order in which the main thread stops and joins                       *)

\* A task that ended stays ended, and only set_stop's caller moves on.
LEMMA StopOrderInductive == PTyped /\ StopOrder /\ [PipelineNext]_pipelineVars => StopOrder'
<1> SUFFICES ASSUME PTyped, StopOrder, [PipelineNext]_pipelineVars PROVE StopOrder'
  OBVIOUS
<1>0. /\ parse \in [Producers -> Running \cup {"failed", "done"}]
      /\ store \in [Consumers -> {"absent", "start", "get", "dml", "failed", "done"}]
      /\ Stores \subseteq Consumers /\ ExtraStores \subseteq Consumers
      /\ Stores \cap ExtraStores = {}
  BY PipelineAssumption DEF PTyped, Stores
<1> USE DEF StopOrder, Ended
<1>1. ASSUME NEW p \in Producers, ParseStep(p) PROVE StopOrder'
  <2>1. set_stop' = set_stop /\ store' = store /\ main' = main
    BY <1>1 DEF ParseStep, ParseConnect, Claim, SkipTU, SendTU, AddStmts, ResumeParse,
                AddStmtsWokenUp, vars, taskVars
  <2>2. \A q \in Producers : Ended(parse[q]) => Ended(parse'[q])
    BY <1>0, <1>1 DEF ParseStep, ParseConnect, Claim, SkipTU, SendTU, ResumeParse, taskVars
  <2> QED BY <2>1, <2>2
<1>2. ASSUME NEW s \in Consumers, StoreStep(s) PROVE StopOrder'
  <2>1. set_stop' = set_stop /\ parse' = parse /\ main' = main
    BY <1>2 DEF StoreStep, StoreConnect, StoreGet, StoreDml, GetStmtsBatch, GetStmtsNull,
                GetStmtsMustWait, vars
  <2>2. \A t \in Consumers : /\ Ended(store[t]) => store'[t] = store[t]
                             /\ store[t] # "absent" => store'[t] # "absent"
    BY <1>0, <1>2 DEF StoreStep, StoreConnect, StoreGet, StoreDml
  <2> QED BY <1>0, <2>1, <2>2
<1>3. ASSUME NEW t \in Threads, WaitStep(t) PROVE StopOrder'
  BY <1>3 DEF WaitStep, Sleep, SpuriousWakeup, taskVars
<1>4. CASE JoinParseTasks
  BY <1>4 DEF JoinParseTasks, SetStopStore
<1>5. CASE TellStores
  BY <1>5 DEF TellStores, SetStopNotify
<1>6. CASE StartExtraStores
  BY <1>0, <1>6 DEF StartExtraStores, vars
<1>7. CASE WaitForBacklog
  BY <1>7 DEF WaitForBacklog, vars
<1>8. CASE JoinStores
  BY <1>8 DEF JoinStores, vars
<1>9. CASE JoinExtraStores
  BY <1>9 DEF JoinExtraStores, vars
<1>10. CASE UNCHANGED pipelineVars
  BY <1>10 DEF pipelineVars
<1> QED BY <1>1, <1>2, <1>3, <1>4, <1>5, <1>6, <1>7, <1>8, <1>9, <1>10
        DEF PipelineNext, MainStep

\* A store task leaves when the queue is stopped and empty; the parse tasks have
\* ended then, so nothing is pushed any more.
LEMMA OutliveInductive ==
  PTyped /\ StopOrder /\ StoresOutliveParsing /\ [PipelineNext]_pipelineVars
    => StoresOutliveParsing'
<1> DEFINE Over == stmts = <<>> /\ \A p \in Producers : Ended(parse[p])
<1> SUFFICES ASSUME PTyped, StopOrder, StoresOutliveParsing, [PipelineNext]_pipelineVars,
                    NEW x \in Consumers, store'[x] = "done"
             PROVE  Over'
  BY DEF StoresOutliveParsing
<1>0. /\ parse \in [Producers -> Running \cup {"failed", "done"}]
      /\ store \in [Consumers -> {"absent", "start", "get", "dml", "failed", "done"}]
      /\ stmts \in Seq(Batches)
      /\ \A s \in Consumers : store[s] = "done" => Over
  BY DEF PTyped, Typed, StoresOutliveParsing
<1>1. ASSUME NEW p \in Producers, ParseStep(p) PROVE Over'
  <2>1. store' = store
    BY <1>1 DEF ParseStep, ParseConnect, Claim, SkipTU, SendTU, ResumeParse, taskVars
  <2>2. Over
    BY <1>0, <2>1
  <2>3. ResumeParse(p)
    BY <1>1, <2>2 DEF Ended, ParseStep, ParseConnect, Claim, SkipTU, SendTU
  <2> QED BY <2>2, <2>3 DEF ResumeParse, AddStmtsWokenUp, taskVars
<1>2. ASSUME NEW s \in Consumers, StoreGet(s) PROVE Over'
  <2>1. parse' = parse
    BY <1>2 DEF StoreGet
  <2>2. CASE GetStmtsBatch(s)
    <3>1. Head(stmts) \in Batches
      BY <1>0, <2>2 DEF GetStmtsBatch
    <3>2. BatchSize[Head(stmts)] >= 1 /\ BatchSize[Head(stmts)] \in Nat
      BY <3>1, Numbers
    <3>3. store' = [store EXCEPT ![s] = "dml"] \/ UNCHANGED store \/ stmts = <<>>
      BY <1>2, <3>2 DEF StoreGet, GetStmtsNull
    <3>4. store[x] = "done"
      BY <1>0, <2>2, <3>3 DEF GetStmtsBatch
    <3> QED BY <1>0, <2>2, <3>4 DEF GetStmtsBatch
  <2>3. CASE GetStmtsNull(s)
    BY <2>1, <2>3 DEF GetStmtsNull, StopOrder, stop
  <2>4. CASE GetStmtsMustWait(s) /\ UNCHANGED store
    BY <1>0, <2>1, <2>4 DEF GetStmtsMustWait
  <2> QED BY <1>2, <2>2, <2>3, <2>4 DEF StoreGet
<1>3. ASSUME NEW s \in Consumers, StoreConnect(s) \/ StoreDml(s) PROVE Over'
  BY <1>0, <1>3 DEF StoreConnect, StoreDml, vars
<1>4. ASSUME NEW t \in Threads, WaitStep(t) PROVE Over'
  BY <1>0, <1>4 DEF WaitStep, Sleep, SpuriousWakeup, taskVars
<1>5. CASE StartExtraStores
  BY <1>0, <1>5 DEF StartExtraStores, vars
<1>6. CASE MainStep /\ ~StartExtraStores
  BY <1>0, <1>6 DEF MainStep, JoinParseTasks, TellStores, WaitForBacklog, JoinStores,
                    JoinExtraStores, SetStopStore, SetStopNotify, vars
<1>7. CASE UNCHANGED pipelineVars
  BY <1>0, <1>7 DEF pipelineVars
<1> QED BY <1>1, <1>2, <1>3, <1>4, <1>5, <1>6, <1>7 DEF PipelineNext, StoreStep

-----------------------------------------------------------------------------
(* Where the batch of a unit is                                             *)

At(q, b) == {i \in 1 .. Len(q) : q[i] = b}

Holding(b) == {s \in Consumers : store[s] = "dml" /\ res[s] = b}

\* The positions of a batch in a queue can be counted.
LEMMA AtFinite ==
  ASSUME NEW q \in Seq(Batches), NEW b
  PROVE  IsFiniteSet(At(q, b)) /\ Cardinality(At(q, b)) \in Nat
<1>1. IsFiniteSet(1 .. Len(q))
  BY FS_Interval
<1> QED BY <1>1, FS_Subset, FS_CardinalityType DEF At

\* A push adds one position to those of its batch.
LEMMA AtAppend ==
  ASSUME NEW q \in Seq(Batches), NEW e \in Batches, NEW b
  PROVE  Cardinality(At(Append(q, e), b)) = Cardinality(At(q, b)) + IF e = b THEN 1 ELSE 0
<1>1. /\ Len(q) \in Nat /\ Len(Append(q, e)) = Len(q) + 1
      /\ \A i \in 1 .. Len(q) + 1 : Append(q, e)[i] = IF i = Len(q) + 1 THEN e ELSE q[i]
  OBVIOUS
<1>2. At(Append(q, e), b) = IF e = b THEN At(q, b) \cup {Len(q) + 1} ELSE At(q, b)
  BY <1>1 DEF At
<1>3. Len(q) + 1 \notin At(q, b)
  BY <1>1 DEF At
<1>4. Cardinality(At(q, b) \cup {Len(q) + 1}) = Cardinality(At(q, b)) + 1
  BY <1>3, AtFinite, FS_AddElement
<1> QED BY <1>2, <1>4, AtFinite

\* A pop takes one position from those of the first batch.
LEMMA AtTail ==
  ASSUME NEW q \in Seq(Batches), q # <<>>, NEW b
  PROVE  Cardinality(At(q, b)) = Cardinality(At(Tail(q), b)) + IF Head(q) = b THEN 1 ELSE 0
<1> DEFINE S == At(Tail(q), b)
           R == At(q, b) \ {1}
           f == [i \in S |-> i + 1]
<1>1. /\ Tail(q) \in Seq(Batches) /\ Head(q) = q[1]
      /\ Len(q) \in Nat /\ Len(q) >= 1 /\ Len(Tail(q)) = Len(q) - 1
      /\ \A i \in 1 .. Len(q) - 1 : Tail(q)[i] = q[i + 1]
  OBVIOUS
<1>2. S = {i \in 1 .. Len(q) - 1 : q[i + 1] = b}
  BY <1>1 DEF At
<1>3. R = {i \in 2 .. Len(q) : q[i] = b}
  BY <1>1 DEF At
<1>4. f \in Bijection(S, R)
  <2>1. \A i \in S : i \in Int /\ f[i] = i + 1 /\ f[i] \in R
    BY <1>1, <1>2, <1>3
  <2>2. \A j \in R : j - 1 \in S /\ f[j - 1] = j
    BY <1>1, <1>2, <1>3
  <2>3. \A i, j \in S : f[i] = f[j] => i = j
    BY <2>1
  <2>4. f \in [S -> R]
    BY <2>1
  <2> HIDE DEF f, S, R
  <2>5. f \in Injection(S, R)
    BY <2>3, <2>4 DEF Injection, IsInjective
  <2>6. f \in Surjection(S, R)
    BY <2>2, <2>4, Zenon DEF Surjection
  <2> QED BY <2>5, <2>6 DEF Bijection
<1>5. IsFiniteSet(S) /\ Cardinality(S) \in Nat
  BY <1>1, AtFinite
<1> HIDE DEF f, S, R
<1>6. IsFiniteSet(R) /\ Cardinality(R) = Cardinality(S)
  BY <1>4, <1>5, FS_Bijection DEF ExistsBijection
<1>7. Cardinality(R) = Cardinality(At(q, b)) - IF Head(q) = b THEN 1 ELSE 0
  <2>1. 1 \in At(q, b) <=> Head(q) = b
    BY <1>1 DEF At
  <2>2. IsFiniteSet(At(q, b)) /\ Cardinality(At(q, b)) \in Nat
    BY AtFinite
  <2>3. Cardinality(At(q, b) \ {1}) =
          IF 1 \in At(q, b) THEN Cardinality(At(q, b)) - 1 ELSE Cardinality(At(q, b))
    BY <2>2, FS_RemoveElement
  <2> QED BY <2>1, <2>2, <2>3 DEF R
<1>8. Cardinality(At(q, b)) \in Nat
  BY AtFinite
<1> QED BY <1>5, <1>6, <1>7, <1>8 DEF S

\* The store tasks that hold a batch can be counted.
LEMMA HoldingFinite ==
  ASSUME NEW b PROVE IsFiniteSet(Holding(b)) /\ Cardinality(Holding(b)) \in Nat
BY ThreadsAssumption, FS_Subset, FS_CardinalityType DEF Holding

\* The definition of Copies, with the two sets named.
LEMMA CopiesDef ==
  ASSUME NEW b
  PROVE  Copies(b) = Cardinality(At(stmts, b)) + Cardinality(Holding(b)) + stored[b]
BY DEF Copies, At, Holding

\* A step that neither moves a batch nor sends one.
LEMMA NothingMoves ==
  ASSUME EachUnitOnce, stmts' = stmts, stored' = stored, sent' = sent,
         \A b \in Batches : Holding(b)' = Holding(b)
  PROVE  EachUnitOnce'
<1> SUFFICES ASSUME NEW b \in Batches
             PROVE  Copies(b)' = IF b \in sent' THEN 1 ELSE 0
  BY DEF EachUnitOnce
<1>1. Copies(b) = IF b \in sent THEN 1 ELSE 0
  BY DEF EachUnitOnce
<1>2. Copies(b)' = Copies(b)
  BY DEF Copies, Holding
<1> QED BY <1>1, <1>2

\* add_stmts, get_stmts and do_store move a batch, and none is lost or doubled.
LEMMA OnceInductive ==
  PTyped /\ Claims /\ StopOrder /\ EachUnitOnce /\ [PipelineNext]_pipelineVars
    => EachUnitOnce'
<1> SUFFICES ASSUME PTyped, Claims, StopOrder, EachUnitOnce, [PipelineNext]_pipelineVars
             PROVE  EachUnitOnce'
  OBVIOUS
<1>0. /\ store \in [Consumers -> {"absent", "start", "get", "dml", "failed", "done"}]
      /\ stmts \in Seq(Batches)
      /\ res \in [Consumers -> Batches \cup {Nothing, NoMore}]
      /\ stored \in [Batches -> Nat]
      /\ \A s \in Consumers : store[s] = "dml" => res[s] \in Batches
  BY DEF PTyped, Typed
<1>1. ASSUME NEW p \in Producers, SendTU(p) PROVE EachUnitOnce'
  <2> SUFFICES ASSUME NEW b \in Batches PROVE Copies(b)' = IF b \in sent' THEN 1 ELSE 0
    BY DEF EachUnitOnce
  <2>1. /\ tu[p] \in Batches /\ tu[p] \notin sent
        /\ stmts' = Append(stmts, tu[p]) /\ res' = res /\ store' = store
        /\ stored' = stored /\ sent' = sent \cup {tu[p]}
    BY <1>1 DEF SendTU, AddStmts, PTyped, Claims
  <2>2. Cardinality(At(stmts', b)) = Cardinality(At(stmts, b)) + IF tu[p] = b THEN 1 ELSE 0
    BY <1>0, <2>1, AtAppend
  <2>3. Holding(b)' = Holding(b)
    BY <2>1 DEF Holding
  <2>4. Copies(b)' = Cardinality(At(stmts', b)) + Cardinality(Holding(b)) + stored[b]
    BY <2>1, <2>3 DEF Copies, At, Holding
  <2>5. Cardinality(At(stmts, b)) + Cardinality(Holding(b)) + stored[b]
          = IF b \in sent THEN 1 ELSE 0
    BY CopiesDef DEF EachUnitOnce
  <2>6. /\ Cardinality(At(stmts, b)) \in Nat /\ Cardinality(Holding(b)) \in Nat
        /\ stored[b] \in Nat
    BY <1>0, AtFinite, HoldingFinite
  <2>7. CASE tu[p] = b
    BY <2>1, <2>2, <2>4, <2>5, <2>6, <2>7
  <2>8. CASE tu[p] # b
    BY <2>1, <2>2, <2>4, <2>5, <2>6, <2>8
  <2> QED BY <2>7, <2>8
<1>2. ASSUME NEW s \in Consumers, StoreGet(s), GetStmtsBatch(s) PROVE EachUnitOnce'
  <2> SUFFICES ASSUME NEW b \in Batches PROVE Copies(b)' = IF b \in sent' THEN 1 ELSE 0
    BY DEF EachUnitOnce
  <2>1. Head(stmts) \in Batches /\ BatchSize[Head(stmts)] # 0
    <3>1. Head(stmts) \in Batches
      BY <1>0, <1>2 DEF GetStmtsBatch
    <3> QED BY <3>1, Numbers
  <2>2. /\ stmts # <<>> /\ stmts' = Tail(stmts) /\ res' = [res EXCEPT ![s] = Head(stmts)]
        /\ stored' = stored /\ sent' = sent /\ store[s] = "get"
    BY <1>2 DEF StoreGet, GetStmtsBatch
  <2>3. store' = [store EXCEPT ![s] = "dml"]
    <3>1. Len(stmts') # Len(stmts)
      BY <1>0, <2>2
    <3>2. stmts' # stmts
      BY <3>1
    <3> QED BY <1>2, <2>1, <2>2, <3>2 DEF StoreGet, GetStmtsNull, GetStmtsMustWait
  <2>4. Holding(b)' = IF Head(stmts) = b THEN Holding(b) \cup {s} ELSE Holding(b)
    BY <1>0, <2>2, <2>3 DEF Holding
  <2>5. s \notin Holding(b)
    BY <2>2 DEF Holding
  <2>6. Cardinality(Holding(b)') = Cardinality(Holding(b)) + IF Head(stmts) = b THEN 1 ELSE 0
    <3>1. Cardinality(Holding(b) \cup {s}) = Cardinality(Holding(b)) + 1
      BY <2>5, HoldingFinite, FS_AddElement
    <3> QED BY <2>4, <3>1, HoldingFinite
  <2>7. Cardinality(At(stmts, b)) = Cardinality(At(stmts', b)) + IF Head(stmts) = b THEN 1 ELSE 0
    BY <1>0, <2>2, AtTail
  <2>8. Copies(b)' = Cardinality(At(stmts', b)) + Cardinality(Holding(b)') + stored[b]
    BY <2>2 DEF Copies, At, Holding
  <2>9. Cardinality(At(stmts, b)) + Cardinality(Holding(b)) + stored[b]
          = IF b \in sent THEN 1 ELSE 0
    BY CopiesDef DEF EachUnitOnce
  <2>10. /\ Cardinality(At(stmts, b)) \in Nat /\ Cardinality(Holding(b)) \in Nat
         /\ stored[b] \in Nat /\ Cardinality(At(stmts', b)) \in Nat
    <3>1. stmts' \in Seq(Batches)
      BY <1>0, <2>2
    <3> QED BY <1>0, <3>1, AtFinite, HoldingFinite
  <2> QED BY <2>2, <2>6, <2>7, <2>8, <2>9, <2>10
<1>3. ASSUME NEW s \in Consumers, StoreGet(s), ~GetStmtsBatch(s) PROVE EachUnitOnce'
  <2>1. stmts' = stmts /\ stored' = stored /\ sent' = sent
    BY <1>3 DEF StoreGet, GetStmtsNull, GetStmtsMustWait
  <2>2. \A b \in Batches : Holding(b)' = Holding(b)
    BY <1>0, <1>3 DEF StoreGet, GetStmtsNull, GetStmtsMustWait, Holding
  <2> QED BY <2>1, <2>2, NothingMoves
<1>4. ASSUME NEW s \in Consumers, StoreDml(s) PROVE EachUnitOnce'
  <2> SUFFICES ASSUME NEW b \in Batches PROVE Copies(b)' = IF b \in sent' THEN 1 ELSE 0
    BY DEF EachUnitOnce
  <2>1. /\ stmts' = stmts /\ res' = res /\ sent' = sent /\ store[s] = "dml"
        /\ store' = [store EXCEPT ![s] = "get"] /\ res[s] \in Batches
        /\ stored' = [stored EXCEPT ![res[s]] = @ + 1]
    BY <1>0, <1>4 DEF StoreDml, vars
  <2>2. Holding(b)' = IF res[s] = b THEN Holding(b) \ {s} ELSE Holding(b)
    BY <1>0, <2>1 DEF Holding
  <2>3. s \in Holding(b) <=> res[s] = b
    BY <2>1 DEF Holding
  <2>4. Cardinality(Holding(b)') = Cardinality(Holding(b)) - IF res[s] = b THEN 1 ELSE 0
    <3>1. Cardinality(Holding(b) \ {s}) =
            IF s \in Holding(b) THEN Cardinality(Holding(b)) - 1 ELSE Cardinality(Holding(b))
      BY HoldingFinite, FS_RemoveElement
    <3> QED BY <2>2, <2>3, <3>1, HoldingFinite
  <2>5. stored'[b] = stored[b] + IF res[s] = b THEN 1 ELSE 0
    BY <1>0, <2>1
  <2>6. Copies(b)' = Cardinality(At(stmts, b)) + Cardinality(Holding(b)') + stored'[b]
    BY <2>1 DEF Copies, At, Holding
  <2>7. Cardinality(At(stmts, b)) + Cardinality(Holding(b)) + stored[b]
          = IF b \in sent THEN 1 ELSE 0
    BY CopiesDef DEF EachUnitOnce
  <2>8. /\ Cardinality(At(stmts, b)) \in Nat /\ Cardinality(Holding(b)) \in Nat
        /\ stored[b] \in Nat
    BY <1>0, AtFinite, HoldingFinite
  <2> QED BY <2>1, <2>4, <2>5, <2>6, <2>7, <2>8
<1>5. ASSUME stmts' = stmts, stored' = stored, sent' = sent, res' = res,
             \A s \in Consumers : store'[s] = "dml" <=> store[s] = "dml"
      PROVE  EachUnitOnce'
  <2>1. \A b \in Batches : Holding(b)' = Holding(b)
    BY <1>5 DEF Holding
  <2> QED BY <1>5, <2>1, NothingMoves
<1>6. ASSUME NEW s \in Consumers, StoreConnect(s) PROVE EachUnitOnce'
  BY <1>0, <1>5, <1>6 DEF StoreConnect, vars
<1>7. ASSUME NEW p \in Producers, ParseConnect(p) \/ Claim(p) \/ SkipTU(p) \/ ResumeParse(p)
      PROVE  EachUnitOnce'
  BY <1>5, <1>7 DEF ParseConnect, Claim, SkipTU, ResumeParse, AddStmtsWokenUp, vars, taskVars
<1>8. ASSUME NEW t \in Threads, WaitStep(t) PROVE EachUnitOnce'
  BY <1>5, <1>8 DEF WaitStep, Sleep, SpuriousWakeup, taskVars
<1>9. CASE StartExtraStores
  <2>1. \A s \in Consumers : store'[s] = "dml" <=> store[s] = "dml"
    BY <1>9 DEF StartExtraStores, StopOrder
  <2> QED BY <1>5, <1>9, <2>1 DEF StartExtraStores, vars
<1>10. CASE MainStep /\ ~StartExtraStores
  BY <1>5, <1>10 DEF MainStep, JoinParseTasks, TellStores, WaitForBacklog, JoinStores,
                    JoinExtraStores, SetStopStore, SetStopNotify, vars
<1>11. CASE UNCHANGED pipelineVars
  BY <1>5, <1>11 DEF pipelineVars
<1> QED BY <1>1, <1>2, <1>3, <1>4, <1>6, <1>7, <1>8, <1>9, <1>10, <1>11
        DEF PipelineNext, ParseStep, StoreStep

-----------------------------------------------------------------------------
(* The theorems about do_indexing                                           *)

\* Nothing is claimed, sent or stored when do_indexing starts its tasks.
LEMMA PInvInit == PipelineInit => PInv
<1> SUFFICES ASSUME PipelineInit PROVE PInv
  OBVIOUS
<1> USE DEF PipelineInit
<1>1. PTyped
  BY PTypedInit
<1>2. Claims
  BY DEF Claims
<1>3. Overshoot
  <2>1. IsFiniteSet(DoneTasks) /\ Cardinality(DoneTasks) \in Nat
    BY ThreadsAssumption, FS_Subset, FS_CardinalityType DEF DoneTasks
  <2> QED BY <2>1, Numbers DEF Overshoot
<1>4. StopOrder /\ StoresOutliveParsing
  BY PipelineAssumption DEF StopOrder, StoresOutliveParsing, Init, Stores
<1>5. EachUnitOnce
  <2> SUFFICES ASSUME NEW b \in Batches PROVE Copies(b) = 0
    BY DEF EachUnitOnce
  <2>1. At(stmts, b) = {} /\ Holding(b) = {} /\ stored[b] = 0
    BY DEF At, Holding, Init
  <2>2. Cardinality(At(stmts, b)) = 0 /\ Cardinality(Holding(b)) = 0
    BY <2>1, FS_EmptySet
  <2>3. Copies(b) = Cardinality(At(stmts, b)) + Cardinality(Holding(b)) + stored[b]
    BY CopiesDef
  <2> QED BY <2>1, <2>2, <2>3
<1> QED BY <1>1, <1>2, <1>3, <1>4, <1>5 DEF PInv

\* The invariant of the pipeline holds under any interleaving of its tasks.
THEOREM PipelineInvariant == PipelineSpec => []PInv
<1>1. PInv /\ [PipelineNext]_pipelineVars => PInv'
  BY PTypedInductive, ClaimsInductive, OvershootInductive, StopOrderInductive,
     OutliveInductive, OnceInductive DEF PInv
<1> QED BY <1>1, PInvInit, PTL DEF PipelineSpec

\* The variables of the tasks keep their types; the shared counter of do_parse
\* passes the end of the commands by one for each parse task at most.
THEOREM PipelineTypes == PipelineSpec => []PipelineTypeOK
<1>1. PInv => PipelineTypeOK
  <2> SUFFICES ASSUME PInv PROVE PipelineTypeOK
    OBVIOUS
  <2>1. DoneTasks \in SUBSET Producers
    BY DEF DoneTasks
  <2>2. /\ Cardinality(DoneTasks) \in Nat /\ Cardinality(Producers) \in Nat
        /\ Cardinality(DoneTasks) <= Cardinality(Producers)
    BY <2>1, ThreadsAssumption, FS_Subset, FS_CardinalityType
  <2>3. counter \in 0 .. NumCmds + Cardinality(Producers)
    BY <2>2, Numbers DEF PInv, PTyped, Overshoot
  <2> QED BY <2>3 DEF PInv, PTyped, PipelineTypeOK, Running
<1> QED BY <1>1, PipelineInvariant, PTL

\* Each unit that was sent is in the queue, with one store task or stored, once.
THEOREM UnitsOnce == PipelineSpec => []EachUnitOnce
BY PipelineInvariant, PTL DEF PInv

\* A store task leaves do_store only after the last add_stmts, with nothing queued.
THEOREM StoresOutlive == PipelineSpec => []StoresOutliveParsing
BY PipelineInvariant, PTL DEF PInv

\* When do_indexing returns, and one of the store tasks got a connection, each unit
\* that was sent has been stored exactly once.
THEOREM AllStoredAtExit == PipelineSpec => []StoredAtExit
<1>1. PInv => StoredAtExit
  <2> SUFFICES ASSUME PInv, main = "done", NEW s \in Stores, store[s] # "failed",
                      NEW b \in Batches
               PROVE  stored[b] = IF b \in sent THEN 1 ELSE 0
    BY DEF StoredAtExit
  <2>1. \A t \in Consumers : Ended(store[t])
    BY DEF PInv, StopOrder, Stores
  <2>2. store[s] = "done" /\ s \in Consumers
    BY <2>1 DEF PInv, StopOrder, Stores, Ended
  <2>3. stmts = <<>>
    BY <2>2 DEF PInv, StoresOutliveParsing
  <2>4. At(stmts, b) = {} /\ Holding(b) = {}
    BY <2>1, <2>3 DEF At, Holding, Ended
  <2>5. Copies(b) = stored[b]
    BY <2>4, CopiesDef, FS_EmptySet DEF PInv, PTyped
  <2> QED BY <2>5 DEF PInv, EachUnitOnce
<1> QED BY <1>1, PipelineInvariant, PTL

-----------------------------------------------------------------------------
(* How many tasks there are (module TaskCounts).                            *)

Counts == INSTANCE TaskCounts

\* The greater and the lesser of two numbers are what the names say.
LEMMA MaxOfTwo ==
  ASSUME NEW a \in Int, NEW b \in Int
  PROVE  Counts!Max({a, b}) = IF a >= b THEN a ELSE b
<1>1. \E x \in {a, b} : \A y \in {a, b} : x >= y
  OBVIOUS
<1>2. Counts!Max({a, b}) \in {a, b} /\ \A y \in {a, b} : Counts!Max({a, b}) >= y
  BY <1>1 DEF Counts!Max
<1> QED BY <1>2

LEMMA MinOfTwo ==
  ASSUME NEW a \in Int, NEW b \in Int
  PROVE  Counts!Min({a, b}) = IF a <= b THEN a ELSE b
<1>1. \E x \in {a, b} : \A y \in {a, b} : x <= y
  OBVIOUS
<1>2. Counts!Min({a, b}) \in {a, b} /\ \A y \in {a, b} : Counts!Min({a, b}) <= y
  BY <1>1 DEF Counts!Min
<1> QED BY <1>2

\* do_indexing waits for tasks that never leave their workers before the end: each
\* task must have a worker from the start.  On a machine that reports at least one CPU
\* there is a parse task, two store tasks and a worker for each, also for each of the extra
\* store tasks, which follow the parse tasks (Main.cc:228-304).
THEOREM TasksHaveWorkers ==
  ASSUME NEW cpus \in Nat \ {0}, NEW flag \in Nat, NEW cmds \in Nat
  PROVE  /\ Counts!ParseTasks(cpus, flag) >= 1 /\ Counts!StoreTasks(cpus, flag) >= 2
         /\ Counts!StoreTasks(cpus, flag) + Counts!StartedParseTasks(cpus, flag, cmds) <= Counts!Workers(cpus)
         /\ Counts!StartedExtraStores(cpus, flag, cmds) <= Counts!StartedParseTasks(cpus, flag, cmds)
<1>1. Counts!Workers(cpus) \in Nat /\ Counts!Workers(cpus) >= 3 /\ cpus * 3 = Counts!Workers(cpus)
  BY DEF Counts!Workers
<1>2. Counts!WantedDop(cpus, flag) \in Int
  <2>1. (cpus * 4) \div 5 \in Int
    OBVIOUS
  <2>2. Counts!DefaultDop(cpus) \in Int
    BY <2>1, MaxOfTwo DEF Counts!DefaultDop
  <2> QED BY <2>2 DEF Counts!WantedDop
<1>3. Counts!MaxDop(cpus, flag) \in 3 .. Counts!Workers(cpus)
  <2> DEFINE bounded == Counts!Min({Counts!WantedDop(cpus, flag), Counts!Min({cpus * 3, Counts!Workers(cpus)})})
  <2>1. Counts!Min({cpus * 3, Counts!Workers(cpus)}) = Counts!Workers(cpus)
    BY <1>1, MinOfTwo
  <2>2. bounded \in Int /\ bounded <= Counts!Workers(cpus)
    BY <1>1, <1>2, <2>1, MinOfTwo
  <2> HIDE DEF bounded
  <2>3. Counts!Max({3, bounded}) \in 3 .. Counts!Workers(cpus)
    BY <1>1, <2>2, MaxOfTwo
  <2> QED BY <2>3 DEF bounded, Counts!MaxDop
<1>4. Counts!StoreTasks(cpus, flag) \in 2 .. Counts!MaxDop(cpus, flag) - 1
  <2>1. Counts!MaxDop(cpus, flag) \div 8 \in Int
        /\ Counts!MaxDop(cpus, flag) \div 8 <= Counts!MaxDop(cpus, flag) - 1
    BY <1>1, <1>3
  <2> QED BY <1>1, <1>3, <2>1, MaxOfTwo DEF Counts!StoreTasks
<1>5. /\ Counts!ParseTasks(cpus, flag) \in Nat \ {0}
      /\ Counts!StoreTasks(cpus, flag) + Counts!ParseTasks(cpus, flag) = Counts!MaxDop(cpus, flag)
  BY <1>1, <1>3, <1>4 DEF Counts!ParseTasks
<1>6. /\ Counts!StartedParseTasks(cpus, flag, cmds) \in Nat
      /\ Counts!StartedParseTasks(cpus, flag, cmds) <= Counts!ParseTasks(cpus, flag)
  BY <1>5, MinOfTwo DEF Counts!StartedParseTasks
<1>7. Counts!StartedExtraStores(cpus, flag, cmds) <= Counts!StartedParseTasks(cpus, flag, cmds)
  BY <1>6 DEF Counts!StartedExtraStores
<1> QED BY <1>1, <1>3, <1>4, <1>5, <1>6, <1>7
=============================================================================
