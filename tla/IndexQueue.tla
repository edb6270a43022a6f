---------------------------- MODULE IndexQueue ----------------------------
(***************************************************************************)
(* class IndexQueue (src/indexer/IndexQueue.h, IndexQueue.cc): the queue   *)
(* between the parse tasks, which call add_stmts, and the store tasks,     *)
(* which call get_stmts.  One mutex, two condition variables and an        *)
(* atomic stop flag that set_stop stores before it takes the mutex.        *)
(*                                                                         *)
(* A call runs atomically from the moment it takes the mutex to the moment *)
(* it returns or sleeps: nothing it reads or writes can be touched by      *)
(* another thread in between, except stop_.  That flag is read once, by    *)
(* the predicate of wait(), so a wait is two steps: the predicate is found *)
(* false ("deciding", the mutex is held) and the thread goes to sleep,     *)
(* which releases the mutex.  The mutex is free when nobody is deciding.   *)
(***************************************************************************)
EXTENDS Integers, Sequences, FiniteSets

CONSTANTS Producers, Consumers,
          Batches,        \* the vectors of SQL statements
          BatchSize,      \* the number of statements of each
          WaitThreshold,  \* kTooManyInfoWaitThreshold, 20480
          ExitThreshold,  \* kProducerWaitExitThreshold, 12288
          WakeEvery,      \* 1024 in get_stmts
          Nothing,        \* a consumer that was returned nothing yet
          NoMore          \* nullptr

ASSUME ThreadsAssumption ==
  /\ IsFiniteSet(Producers) /\ IsFiniteSet(Consumers)
  /\ Producers \cap Consumers = {}

ASSUME ThresholdAssumption ==
  /\ WaitThreshold \in Nat /\ ExitThreshold \in Nat /\ WakeEvery \in Nat
  /\ 1 <= ExitThreshold /\ ExitThreshold <= WaitThreshold
  /\ 1 <= WakeEvery

ASSUME BatchAssumption ==
  /\ BatchSize \in [Batches -> Nat]
  /\ Nothing \notin Batches /\ NoMore \notin Batches /\ Nothing # NoMore

VARIABLES
  stmts,        \* stmts_
  num_stmts,    \* num_stmts_, read by do_indexing without the mutex
  set_stop,     \* progress of set_stop(): "not_called", "stored", "returned"
  lower_times,  \* g_lower_than_producer_times % 1024
  wait,         \* each thread: "out" of a wait, "deciding", "asleep", "woken"
  res           \* what get_stmts last returned to each consumer

vars == <<stmts, num_stmts, set_stop, lower_times, wait, res>>

Threads == Producers \cup Consumers

stop == set_stop # "not_called"   \* stop_

Init == /\ stmts = <<>>
        /\ num_stmts = 0
        /\ set_stop = "not_called"
        /\ lower_times = 0
        /\ wait = [t \in Threads |-> "out"]
        /\ res = [c \in Consumers |-> Nothing]

-----------------------------------------------------------------------------
(* The mutex and the condition variables.  notify_one wakes an arbitrary    *)
(* sleeper; a woken thread needs the mutex before it tests its predicate.   *)

MutexFree == \A t \in Threads : wait[t] # "deciding"

Asleep(S) == {t \in S : wait[t] = "asleep"}

NotifyNobody(S) == {{}}   \* mutant: the call to notify_one is forgotten

OneOf(S) == IF S = {} THEN {{}} ELSE {{t} : t \in S}

Notified(w) == [t \in Threads |-> IF t \in w THEN "woken" ELSE wait[t]]

\* wait() releases the mutex and blocks, in one step.
Sleep(t) == /\ wait[t] = "deciding"
            /\ wait' = [wait EXCEPT ![t] = "asleep"]
            /\ UNCHANGED <<stmts, num_stmts, set_stop, lower_times, res>>

\* The C++ standard lets a wait return without a notification.
SpuriousWakeup(t) == /\ wait[t] = "asleep"
                     /\ wait' = [wait EXCEPT ![t] = "woken"]
                     /\ UNCHANGED <<stmts, num_stmts, set_stop, lower_times, res>>

-----------------------------------------------------------------------------
(* add_stmts                                                                *)

LeavesAtThreshold(n) == n <= WaitThreshold \/ stop   \* mutant: off by one

ProducerMayLeave(n) == n < WaitThreshold \/ stop

Uncounted(b) == num_stmts   \* mutant: the counter is not increased

Counted(b) == num_stmts + BatchSize[b]

AddStmts(p, b) ==
  /\ wait[p] = "out" /\ MutexFree
  /\ stmts' = Append(stmts, b)
  /\ num_stmts' = Counted(b)
  /\ \E w \in OneOf(Asleep(Consumers)) :
       wait' = [Notified(w) EXCEPT
                  ![p] = IF ProducerMayLeave(Len(stmts) + 1) THEN "out"
                                                             ELSE "deciding"]
  /\ UNCHANGED <<set_stop, lower_times, res>>

AddStmtsWokenUp(p) ==
  /\ wait[p] = "woken" /\ MutexFree
  /\ wait' = [wait EXCEPT ![p] = IF ProducerMayLeave(Len(stmts)) THEN "out"
                                                                 ELSE "deciding"]
  /\ UNCHANGED <<stmts, num_stmts, set_stop, lower_times, res>>

-----------------------------------------------------------------------------
(* get_stmts, called by an "out" thread or resumed by a "woken" one         *)

InGetStmts(c) == wait[c] \in {"out", "woken"} /\ MutexFree

\* With n batches left: all sleeping producers are woken below the exit
\* threshold, one at every WakeEvery-th call between the two thresholds.
WakeOnlyOne(n) ==   \* mutant: notify_one below the exit threshold
  IF n < ExitThreshold THEN OneOf(Asleep(Producers)) ELSE {{}}

WakeOnlyAbove(n) ==   \* mutant: no notification below the exit threshold
  IF n >= ExitThreshold /\ lower_times = 0 THEN OneOf(Asleep(Producers)) ELSE {{}}

ProducersToWake(n) ==
  CASE n < ExitThreshold -> {Asleep(Producers)}
    [] n >= ExitThreshold /\ n < WaitThreshold /\ lower_times = 0
         -> OneOf(Asleep(Producers))
    [] OTHER -> {{}}

GetStmtsBatch(c) ==
  LET left == Len(stmts) - 1 IN
  /\ InGetStmts(c) /\ stmts # <<>>
  /\ stmts' = Tail(stmts)
  /\ num_stmts' = num_stmts - BatchSize[Head(stmts)]
  /\ res' = [res EXCEPT ![c] = Head(stmts)]
  /\ lower_times' = IF left >= ExitThreshold /\ left < WaitThreshold
                    THEN (lower_times + 1) % WakeEvery ELSE lower_times
  /\ \E w \in ProducersToWake(left) :
       wait' = [Notified(w) EXCEPT ![c] = "out"]
  /\ UNCHANGED set_stop

NullOnceStopped(c) ==   \* mutant: stop_ is tested before the queue
  /\ InGetStmts(c) /\ stop
  /\ res' = [res EXCEPT ![c] = NoMore]
  /\ wait' = [wait EXCEPT ![c] = "out"]
  /\ UNCHANGED <<stmts, num_stmts, set_stop, lower_times>>

GetStmtsNull(c) ==
  /\ InGetStmts(c) /\ stmts = <<>> /\ stop
  /\ res' = [res EXCEPT ![c] = NoMore]
  /\ wait' = [wait EXCEPT ![c] = "out"]
  /\ UNCHANGED <<stmts, num_stmts, set_stop, lower_times>>

GetStmtsMustWait(c) ==
  /\ InGetStmts(c) /\ stmts = <<>> /\ ~stop
  /\ wait' = [wait EXCEPT ![c] = "deciding"]
  /\ UNCHANGED <<stmts, num_stmts, set_stop, lower_times, res>>

-----------------------------------------------------------------------------
(* set_stop: the store is outside the mutex, the notifications inside       *)

SetStopStore == /\ set_stop = "not_called"
                /\ set_stop' = "stored"
                /\ UNCHANGED <<stmts, num_stmts, lower_times, wait, res>>

UnlockedNotify == /\ set_stop = "stored"   \* mutant: notify without the mutex
                  /\ set_stop' = "returned"
                  /\ wait' = Notified(Asleep(Threads))
                  /\ UNCHANGED <<stmts, num_stmts, lower_times, res>>

SetStopNotify == /\ set_stop = "stored" /\ MutexFree
                 /\ set_stop' = "returned"
                 /\ wait' = Notified(Asleep(Threads))
                 /\ UNCHANGED <<stmts, num_stmts, lower_times, res>>

-----------------------------------------------------------------------------
ProducerStep(p) == (\E b \in Batches : AddStmts(p, b)) \/ AddStmtsWokenUp(p)

ConsumerStep(c) == GetStmtsBatch(c) \/ GetStmtsNull(c) \/ GetStmtsMustWait(c)

Next == \/ \E p \in Producers : ProducerStep(p)
        \/ \E c \in Consumers : ConsumerStep(c)
        \/ \E t \in Threads : Sleep(t) \/ SpuriousWakeup(t)
        \/ SetStopStore \/ SetStopNotify

Spec == Init /\ [][Next]_vars

(* A thread holds the mutex for a bounded time, so a thread that wants it   *)
(* keeps finding it free: strong fairness for the steps that take it.  The  *)
(* loop of do_store calls get_stmts again and again; nothing forces anyone  *)
(* to call add_stmts or set_stop.                                           *)
Fairness == /\ \A t \in Threads : WF_vars(Sleep(t))
            /\ \A p \in Producers : SF_vars(AddStmtsWokenUp(p))
            /\ \A c \in Consumers : SF_vars(ConsumerStep(c))
            /\ SF_vars(SetStopNotify)

-----------------------------------------------------------------------------
(* Properties                                                               *)

\* Every variable has its type; the counter never goes below zero, although
\* get_stmts subtracts from an unsigned number (IndexQueue.cc:40).
TypeOK == /\ stmts \in Seq(Batches)
          /\ num_stmts \in Nat
          /\ set_stop \in {"not_called", "stored", "returned"}
          /\ lower_times \in 0 .. WakeEvery - 1
          /\ wait \in [Threads -> {"out", "deciding", "asleep", "woken"}]
          /\ res \in [Consumers -> Batches \cup {Nothing, NoMore}]

Waiting(S) == {t \in S : wait[t] \in {"deciding", "asleep"}}

Woken(S) == {t \in S : wait[t] = "woken"}

\* No wakeup of a store task is lost, although add_stmts notifies one of them
\* (IndexQueue.cc:71) and may be followed by other calls before that one runs:
\* while a store task sleeps, each queued batch has a woken one coming for it.
NoConsumerWakeupLost ==
  Waiting(Consumers) # {} => Len(stmts) <= Cardinality(Woken(Consumers))

\* No wakeup of a parse task is lost, although get_stmts notifies nobody or
\* only one of them most of the time (IndexQueue.cc:47-55): one that sleeps
\* in add_stmts has at least ExitThreshold batches ahead of it, whose removal
\* will wake it.
NoProducerWakeupLost ==
  Waiting(Producers) # {} => Len(stmts) >= ExitThreshold

\* The congestion control (IndexQueue.cc:73-83) tests the size after the
\* push, so the queue can pass WaitThreshold, by one batch for each parse task
\* and no more: those past the threshold are all inside the wait.
BacklogBounded ==
  ~stop => Len(stmts) < WaitThreshold + Cardinality({p \in Producers : wait[p] # "out"})

\* set_stop stores stop_ without the mutex (IndexQueue.h:72), between the test
\* and the sleep of some thread perhaps; once it returns, nobody sleeps or is
\* about to sleep, or ever will.
NobodySleepsAfterStop == set_stop = "returned" => Waiting(Threads) = {}

Sums(q) == LET sum[n \in 0 .. Len(q)] ==
                 IF n = 0 THEN 0 ELSE sum[n - 1] + BatchSize[q[n]]
           IN  sum

StmtsIn(q) == Sums(q)[Len(q)]

\* do_indexing reads num_stmts_ to decide whether the backlog is small
\* (Main.cc:295, 310): the counter agrees with the queue after each call.
CounterAgrees == num_stmts = StmtsIn(stmts)

\* Hidden behind its locks and waits, the queue is a FIFO channel: no batch is
\* lost, duplicated or reordered by concurrent calls, and nullptr is returned
\* only when stop_ is set and nothing is left (IndexQueue.cc:28-35).
Channel == INSTANCE StmtQueue WITH queue <- stmts, stopped <- stop, got <- res
ImplementsChannel == Channel!Spec

\* Whoever waits when stop_ is set gets out of its call (IndexQueue.h:71-78).
StopReleasesEveryone ==
  \A t \in Threads : (stop /\ wait[t] # "out") ~> (wait[t] = "out")

\* The parse tasks never stand still all together in add_stmts while the store
\* tasks keep calling get_stmts (IndexQueue.cc:47-55, 73-83).  One of them may
\* be overtaken for ever by the others.
ProducersResume ==
  (\A p \in Producers : wait[p] # "out") ~> (\E p \in Producers : wait[p] = "out")
=============================================================================
