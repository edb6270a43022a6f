--------------------------- MODULE IndexQueueMC ---------------------------
(* A small instance of IndexQueue: two sizes of batches, thresholds low     *)
(* enough that parse tasks sleep above, between and below them.             *)
EXTENDS IndexQueue

CONSTANTS b1, b2, MaxBacklog

MCBatches == {b1, b2}

MCBatchSize == [b \in MCBatches |-> IF b = b1 THEN 1 ELSE 2]

\* MaxBacklog bounds the queue.  Before set_stop BacklogBounded makes it idle;
\* after set_stop the class lets a client add for ever.
MCProducerStep(p) ==
  \/ \E b \in Batches : Len(stmts) < MaxBacklog /\ AddStmts(p, b)
  \/ AddStmtsWokenUp(p)

MCNext == \/ \E p \in Producers : MCProducerStep(p)
          \/ \E c \in Consumers : ConsumerStep(c)
          \/ \E t \in Threads : Sleep(t) \/ SpuriousWakeup(t)
          \/ SetStopStore \/ SetStopNotify

MCSpec == Init /\ [][MCNext]_vars /\ Fairness
=============================================================================
