----------------------------- MODULE StmtQueue -----------------------------
(***************************************************************************)
(* What class IndexQueue promises to its clients, with the mutex, the      *)
(* condition variables and the congestion control hidden: a FIFO channel   *)
(* of batches.  Each batch put is handed to one consumer, in order, and a  *)
(* consumer is told that there is nothing left (nullptr in the code) only  *)
(* once the channel is stopped and empty.                                  *)
(***************************************************************************)
EXTENDS Sequences

CONSTANTS Consumers,  \* the store tasks
          Batches,    \* what a parse task hands over for one translation unit
          Nothing,    \* a consumer that got no batch yet
          NoMore      \* the nullptr that ends a store task

VARIABLES queue, stopped, got

vars == <<queue, stopped, got>>

Init == /\ queue = <<>>
        /\ stopped = FALSE
        /\ got = [c \in Consumers |-> Nothing]

Put(b) == /\ queue' = Append(queue, b)
          /\ UNCHANGED <<stopped, got>>

Take(c) == /\ queue # <<>>
           /\ queue' = Tail(queue)
           /\ got' = [got EXCEPT ![c] = Head(queue)]
           /\ UNCHANGED stopped

GiveUp(c) == /\ queue = <<>> /\ stopped
             /\ got' = [got EXCEPT ![c] = NoMore]
             /\ UNCHANGED <<queue, stopped>>

Stop == /\ stopped' = TRUE
        /\ UNCHANGED <<queue, got>>

Next == \/ \E b \in Batches : Put(b)
        \/ \E c \in Consumers : Take(c) \/ GiveUp(c)
        \/ Stop

Spec == Init /\ [][Next]_vars
=============================================================================
