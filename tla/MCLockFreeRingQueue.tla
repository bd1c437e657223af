-------------------------- MODULE MCLockFreeRingQueue --------------------------
(* LockFreeRingQueue on small instances. *)
EXTENDS LockFreeRingQueue

OneConsumer == {CHOOSE c \in Consumers : TRUE}

\* All threads on 32-bit locals; an observer beside one consumer; and 64-bit
\* locals with one consumer, since with two nothing of the below is left (README).
MCInit ==
  \/ InitWith(Producers \cup Consumers) /\ index_locals = "index_type"
  \/ InitWith(Producers \cup OneConsumer \cup Observers) /\ index_locals = "index_type"
  \/ InitWith(Producers \cup OneConsumer) /\ index_locals = "sequence_type"

MCSpecFair == MCInit /\ [][Next]_vars /\ Fairness
===============================================================================
