--------------------------- MODULE MCSpinRingQueue ---------------------------
(* SpinRingQueue on small instances. *)
EXTENDS SpinRingQueue

\* spin8 and spin9 exclude nobody (their word is tested, then overwritten): they
\* are run by one producer and one consumer, the only test they can pass.
PairOfThreads == {CHOOSE p \in Producers : TRUE, CHOOSE c \in Consumers : TRUE}

MCInit == \/ Init /\ funcType \in ExclusiveTypes
          \/ InitWith(PairOfThreads) /\ funcType \notin ExclusiveTypes

MCSpecFair == MCInit /\ [][Next]_vars /\ Fairness

\* Under the pairs that lock every message crosses the queue, if no thread loses
\* the race for the lock for ever: no push or pop is refused for good before the
\* indices wrap.
AllDeliveredUnderLock == funcType \in ExclusiveTypes => AllDelivered
===============================================================================
