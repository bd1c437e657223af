------------------------- MODULE MCDisruptorRingQueue -------------------------
(***************************************************************************)
(* DisruptorRingQueue and its ancestor on small instances.  The two take   *)
(* the same steps and begin in the same state when the slots are on the    *)
(* heap, so that one run covers both and the ring inside an object too.    *)
(***************************************************************************)
EXTENDS DisruptorRingQueueOld, TLC

\* Producers are interchangeable; consumers are not, because the producers read
\* their gating sequences in the order of their numbers.
ProducerSymmetry == Permutations(Producers)
===============================================================================
