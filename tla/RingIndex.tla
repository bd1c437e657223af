------------------------------- MODULE RingIndex -------------------------------
(***************************************************************************)
(* Index arithmetic of the ring queues: free-running unsigned indices that *)
(* wrap at IndexModulus (2^32 in the code, small in the runs) and are      *)
(* masked down to one of kCapacity slots.                                  *)
(***************************************************************************)
EXTENDS Naturals

CONSTANTS
  kCapacity,     \* number of slots
  IndexModulus   \* number of values of index_type

ASSUME CapacityAssumption == kCapacity \in Nat /\ kCapacity >= 2

\* kCapacity is a power of two below 2^32: the index range is at least two laps,
\* a whole number of them.
ASSUME ModulusAssumption ==
  /\ IndexModulus \in Nat
  /\ IndexModulus >= 2 * kCapacity
  /\ IndexModulus % kCapacity = 0

kMask == kCapacity - 1

Index == 0..(IndexModulus - 1)
SlotIds == 0..kMask

\* Mutant: an index wider than index_type, which never wraps.
IncWide(i) == i + 1

\* index + 1 in index_type
Inc(i) == IF i = IndexModulus - 1 THEN 0 ELSE i + 1

\* x - y in index_type
Sub(x, y) == IF x >= y THEN x - y ELSE x + IndexModulus - y

\* index & kMask
Slot(i) == i % kCapacity

\* The slots an index passes from one end of the queue to the other.
Offset(i, n) == IF i + n >= IndexModulus THEN i + n - IndexModulus ELSE i + n
===============================================================================
