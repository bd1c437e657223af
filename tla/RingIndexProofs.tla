---------------------------- MODULE RingIndexProofs ----------------------------
(* Facts about the wrapping index arithmetic of RingIndex, for any capacity *)
(* and any index width.                                                     *)
EXTENDS RingIndex, Integers, TLAPS

\* Indices stay in range and a slot number is always inside the ring.
LEMMA IndexType ==
  /\ 0 \in Index
  /\ \A i \in Index : Inc(i) \in Index /\ Slot(i) \in SlotIds
  BY CapacityAssumption, ModulusAssumption DEF Index, Inc, Slot, SlotIds, kMask

\* The difference of two indices is a number of messages.
LEMMA SubType ==
  \A x, y \in Index : Sub(x, y) \in Index /\ (Sub(x, y) = 0 <=> x = y)
  BY ModulusAssumption, CapacityAssumption DEF Index, Sub

\* A push adds one to the occupancy, also across the wrap of head.
LEMMA SubIncHead ==
  ASSUME NEW x \in Index, NEW y \in Index, Sub(x, y) < kCapacity
  PROVE  Sub(Inc(x), y) = Sub(x, y) + 1
  BY ModulusAssumption, CapacityAssumption DEF Index, Sub, Inc

\* A pop from a non-empty ring takes one off, also across the wrap of tail.
LEMMA SubIncTail ==
  ASSUME NEW x \in Index, NEW y \in Index, x # y
  PROVE  Sub(x, Inc(y)) = Sub(x, y) - 1
  BY ModulusAssumption, CapacityAssumption DEF Index, Sub, Inc

\* Going on from an index by a number of places and taking the difference are
\* inverse to each other, and one place at a time is Inc.
LEMMA OffsetSub ==
  /\ \A i \in Index : \A n \in Index :
       Offset(i, n) \in Index /\ Sub(Offset(i, n), i) = n
  /\ \A x, y \in Index : Offset(y, Sub(x, y)) = x
  /\ \A i \in Index : Offset(i, 0) = i
  /\ \A i \in Index, n \in Nat :
       n < IndexModulus - 1 => Offset(Inc(i), n) = Offset(i, n + 1)
  BY ModulusAssumption, CapacityAssumption DEF Index, Sub, Inc, Offset

\* A number has one quotient and one remainder.
LEMMA DivMod ==
  /\ \A n \in Nat : /\ n \div kCapacity \in Nat /\ n % kCapacity \in 0..kMask
                    /\ n = kCapacity * (n \div kCapacity) + (n % kCapacity)
  /\ \A a, b \in Int : \A r, s \in 0..kMask :
       kCapacity * a + r = kCapacity * b + s => r = s
<1> USE CapacityAssumption DEF kMask
<1>1. ASSUME NEW n \in Nat
      PROVE  /\ n \div kCapacity \in Nat /\ n % kCapacity \in 0..kMask
             /\ n = kCapacity * (n \div kCapacity) + (n % kCapacity)
  OBVIOUS
<1>2. ASSUME NEW a \in Int, NEW b \in Int, NEW r \in 0..kMask, NEW s \in 0..kMask,
             kCapacity * a + r = kCapacity * b + s
      PROVE  r = s
  <2>1. kCapacity * (a - b) = s - r
    BY <1>2
  <2>2. a - b >= 1 => kCapacity * (a - b) >= kCapacity
    OBVIOUS
  <2>3. a - b <= -1 => kCapacity * (a - b) <= - kCapacity
    OBVIOUS
  <2>4. a - b = 0
    BY <2>1, <2>2, <2>3
  <2>5. QED
    BY <1>2, <2>4
<1>3. QED
  BY <1>1, <1>2

\* The slots of less than a lap of consecutive indices are all different, also
\* where the indices wrap, because their range is a whole number of laps.
LEMMA SlotsDiffer ==
  ASSUME NEW x \in Index, NEW y \in Index, Sub(x, y) < kCapacity, x # y
  PROVE  Slot(x) # Slot(y)
<1> USE CapacityAssumption, ModulusAssumption DEF Index
<1>1. \A n \in Nat : /\ n \div kCapacity \in Nat /\ n % kCapacity \in 0..kMask
                     /\ n = kCapacity * (n \div kCapacity) + (n % kCapacity)
  BY DivMod
<1>q. IndexModulus = kCapacity * (IndexModulus \div kCapacity) /\ IndexModulus \div kCapacity \in Nat
  BY <1>1
<1> DEFINE a == x \div kCapacity
           b == y \div kCapacity
           m == IndexModulus \div kCapacity
           d == Sub(x, y)
<1>d. d \in 1..kMask /\ (x = y + d \/ x + IndexModulus = y + d)
  BY SubType DEF Sub, kMask
<1>2. a \in Nat /\ b \in Nat /\ m \in Nat
      /\ x = kCapacity * a + Slot(x) /\ y = kCapacity * b + Slot(y)
      /\ Slot(x) \in 0..kMask /\ Slot(y) \in 0..kMask
      /\ IndexModulus = kCapacity * m
  BY <1>1, <1>q DEF Slot
<1> HIDE DEF a, b, m, d
<1> SUFFICES ASSUME Slot(x) = Slot(y)  PROVE FALSE
  OBVIOUS
<1>3. CASE x = y + d
  <2>1. kCapacity * a + 0 = kCapacity * b + d
    BY <1>2, <1>3, <1>d
  <2>2. QED
    BY <1>2, <1>d, <2>1, DivMod DEF kMask
<1>4. CASE x + IndexModulus = y + d
  <2>1. kCapacity * (a + m) + 0 = kCapacity * b + d
    BY <1>2, <1>4, <1>d
  <2>2. QED
    BY <1>2, <1>d, <2>1, DivMod DEF kMask
<1>5. QED
  BY <1>3, <1>4, <1>d

\* A message and the oldest messages before it lie in different slots, if they are
\* less than a lap.
LEMMA QueuedSlotsDiffer ==
  ASSUME NEW i \in Index, NEW n \in 0..kMask, NEW k \in 0..(n - 1)
  PROVE  Slot(Offset(i, n)) # Slot(Offset(i, k))
<1>1. n \in Index /\ k \in Index /\ n < kCapacity
  BY CapacityAssumption, ModulusAssumption DEF Index, kMask
<1>2. Offset(i, n) \in Index /\ Offset(i, k) \in Index
  BY <1>1, OffsetSub
<1>3. Sub(Offset(i, n), Offset(i, k)) = n - k
  BY <1>1, CapacityAssumption, ModulusAssumption DEF Offset, Sub, Index
<1>4. Offset(i, n) # Offset(i, k)
  BY <1>1, CapacityAssumption, ModulusAssumption DEF Offset, Index
<1>5. QED
  BY <1>1, <1>2, <1>3, <1>4, CapacityAssumption, ModulusAssumption, SlotsDiffer DEF Index
===============================================================================
