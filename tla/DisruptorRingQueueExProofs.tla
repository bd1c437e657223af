----------------------- MODULE DisruptorRingQueueExProofs -----------------------
(* Proofs about DisruptorRingQueueEx for every number of producers and        *)
(* consumers, capacity, quota and shape of the cache lines: the permutation   *)
(* of the slots is one-to-one, so the ring implements DisruptorRingQueue.     *)
EXTENDS DisruptorRingQueueEx, FiniteSetTheorems, TLAPS

USE DEF Threads

-------------------------------------------------------------------------------
(* Rounding up to a power of two.                                            *)

\* A set of natural numbers that is not empty has a least element: of the
\* intervals from 0 to its elements one contains no other.
LEMMA LeastNatural ==
  ASSUME NEW T \in SUBSET Nat, T # {}
  PROVE  \E m \in T : \A n \in T : m <= n
<1>1. PICK b \in T : TRUE
  OBVIOUS
<1> DEFINE S == 0..b
           below == {0..n : n \in {k \in T : k <= b}}
<1>2. IsFiniteSet(S)
  BY <1>1, FS_Interval
<1>3. IsWellFoundedOn(StrictSubsetOrdering(S), SUBSET S)
  BY <1>2, FS_StrictSubsetOrderingWellFounded, FS_FiniteSubsetsOfFinite
<1>4. below \subseteq SUBSET S /\ below # {}
  BY <1>1
<1>5. PICK i \in below : \A j \in below : ~(<<j, i>> \in StrictSubsetOrdering(S))
  <2> HIDE DEF S, below
  <2>1. QED
    BY <1>3, <1>4, WFMin
<1>6. PICK m \in T : m <= b /\ i = 0..m
  OBVIOUS
<1>7. ASSUME NEW n \in T  PROVE m <= n
  <2>1. SUFFICES ASSUME n < m  PROVE FALSE
    BY <1>6
  <2>2. 0..n \in below /\ 0..n \subseteq i /\ m \in i /\ m \notin 0..n
    BY <1>1, <1>6, <2>1
  <2>3. 0..n \in SUBSET S /\ i \in SUBSET S /\ 0..n # i
    BY <1>4, <2>2
  <2>4. <<0..n, i>> \in StrictSubsetOrdering(S)
    BY <2>2, <2>3 DEF StrictSubsetOrdering
  <2>5. QED
    BY <1>5, <2>2, <2>4
<1>8. QED
  BY <1>7

\* Twice a power of two is one: an odd divisor of 2q divides q.
LEMMA DoublePow2 ==
  ASSUME NEW q \in Nat \ {0}, IsPow2(q)
  PROVE  IsPow2(2 * q)
<1>1. SUFFICES ASSUME NEW d \in 2..(2 * q), (2 * q) % d = 0, d % 2 # 0
               PROVE  FALSE
  BY DEF IsPow2
<1>2. PICK e \in Nat : 2 * q = d * e
  <2>1. 2 * q = d * ((2 * q) \div d) + ((2 * q) % d) /\ (2 * q) \div d \in Nat
    OBVIOUS
  <2>2. QED
    BY <1>1, <2>1
<1>3. PICK g \in Nat : d = 2 * g + 1
  BY <1>1
<1>4. PICK f \in Nat : e = 2 * f \/ e = 2 * f + 1
  <2>1. e \div 2 \in Nat /\ (e = 2 * (e \div 2) \/ e = 2 * (e \div 2) + 1)
    OBVIOUS
  <2>2. QED
    BY <2>1
<1>5. e = 2 * f
  <2>1. SUFFICES ASSUME e = 2 * f + 1  PROVE FALSE
    BY <1>4
  <2>2. d * e = 2 * (2 * g * f + g + f) + 1
    BY <1>3, <2>1
  <2>3. 2 * g * f + g + f \in Nat
    OBVIOUS
  <2>4. QED
    BY <1>2, <2>2, <2>3
<1>6. q = d * f
  <2>1. d * e = 2 * (d * f)
    BY <1>5
  <2>2. d * f \in Nat
    OBVIOUS
  <2>3. QED
    BY <1>2, <2>1, <2>2
<1>7. f >= 1 /\ d <= q
  <2>1. f # 0
    BY <1>6
  <2>2. QED
    BY <1>6, <2>1
<1>8. q % d = 0
  <2>1. q = d * (q \div d) + (q % d) /\ q % d \in 0..(d - 1) /\ q \div d \in Nat
    OBVIOUS
  <2>2. d * (f - (q \div d)) = q % d
    BY <1>6, <2>1
  <2>3. f - (q \div d) >= 1 => d * (f - (q \div d)) >= d
    BY <2>1
  <2>4. f - (q \div d) <= -1 => d * (f - (q \div d)) <= -d
    BY <2>1
  <2>5. f - (q \div d) = 0
    BY <2>1, <2>2, <2>3, <2>4
  <2>6. QED
    BY <2>1, <2>2, <2>5
<1>9. QED
  BY <1>1, <1>7, <1>8 DEF IsPow2

\* From n up there is a power of two before 2n.
LEMMA Pow2Exists == \A n \in Nat \ {0} : \E q \in n..(2 * n - 1) : IsPow2(q)
<1> DEFINE T == {n \in Nat \ {0} : ~\E q \in n..(2 * n - 1) : IsPow2(q)}
<1>1. SUFFICES ASSUME T # {}  PROVE FALSE
  OBVIOUS
<1>2. PICK m \in T : \A n \in T : m <= n
  BY <1>1, LeastNatural
<1>3. CASE m = 1
  <2>1. IsPow2(1)
    BY DEF IsPow2
  <2>2. QED
    BY <1>2, <1>3, <2>1
<1>4. CASE m > 1
  <2>1. m - 1 \notin T /\ m - 1 \in Nat \ {0}
    BY <1>2, <1>4
  <2>2. PICK q \in (m - 1)..(2 * (m - 1) - 1) : IsPow2(q)
    BY <2>1
  <2>3. CASE q >= m
    BY <1>2, <2>2, <2>3
  <2>4. CASE q = m - 1
    <3>1. IsPow2(2 * q) /\ 2 * q \in m..(2 * m - 1)
      BY <1>4, <2>2, <2>4, DoublePow2
    <3>2. QED
      BY <1>2, <3>1
  <2>5. QED
    BY <2>2, <2>3, <2>4
<1>5. QED
  BY <1>2, <1>3, <1>4

-------------------------------------------------------------------------------
(* The permutation.                                                          *)

\* The lines have room for all the slots, however the capacity divides.
LEMMA BoxesEnough ==
  ASSUME NEW line \in Nat \ {0}
  PROVE  Boxes(line) \in Nat \ {0} /\ Boxes(line) * line >= kCapacity
<1> USE SizeAssumption, LineAssumption
<1> DEFINE n == (kCapacity + line - 1) \div line
<1>1. n \in Nat /\ line * n >= kCapacity
  <2>1. /\ kCapacity + line - 1 = line * n + ((kCapacity + line - 1) % line)
        /\ n \in Nat /\ (kCapacity + line - 1) % line \in 0..(line - 1)
    OBVIOUS
  <2>2. QED
    BY <2>1
<1> HIDE DEF n
<1>2. n # 0
  BY <1>1
<1>3. RoundToPow2(n) \in n..(2 * n - 1)
  BY <1>1, <1>2, Pow2Exists DEF RoundToPow2
<1>4. Boxes(line) \in Nat /\ Boxes(line) >= n
  BY <1>1, <1>3 DEF Boxes, n
<1>5. Boxes(line) * line >= n * line
  BY <1>1, <1>4
<1>6. QED
  BY <1>1, <1>2, <1>4, <1>5

\* A slot's place is within the lines, and no other slot has it.
LEMMA PlacesDiffer ==
  ASSUME NEW line \in Nat \ {0}, NEW boxes \in Nat \ {0}, boxes * line >= kCapacity,
         NEW i \in 0..kIndexMask, NEW j \in 0..kIndexMask
  PROVE  /\ newIndex(i, boxes, line) \in 0..(boxes * line - 1)
         /\ newIndex(i, boxes, line) = newIndex(j, boxes, line) => i = j
<1> USE SizeAssumption DEF kIndexMask
<1>1. ASSUME NEW k \in 0..kIndexMask
      PROVE  /\ k = boxes * (k \div boxes) + (k % boxes)
             /\ k % boxes \in 0..(boxes - 1) /\ k \div boxes \in 0..(line - 1)
  <2>1. /\ k = boxes * (k \div boxes) + (k % boxes)
        /\ k % boxes \in 0..(boxes - 1) /\ k \div boxes \in Nat
    OBVIOUS
  <2>2. k \div boxes >= line => boxes * (k \div boxes) >= boxes * line
    BY <2>1
  <2>3. k < boxes * line
    OBVIOUS
  <2>4. boxes * (k \div boxes) \in Nat /\ boxes * (k \div boxes) <= k
    BY <2>1
  <2>5. QED
    BY <2>1, <2>2, <2>3, <2>4
<1> DEFINE a == i % boxes  b == i \div boxes  c == j % boxes  d == j \div boxes
<1>2. /\ a \in 0..(boxes - 1) /\ b \in 0..(line - 1) /\ i = boxes * b + a
      /\ c \in 0..(boxes - 1) /\ d \in 0..(line - 1) /\ j = boxes * d + c
      /\ newIndex(i, boxes, line) = a * line + b
      /\ newIndex(j, boxes, line) = c * line + d
  BY <1>1 DEF newIndex
<1> HIDE DEF a, b, c, d
<1>3. a * line + b \in 0..(boxes * line - 1)
  <2>1. a * line <= (boxes - 1) * line
    BY <1>2
  <2>2. (boxes - 1) * line = boxes * line - line /\ a * line \in Nat
    BY <1>2
  <2>3. QED
    BY <1>2, <2>1, <2>2
<1>4. ASSUME a * line + b = c * line + d  PROVE i = j
  <2>1. (a - c) * line = d - b
    BY <1>2, <1>4
  <2>2. a - c >= 1 => (a - c) * line >= line
    BY <1>2
  <2>3. a - c <= -1 => (a - c) * line <= -line
    BY <1>2
  <2>4. a = c /\ b = d
    BY <1>2, <2>1, <2>2, <2>3
  <2>5. QED
    BY <1>2, <2>4
<1>5. QED
  BY <1>2, <1>3, <1>4

-------------------------------------------------------------------------------
(* The refinement.                                                           *)

FlagPlaces == 0..(kIndexBoxes * kIndexLineSize - 1)
EntryPlaces == 0..(kEntryBoxes * kEntryLineSize - 1)

\* What the mapping needs of the types: sequences are integers, and the arrays
\* cover the lines.
ExTypes ==
  /\ cursor \in Int /\ workSequence \in Int
  /\ current \in [Threads -> Int] /\ scan \in [Threads -> Int]
  /\ available \in [Consumers -> Int]
  /\ data \in [Consumers -> [nextSequence : Int, cachedAvailableSequence : Int]]
  /\ entries = [i \in EntryPlaces |-> entries[i]]
  /\ availableBuffer = [i \in FlagPlaces |-> availableBuffer[i]]

\* The places of the entries and of the flags are within the arrays, and no two
\* slots share one.
LEMMA SlotsApart ==
  ASSUME NEW i \in 0..kIndexMask, NEW j \in 0..kIndexMask
  PROVE  /\ EntrySlot(i) \in EntryPlaces /\ FlagSlot(i) \in FlagPlaces
         /\ EntrySlot(i) = EntrySlot(j) => i = j
         /\ FlagSlot(i) = FlagSlot(j) => i = j
<1>1. \A k \in 0..kIndexMask : Slot(k) = k
  BY SizeAssumption DEF Slot, kIndexMask
<1>2. /\ kEntryBoxes \in Nat \ {0} /\ kEntryBoxes * kEntryLineSize >= kCapacity
      /\ kIndexBoxes \in Nat \ {0} /\ kIndexBoxes * kIndexLineSize >= kCapacity
  BY BoxesEnough, LineAssumption DEF kEntryBoxes, kIndexBoxes
<1>3. QED
  BY <1>1, <1>2, PlacesDiffer, LineAssumption DEF EntrySlot, FlagSlot, EntryPlaces, FlagPlaces

\* The place of a sequence is the place of its slot.
LEMMA SlotOfSequence ==
  ASSUME NEW n \in Int
  PROVE  /\ Slot(n) \in 0..kIndexMask
         /\ EntrySlot(Slot(n)) = EntrySlot(n) /\ FlagSlot(Slot(n)) = FlagSlot(n)
<1>1. Slot(n) \in 0..kIndexMask
  BY SizeAssumption DEF Slot, kIndexMask
<1>2. Slot(Slot(n)) = Slot(n)
  BY <1>1, SizeAssumption DEF Slot, kIndexMask
<1>3. QED
  BY <1>1, <1>2 DEF EntrySlot, FlagSlot

\* Sequences stay integers and the arrays keep their lengths.
LEMMA ExTypesStep ==
  ASSUME ExTypes, [NextEx]_vars
  PROVE  ExTypes'
<1> USE DEF Goto, shared, popLocals, harnessVars, ExTypes
<1>c. INITIAL_CURSOR_VALUE \in Int
  BY DEF INITIAL_CURSOR_VALUE
<1>1. ASSUME NEW p \in Producers, PushEx(p)  PROVE ExTypes'
  <2>1. CASE LoadCursor(p)
    BY <2>1 DEF LoadCursor
  <2>2. CASE LoadCache(p)
    BY <2>2 DEF LoadCache
  <2>3. CASE LoadGating(p)
    BY <2>3 DEF LoadGating
  <2>4. CASE LoadWorkForGate(p)
    BY <2>4 DEF LoadWorkForGate
  <2>5. CASE StoreCache(p)
    BY <2>5 DEF StoreCache
  <2>6. CASE ClaimCursor(p)
    BY <2>6 DEF ClaimCursor, nextSequence
  <2>7. CASE WriteEntryEx(p)
    BY <2>7 DEF WriteEntryEx
  <2>8. CASE PublishEx(p)
    BY <2>8 DEF PublishEx
  <2>9. QED
    BY <1>1, <2>1, <2>2, <2>3, <2>4, <2>5, <2>6, <2>7, <2>8 DEF PushEx
<1>2. ASSUME NEW c \in Consumers, PopEx(c)  PROVE ExTypes'
  <2>1. CASE LoadWork(c)
    BY <2>1 DEF LoadWork
  <2>2. CASE StoreGating(c)
    BY <2>2 DEF StoreGating
  <2>3. CASE ClaimWork(c)
    BY <2>3 DEF ClaimWork
  <2>4. CASE WaitForCursor(c)
    BY <2>4 DEF WaitForCursor
  <2>5. CASE IsAvailableEx(c)
    <3>1. UNCHANGED <<shared, current>>
      BY <2>5 DEF IsAvailableEx
    <3>2. scan' \in [Threads -> Int] /\ available' \in [Consumers -> Int]
      BY <2>5, <1>c DEF IsAvailableEx
    <3>3. data' \in [Consumers -> [nextSequence : Int, cachedAvailableSequence : Int]]
      <4>1. available[c] \in Int /\ scan[c] - 1 \in Int
        OBVIOUS
      <4>2. PICK highest \in Int :
              data' \in {data, [data EXCEPT ![c] =
                                  [data[c] EXCEPT !.cachedAvailableSequence = highest]]}
        BY <2>5, <4>1 DEF IsAvailableEx
      <4>3. QED
        BY <4>2
    <3>4. QED
      BY <3>1, <3>2, <3>3
  <2>6. CASE ReadEntryEx(c)
    BY <2>6 DEF ReadEntryEx
  <2>7. CASE SetMaxValue(c)
    BY <2>7 DEF SetMaxValue
  <2>8. QED
    BY <1>2, <2>1, <2>2, <2>3, <2>4, <2>5, <2>6, <2>7 DEF PopEx
<1>3. CASE UNCHANGED vars
  BY <1>3 DEF vars
<1>4. QED
  BY <1>1, <1>2, <1>3 DEF NextEx, Joined

\* A step that stays away from the arrays is the same step of DisruptorRingQueue.
LEMMA PushElsewhere ==
  ASSUME NEW p \in Producers,
         \/ LoadCursor(p) \/ LoadCache(p) \/ LoadGating(p) \/ LoadWorkForGate(p)
         \/ StoreCache(p) \/ ClaimCursor(p)
  PROVE  Ring!Push(p)
<1> USE DEF Goto, Ring!Goto, shared, Ring!shared, popLocals, Ring!popLocals,
            harnessVars, Ring!harnessVars
<1>1. CASE LoadCursor(p)
  BY <1>1 DEF LoadCursor, Ring!LoadCursor, Ring!Push
<1>2. CASE LoadCache(p)
  BY <1>2 DEF LoadCache, Ring!LoadCache, Ring!Push, wrapPoint, Ring!wrapPoint,
              kIndexMask, Ring!kIndexMask
<1>3. CASE LoadGating(p)
  BY <1>3 DEF LoadGating, Ring!LoadGating, Ring!Push, Lesser, Ring!Lesser
<1>4. CASE LoadWorkForGate(p)
  BY <1>4 DEF LoadWorkForGate, Ring!LoadWorkForGate, Ring!Push, Lesser, Ring!Lesser,
              wrapPoint, Ring!wrapPoint, kIndexMask, Ring!kIndexMask
<1>5. CASE StoreCache(p)
  BY <1>5 DEF StoreCache, Ring!StoreCache, Ring!Push
<1>6. CASE ClaimCursor(p)
  BY <1>6 DEF ClaimCursor, Ring!ClaimCursor, Ring!Push, nextSequence, Ring!nextSequence
<1>7. QED
  BY <1>1, <1>2, <1>3, <1>4, <1>5, <1>6

\* The same of a consumer's steps.
LEMMA PopElsewhere ==
  ASSUME NEW c \in Consumers,
         \/ LoadWork(c) \/ StoreGating(c) \/ ClaimWork(c) \/ WaitForCursor(c)
         \/ SetMaxValue(c)
  PROVE  Ring!Pop(c)
<1> USE DEF Goto, Ring!Goto, shared, Ring!shared, popLocals, Ring!popLocals,
            harnessVars, Ring!harnessVars
<1>1. CASE LoadWork(c)
  BY <1>1 DEF LoadWork, Ring!LoadWork, Ring!Pop
<1>2. CASE StoreGating(c)
  BY <1>2 DEF StoreGating, Ring!StoreGating, Ring!Pop
<1>3. CASE ClaimWork(c)
  BY <1>3 DEF ClaimWork, Ring!ClaimWork, Ring!Pop, ClaimedPC, Ring!ClaimedPC
<1>4. CASE WaitForCursor(c)
  BY <1>4 DEF WaitForCursor, Ring!WaitForCursor, Ring!Pop
<1>5. CASE SetMaxValue(c)
  BY <1>5 DEF SetMaxValue, Ring!SetMaxValue, Ring!Pop
<1>6. QED
  BY <1>1, <1>2, <1>3, <1>4, <1>5

\* The write of an entry is the write of its slot and of no other.
LEMMA WriteEntryIsRings ==
  ASSUME ExTypes, NEW p \in Producers, WriteEntryEx(p)
  PROVE  Ring!WriteEntry(p)
<1> DEFINE n == nextSequence(p)
           ringEntries == [s \in 0..kIndexMask |-> entries[EntrySlot(s)]]
<1>1. n \in Int
  BY DEF ExTypes, nextSequence
<1> HIDE DEF n
<1>2. Slot(n) \in 0..kIndexMask /\ EntrySlot(Slot(n)) = EntrySlot(n)
  BY <1>1, SlotOfSequence
<1>3. entries' = [entries EXCEPT ![EntrySlot(n)] = <<p, sent[p] + 1>>]
  BY DEF WriteEntryEx, n
<1>4. ringEntries' = [ringEntries EXCEPT ![Slot(n)] = <<p, sent[p] + 1>>]
  <2>1. \A s \in 0..kIndexMask :
          entries'[EntrySlot(s)] = IF s = Slot(n) THEN <<p, sent[p] + 1>> ELSE entries[EntrySlot(s)]
    BY <1>2, <1>3, SlotsApart DEF ExTypes
  <2>2. QED
    BY <1>2, <2>1
<1>5. QED
  BY <1>4 DEF WriteEntryEx, Ring!WriteEntry, n, nextSequence, Ring!nextSequence, Slot, Ring!Slot,
              kIndexMask, Ring!kIndexMask, Goto, Ring!Goto, popLocals, Ring!popLocals,
              harnessVars, Ring!harnessVars

\* The publication of a sequence is that of its slot and of no other.
LEMMA PublishIsRings ==
  ASSUME ExTypes, NEW p \in Producers, PublishEx(p)
  PROVE  Ring!Publish(p)
<1> DEFINE n == nextSequence(p)
           ringFlags == [s \in 0..kIndexMask |-> availableBuffer[FlagSlot(s)]]
<1>1. n \in Int
  BY DEF ExTypes, nextSequence
<1> HIDE DEF n
<1>2. Slot(n) \in 0..kIndexMask /\ FlagSlot(Slot(n)) = FlagSlot(n)
  BY <1>1, SlotOfSequence
<1>3. availableBuffer' = [availableBuffer EXCEPT ![FlagSlot(n)] = Lap(n)]
  BY DEF PublishEx, n
<1>4. ringFlags' = [ringFlags EXCEPT ![Slot(n)] = Lap(n)]
  <2>1. \A s \in 0..kIndexMask :
          availableBuffer'[FlagSlot(s)] = IF s = Slot(n) THEN Lap(n) ELSE availableBuffer[FlagSlot(s)]
    BY <1>2, <1>3, SlotsApart DEF ExTypes
  <2>2. QED
    BY <1>2, <2>1
<1>5. QED
  BY <1>4 DEF PublishEx, Ring!Publish, n, nextSequence, Ring!nextSequence, Slot, Ring!Slot,
              Lap, Ring!Lap, kIndexMask, Ring!kIndexMask, Goto, Ring!Goto,
              popLocals, Ring!popLocals

\* A consumer looks at the flag of the slot it means.
LEMMA IsAvailableIsRings ==
  ASSUME ExTypes, NEW c \in Consumers, IsAvailableEx(c)
  PROVE  Ring!IsAvailable(c)
<1>1. scan[c] \in Int
  BY DEF ExTypes
<1>2. [s \in 0..kIndexMask |-> availableBuffer[FlagSlot(s)]][Slot(scan[c])]
        = availableBuffer[FlagSlot(scan[c])]
  BY <1>1, SlotOfSequence
<1>3. QED
  BY <1>2 DEF IsAvailableEx, Ring!IsAvailable, Slot, Ring!Slot, Lap, Ring!Lap,
              kIndexMask, Ring!kIndexMask, Goto, Ring!Goto, ClaimedPC, Ring!ClaimedPC,
              INITIAL_CURSOR_VALUE, Ring!INITIAL_CURSOR_VALUE,
              shared, Ring!shared, harnessVars, Ring!harnessVars

\* The same of the entry.
LEMMA ReadEntryIsRings ==
  ASSUME ExTypes, NEW c \in Consumers, ReadEntryEx(c)
  PROVE  Ring!ReadEntry(c)
<1>1. data[c].nextSequence \in Int
  BY DEF ExTypes
<1>2. [s \in 0..kIndexMask |-> entries[EntrySlot(s)]][Slot(data[c].nextSequence)]
        = entries[EntrySlot(data[c].nextSequence)]
  BY <1>1, SlotOfSequence
<1>3. QED
  BY <1>2 DEF ReadEntryEx, Ring!ReadEntry, Slot, Ring!Slot, kIndexMask, Ring!kIndexMask,
              Goto, Ring!Goto, shared, Ring!shared, popLocals, Ring!popLocals

\* Every step of the permuted ring is a step of DisruptorRingQueue.
LEMMA RingStep ==
  ASSUME ExTypes, [NextEx]_vars
  PROVE  [Ring!Next]_Ring!vars
<1>1. ASSUME NEW p \in Producers, PushEx(p)  PROVE Ring!Push(p)
  <2>1. CASE WriteEntryEx(p)
    BY <2>1, WriteEntryIsRings DEF Ring!Push
  <2>2. CASE PublishEx(p)
    BY <2>2, PublishIsRings DEF Ring!Push
  <2>3. QED
    BY <1>1, <2>1, <2>2, PushElsewhere DEF PushEx
<1>2. ASSUME NEW c \in Consumers, PopEx(c)  PROVE Ring!Pop(c)
  <2>1. CASE IsAvailableEx(c)
    BY <2>1, IsAvailableIsRings DEF Ring!Pop
  <2>2. CASE ReadEntryEx(c)
    BY <2>2, ReadEntryIsRings DEF Ring!Pop
  <2>3. QED
    BY <1>2, <2>1, <2>2, PopElsewhere DEF PopEx
<1>3. CASE UNCHANGED vars
  BY <1>3 DEF vars, Ring!vars
<1>4. QED
  BY <1>1, <1>2, <1>3 DEF NextEx, Joined, Ring!Next, Consumers, Ring!Consumers

\* An empty ring is empty with the permutation undone.
LEMMA RingInit == ASSUME InitEx PROVE ExTypes /\ Ring!Init
<1>1. ExTypes
  BY DEF InitEx, InitSequences, ExTypes, INITIAL_CURSOR_VALUE, EntryPlaces, FlagPlaces
<1>2. /\ [s \in 0..kIndexMask |-> entries[EntrySlot(s)]] = [s \in 0..kIndexMask |-> NULL]
      /\ [s \in 0..kIndexMask |-> availableBuffer[FlagSlot(s)]] = [s \in 0..kIndexMask |-> -1]
  BY SlotsApart DEF InitEx, EntryPlaces, FlagPlaces
<1>3. Ring!Init
  BY <1>2 DEF InitEx, InitSequences, Ring!Init, Ring!InitSequences, kIndexMask, Ring!kIndexMask,
              Consumers, Ring!Consumers, Ring!Threads,
              INITIAL_CURSOR_VALUE, Ring!INITIAL_CURSOR_VALUE
<1>4. QED
  BY <1>1, <1>3

\* The ring whose entries and flags are spread over cache lines does what
\* DisruptorRingQueue does (DisruptorRingQueueEx.h:397-567), for every capacity and
\* every shape of the lines: publishing, overwriting or reading one sequence never
\* touches the place of another.
THEOREM Refinement == SpecEx => RefinesRing
<1>1. InitEx => ExTypes /\ Ring!Init
  BY RingInit
<1>2. ExTypes /\ [NextEx]_vars => ExTypes'
  BY ExTypesStep
<1>3. ExTypes /\ [NextEx]_vars => [Ring!Next]_Ring!vars
  BY RingStep
<1>4. QED
  BY <1>1, <1>2, <1>3, PTL DEF SpecEx, RefinesRing, Ring!Spec

-------------------------------------------------------------------------------
(* What is proved of DisruptorRingQueue holds of the permuted ring.          *)

RingProofs == INSTANCE DisruptorRingQueueProofs
  WITH entries <- [s \in 0..kIndexMask |-> entries[EntrySlot(s)]],
       availableBuffer <- [s \in 0..kIndexMask |-> availableBuffer[FlagSlot(s)]],
       kIsAllocOnHeap <- TRUE, UnsetFlags <- {}

\* Ring and RingProofs speak of the same system, definition by definition.
LEMMA SameRing == Ring!Spec <=> RingProofs!Spec
<1> USE DEF Ring!Goto, RingProofs!Goto, Ring!shared, RingProofs!shared, Ring!popLocals,
            RingProofs!popLocals, Ring!harnessVars, RingProofs!harnessVars,
            Ring!Consumers, RingProofs!Consumers, Ring!Threads, RingProofs!Threads,
            Ring!kIndexMask, RingProofs!kIndexMask, Ring!INITIAL_CURSOR_VALUE,
            RingProofs!INITIAL_CURSOR_VALUE, Ring!Slot, RingProofs!Slot, Ring!Lap,
            RingProofs!Lap, Ring!nextSequence, RingProofs!nextSequence, Ring!wrapPoint,
            RingProofs!wrapPoint, Ring!Lesser, RingProofs!Lesser, Ring!ClaimedPC,
            RingProofs!ClaimedPC
<1>1. ASSUME NEW p \in Producers  PROVE Ring!Push(p) <=> RingProofs!Push(p)
  BY DEF Ring!Push, RingProofs!Push,
         Ring!LoadCursor, RingProofs!LoadCursor, Ring!LoadCache,
         RingProofs!LoadCache, Ring!LoadGating, RingProofs!LoadGating,
         Ring!LoadWorkForGate, RingProofs!LoadWorkForGate, Ring!StoreCache,
         RingProofs!StoreCache, Ring!ClaimCursor, RingProofs!ClaimCursor,
         Ring!WriteEntry, RingProofs!WriteEntry, Ring!Publish, RingProofs!Publish
<1>2. ASSUME NEW c \in Consumers  PROVE Ring!Pop(c) <=> RingProofs!Pop(c)
  BY DEF Ring!Pop, RingProofs!Pop,
         Ring!LoadWork, RingProofs!LoadWork, Ring!StoreGating,
         RingProofs!StoreGating, Ring!ClaimWork, RingProofs!ClaimWork,
         Ring!WaitForCursor, RingProofs!WaitForCursor, Ring!IsAvailable,
         RingProofs!IsAvailable, Ring!ReadEntry, RingProofs!ReadEntry,
         Ring!SetMaxValue, RingProofs!SetMaxValue
<1>3. Ring!Init <=> RingProofs!Init
  BY DEF Ring!Init, Ring!InitSequences, RingProofs!Init, RingProofs!InitSequences
<1>4. [Ring!Next]_Ring!vars <=> [RingProofs!Next]_RingProofs!vars
  BY <1>1, <1>2 DEF Ring!Next, RingProofs!Next, Ring!Joined, RingProofs!Joined,
                    Ring!vars, RingProofs!vars, Consumers
<1>5. QED
  BY <1>3, <1>4, PTL DEF Ring!Spec, RingProofs!Spec

\* The storage of the first port has no part in this ring.
LEMMA RingAssumptions == {} \subseteq Int /\ RingProofs!Consumers = Consumers
  BY DEF RingProofs!Consumers, Consumers

\* No producer of DisruptorRingQueueEx overwrites an entry whose message is still to
\* be copied out (DisruptorRingQueueEx.h:502-509).
THEOREM Overwrite == SpecEx => []NoOverwrite
<1>1. RingProofs!Spec => []RingProofs!NoOverwrite
  BY RingProofs!Overwrite, RingAssumptions, ThreadAssumption, SizeAssumption
<1>2. RingProofs!NoOverwrite => NoOverwrite
  BY DEF RingProofs!NoOverwrite, NoOverwrite, RingProofs!Consumed, Consumed,
         RingProofs!Claims, Claims, RingProofs!nextSequence, nextSequence,
         RingProofs!Consumers, Consumers
<1>3. QED
  BY Refinement, SameRing, <1>1, <1>2, PTL DEF RefinesRing

\* No consumer of DisruptorRingQueueEx copies an entry before its producer has
\* published it (DisruptorRingQueueEx.h:421-447, 549-567).
THEOREM EarlyReads == SpecEx => []RingProofs!ReadsPublished
<1>1. RingProofs!Spec => []RingProofs!ReadsPublished
  BY RingProofs!EarlyReads, RingAssumptions, ThreadAssumption, SizeAssumption
<1>2. QED
  BY Refinement, SameRing, <1>1, PTL DEF RefinesRing

\* Cardinality and finiteness are the same on both sides.
LEMMA SameCardinality ==
  \A S : /\ RingProofs!IsFiniteSet(S) <=> IsFiniteSet(S)
         /\ RingProofs!Cardinality(S) = Cardinality(S)
  BY DEF RingProofs!IsFiniteSet, IsFiniteSet, RingProofs!Cardinality, Cardinality

\* DisruptorRingQueueEx passes disruptor_pop_list_verify with even quotas: no message
\* is recorded twice or made up, none is missing when every thread has returned,
\* and one consumer gets the messages of one producer in their order.
THEOREM Lists ==
  ASSUME IsFiniteSet(Producers),
         Cardinality(Producers) * MAX_PUSH_MSG_COUNT = kConsumers * MAX_POP_MSG_COUNT
  PROVE  SpecEx => [](PopListCorrect /\ ProducerOrder)
<1>1. RingProofs!Spec => [](RingProofs!PopListCorrect /\ RingProofs!ProducerOrder)
  BY RingProofs!Lists, SameCardinality, RingAssumptions, ThreadAssumption, SizeAssumption
<1>2. RingProofs!ProducerOrder => ProducerOrder
  BY RingAssumptions DEF RingProofs!ProducerOrder, ProducerOrder
<1>3. \A m : RingProofs!Times(m) = Times(m)
  BY RingAssumptions, SameCardinality DEF RingProofs!Times, Times
<1>4. RingProofs!Messages = Messages /\ RingProofs!Threads = Threads
  BY RingAssumptions DEF RingProofs!Messages, Messages, RingProofs!Threads, Threads
<1>5. RingProofs!PopListCorrect => PopListCorrect
  BY <1>3, <1>4, RingAssumptions DEF RingProofs!PopListCorrect, PopListCorrect
<1>6. QED
  BY Refinement, SameRing, <1>1, <1>2, <1>5, PTL DEF RefinesRing
===============================================================================
