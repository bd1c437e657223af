------------------------- MODULE SingleRingQueueProofs -------------------------
(* Proofs about SingleRingQueue for every capacity, index width and number of *)
(* messages.                                                                  *)
EXTENDS SingleRingQueue, RingIndexProofs, SequenceTheorems, TLAPS

\* The messages between the two indices.
Held == Sub(headSequence, tailSequence)

\* The oldest of them is already recorded.
Taken == IF pc["pop"] = "set_order" THEN 1 ELSE 0

\* The producer knows head, its own index, and that the ring was not full; the
\* consumer can only have made more room since.
ProducerKnows ==
  /\ Held <= kCapacity
  /\ pc["push"] \in {"load_tail", "entry", "set_order"} => head["push"] = headSequence
  /\ pc["push"] \in {"entry", "set_order"} => Held < kCapacity
  /\ pc["push"] # "done" => pushed < MAX_MSG_COUNT

\* The consumer knows tail, its own index, and a head that may be old, but lies
\* between tail and the current one.
ConsumerKnows ==
  /\ pc["pop"] = "load_tail" => Sub(head["pop"], tailSequence) <= Held
  /\ pc["pop"] \in {"entry", "set_order"} =>
       tail["pop"] = tailSequence /\ headSequence # tailSequence

\* From tail to head the entries hold the last messages pushed, oldest first, and
\* the one at head the next message as soon as it is written.
MessagesHeld ==
  /\ \A k \in 0..(Held - 1) :
       entries[Slot(Offset(tailSequence, k))] = pushed - Held + k + 1
  /\ pc["push"] = "set_order" => entries[Slot(headSequence)] = pushed + 1

\* The record list is the messages before those, in order and without a gap.
RecordsInOrder ==
  /\ Len(record_list) = pushed - Held + Taken
  /\ \A n \in 1..Len(record_list) : record_list[n] = n
  /\ pc["pop"] = "done" => Len(record_list) = MAX_MSG_COUNT

\* The inductive invariant.
Inv == TypeOK /\ ProducerKnows /\ ConsumerKnows /\ MessagesHeld /\ RecordsInOrder

-------------------------------------------------------------------------------

\* What the occupancy and the indices are in arithmetic.
LEMMA HeldType ==
  ASSUME TypeOK, ProducerKnows
  PROVE  /\ Held \in 0..kCapacity /\ Held \in Index /\ Held \in Nat
         /\ (Held = 0 <=> headSequence = tailSequence)
         /\ headSequence = Offset(tailSequence, Held)
<1>1. headSequence \in Index /\ tailSequence \in Index
  BY DEF TypeOK
<1>2. Held \in Index /\ (Held = 0 <=> headSequence = tailSequence)
  BY <1>1, SubType DEF Held
<1>3. headSequence = Offset(tailSequence, Held)
  BY <1>1, OffsetSub DEF Held
<1>4. QED
  BY <1>2, <1>3, CapacityAssumption, ModulusAssumption DEF ProducerKnows, Index

\* A fresh ring satisfies the invariant.
LEMMA InitInv == ASSUME QuotaAssumption, Init PROVE Inv
<1>1. Held = 0
  BY IndexType, SubType DEF Init, Held
<1>2. TypeOK
  BY IndexType DEF Init, TypeOK, Threads, QuotaAssumption
<1>3. pc["push"] = "load_head" /\ pc["pop"] = "load_head"
  BY DEF Init, Threads
<1>4. ProducerKnows
  BY <1>1, <1>3, CapacityAssumption DEF Init, ProducerKnows, QuotaAssumption
<1>5. Len(record_list) = 0 /\ pushed = 0
  BY DEF Init
<1>6. MessagesHeld /\ ConsumerKnows /\ RecordsInOrder
  BY <1>1, <1>3, <1>5 DEF MessagesHeld, ConsumerKnows, RecordsInOrder, Taken
<1>7. QED
  BY <1>2, <1>4, <1>6 DEF Inv

\* A step that only reads an index leaves the ring as it is.
LEMMA LoadStep ==
  ASSUME Inv, NEW th \in Threads, LoadHead(th) \/ LoadTail(th)
  PROVE  Inv'
<1> USE DEF Inv
<1>1. /\ UNCHANGED <<headSequence, tailSequence, entries, pushed, record_list>>
      /\ \A other \in Threads \ {th} : UNCHANGED <<pc[other], head[other], tail[other]>>
      /\ pc[th] \in {"load_head", "load_tail"}
      /\ pc'[th] \in {"load_head", "load_tail", "entry"}
  BY DEF LoadHead, LoadTail, Goto, DropLocals, TypeOK
<1>2. TypeOK'
  BY IndexType DEF LoadHead, LoadTail, Goto, DropLocals, TypeOK
<1>3. Held' = Held /\ Taken' = Taken
  BY <1>1 DEF Held, Taken, Threads
<1>4. MessagesHeld' /\ RecordsInOrder'
  BY <1>1, <1>3 DEF MessagesHeld, RecordsInOrder, Threads
<1>5. CASE th = "push"
  <2>1. ConsumerKnows'
    BY <1>1, <1>3, <1>5 DEF ConsumerKnows, Threads
  <2>2. CASE LoadHead(th)
    BY <1>1, <1>2, <1>3, <1>4, <1>5, <2>1, <2>2
       DEF ProducerKnows, LoadHead, Goto, TypeOK, Threads
  <2>3. CASE LoadTail(th)
    <3>1. pc[th] = "load_tail" /\ head[th] = headSequence
      BY <1>5, <2>3 DEF LoadTail, ProducerKnows
    <3>2. CASE QueueFull(head[th], tailSequence)
      <4>1. pc'[th] = "load_head"
        BY <1>5, <2>3, <3>2 DEF LoadTail, Goto, TypeOK
      <4>2. QED
        BY <1>1, <1>2, <1>3, <1>4, <1>5, <2>1, <3>1, <4>1 DEF ProducerKnows
    <3>3. CASE ~QueueFull(head[th], tailSequence)
      <4>1. pc'[th] = "entry" /\ head' = head
        BY <1>5, <2>3, <3>3 DEF LoadTail, Goto, TypeOK
      <4>2. Held < kCapacity
        BY <3>1, <3>3, HeldType, CapacityAssumption DEF QueueFull, Held, kMask
      <4>3. QED
        BY <1>1, <1>2, <1>3, <1>4, <1>5, <2>1, <3>1, <4>1, <4>2 DEF ProducerKnows
    <3>4. QED
      BY <3>2, <3>3
  <2>4. QED
    BY <2>2, <2>3
<1>6. CASE th = "pop"
  <2>1. ProducerKnows'
    BY <1>1, <1>3, <1>6 DEF ProducerKnows, Threads
  <2>2. CASE LoadHead(th)
    <3>1. pc'[th] = "load_tail" /\ head'[th] = headSequence
      BY <2>2 DEF LoadHead, Goto, TypeOK
    <3>2. ConsumerKnows'
      BY <1>1, <1>3, <1>6, <3>1, HeldType DEF ConsumerKnows, Held
    <3>3. QED
      BY <1>2, <1>4, <2>1, <3>2
  <2>3. CASE LoadTail(th)
    <3>1. pc[th] = "load_tail" /\ Sub(head[th], tailSequence) <= Held
      BY <1>6, <2>3 DEF LoadTail, ConsumerKnows
    <3>2. CASE QueueEmpty(head[th], tailSequence)
      <4>1. pc'[th] = "load_head"
        BY <1>6, <2>3, <3>2 DEF LoadTail, Goto, TypeOK
      <4>2. QED
        BY <1>2, <1>4, <1>6, <2>1, <4>1 DEF ConsumerKnows
    <3>3. CASE ~QueueEmpty(head[th], tailSequence)
      <4>1. pc'[th] = "entry" /\ tail'[th] = tailSequence
        BY <1>6, <2>3, <3>3 DEF LoadTail, Goto, TypeOK
      <4>2. head[th] \in Index /\ tailSequence \in Index /\ head[th] # tailSequence
        BY <3>3 DEF QueueEmpty, TypeOK
      <4>3. Sub(head[th], tailSequence) # 0 /\ Sub(head[th], tailSequence) \in Index
        BY <4>2, SubType
      <4>4. \A i \in Index : i \in Nat
        BY ModulusAssumption DEF Index
      <4>5. headSequence # tailSequence
        BY <3>1, <4>3, <4>4, HeldType
      <4>6. QED
        BY <1>1, <1>2, <1>4, <1>6, <2>1, <4>1, <4>5 DEF ConsumerKnows
    <3>4. QED
      BY <3>2, <3>3
  <2>4. QED
    BY <2>2, <2>3
<1>7. QED
  BY <1>5, <1>6 DEF Threads

\* The write of the entry is of the free slot at head and disturbs no message.
LEMMA WriteStep == ASSUME QuotaAssumption, Inv, WriteEntry PROVE Inv'
<1> USE DEF Inv
<1>1. /\ UNCHANGED <<headSequence, tailSequence, head, tail, pushed, record_list>>
      /\ entries' = [entries EXCEPT ![Slot(headSequence)] = pushed + 1]
      /\ pc["push"] = "entry" /\ pc' = [pc EXCEPT !["push"] = "set_order"]
  BY DEF WriteEntry, Goto, ProducerKnows
<1>2. pushed + 1 \in Messages /\ Slot(headSequence) \in SlotIds /\ Held < kCapacity
  BY <1>1, IndexType DEF ProducerKnows, TypeOK, Messages, QuotaAssumption
<1>3. pc'["push"] = "set_order" /\ pc'["pop"] = pc["pop"]
  BY <1>1 DEF TypeOK, Threads
<1>4. Held' = Held /\ Taken' = Taken
  BY <1>1, <1>3 DEF Held, Taken
<1>5. TypeOK'
  BY <1>1, <1>2 DEF TypeOK, Threads
<1>6. ProducerKnows' /\ ConsumerKnows' /\ RecordsInOrder'
  BY <1>1, <1>3, <1>4 DEF ProducerKnows, ConsumerKnows, RecordsInOrder
<1>7. ASSUME NEW k \in 0..(Held - 1)
      PROVE  entries'[Slot(Offset(tailSequence, k))] = entries[Slot(Offset(tailSequence, k))]
  <2>1. Held \in 0..kMask /\ tailSequence \in Index
    BY <1>2, HeldType, CapacityAssumption DEF kMask, TypeOK
  <2>2. Slot(Offset(tailSequence, Held)) # Slot(Offset(tailSequence, k))
    BY <2>1, QueuedSlotsDiffer
  <2>3. k \in Index
    BY <2>1, CapacityAssumption, ModulusAssumption DEF kMask, Index
  <2>4. Slot(Offset(tailSequence, k)) \in SlotIds
    BY <2>1, <2>3, OffsetSub, IndexType
  <2>5. QED
    BY <1>1, <2>2, <2>4, HeldType DEF TypeOK
<1>8. entries'[Slot(headSequence)] = pushed + 1
  BY <1>1, <1>2 DEF TypeOK
<1>9. MessagesHeld'
  BY <1>1, <1>4, <1>7, <1>8 DEF MessagesHeld
<1>10. QED
  BY <1>5, <1>6, <1>9

\* The store of head adds the written message to the ring.
LEMMA SetHeadStep == ASSUME QuotaAssumption, Inv, SetHead PROVE Inv'
<1> USE DEF Inv
<1>1. /\ UNCHANGED <<tailSequence, entries, record_list>>
      /\ headSequence' = Inc(headSequence) /\ pushed' = pushed + 1
      /\ pc["push"] = "set_order" /\ Held < kCapacity /\ pushed < MAX_MSG_COUNT
      /\ pc' = [pc EXCEPT !["push"] =
                  IF pushed' < MAX_MSG_COUNT THEN "load_head" ELSE "done"]
      /\ head' = [head EXCEPT !["push"] = 0] /\ tail' = [tail EXCEPT !["push"] = 0]
  BY DEF SetHead, Goto, DropLocals, ProducerKnows
<1>2. TypeOK'
  BY <1>1, IndexType DEF TypeOK, Threads, QuotaAssumption
<1>3. /\ pc'["push"] = IF pushed' < MAX_MSG_COUNT THEN "load_head" ELSE "done"
      /\ UNCHANGED <<pc["pop"], head["pop"], tail["pop"]>>
  BY <1>1 DEF TypeOK, Threads
<1>4. Held' = Held + 1 /\ Taken' = Taken
  BY <1>1, <1>3, SubIncHead DEF TypeOK, Held, Taken
<1>5. Held \in Nat
  BY HeldType
<1>6. ProducerKnows'
  BY <1>1, <1>3, <1>4, <1>5, CapacityAssumption DEF ProducerKnows
<1>7. ConsumerKnows'
  <2>1. Sub(head["pop"], tailSequence) \in Nat
    <3>1. Sub(head["pop"], tailSequence) \in Index
      BY SubType DEF TypeOK, Threads
    <3>2. \A i \in Index : i \in Nat
      BY ModulusAssumption DEF Index
    <3>3. QED
      BY <3>1, <3>2
  <2>2. headSequence' # tailSequence'
    <3>1. headSequence' \in Index /\ tailSequence' \in Index
      BY <1>2 DEF TypeOK
    <3>2. Sub(headSequence', tailSequence') # 0
      BY <1>4, <1>5 DEF Held
    <3>3. QED
      BY <3>1, <3>2, SubType
  <2>3. QED
    BY <1>1, <1>3, <1>4, <1>5, <2>1, <2>2 DEF ConsumerKnows
<1>8. MessagesHeld'
  <2>1. ASSUME NEW k \in 0..(Held' - 1)
        PROVE  entries'[Slot(Offset(tailSequence', k))] = pushed' - Held' + k + 1
    <3>1. CASE k < Held
      <4>1. k \in 0..(Held - 1) /\ pushed' - Held' = pushed - Held
        BY <1>1, <1>4, <1>5, <3>1 DEF TypeOK
      <4>2. QED
        BY <1>1, <4>1 DEF MessagesHeld
    <3>2. CASE k = Held
      <4>1. entries[Slot(Offset(tailSequence, k))] = pushed + 1
        BY <1>1, <3>2, HeldType DEF MessagesHeld
      <4>2. pushed' - Held' + k + 1 = pushed + 1
        BY <1>1, <1>4, <1>5, <3>2 DEF TypeOK
      <4>3. QED
        BY <1>1, <4>1, <4>2
    <3>3. QED
      BY <1>4, <1>5, <3>1, <3>2
  <2>2. QED
    BY <1>3, <2>1 DEF MessagesHeld
<1>9. RecordsInOrder'
  <2>1. pushed' - Held' = pushed - Held
    BY <1>1, <1>4, <1>5 DEF TypeOK
  <2>2. QED
    BY <1>1, <1>3, <1>4, <2>1 DEF RecordsInOrder
<1>10. QED
  BY <1>2, <1>6, <1>7, <1>8, <1>9

\* The consumer reads the oldest message, which is the next of the record list.
LEMMA ReadIsNext ==
  ASSUME QuotaAssumption, Inv, ReadEntry
  PROVE  /\ entries[Slot(tail["pop"])] = Len(record_list) + 1
         /\ Len(record_list) + 1 \in Messages /\ Len(record_list) < pushed
         /\ record_list' = Append(record_list, Len(record_list) + 1)
<1> USE DEF Inv
<1>1. pc["pop"] = "entry" /\ tail["pop"] = tailSequence /\ headSequence # tailSequence
  BY DEF ReadEntry, ConsumerKnows
<1>2. Held \in Nat \ {0} /\ tailSequence \in Index
  BY <1>1, HeldType DEF TypeOK
<1>3. Taken = 0 /\ Len(record_list) = pushed - Held
  BY <1>1, <1>2 DEF Taken, RecordsInOrder, TypeOK
<1>4. entries[Slot(Offset(tailSequence, 0))] = pushed - Held + 0 + 1
  BY <1>2 DEF MessagesHeld
<1>5. Offset(tailSequence, 0) = tailSequence
  BY <1>2, OffsetSub
<1>6. pushed \in 0..MAX_MSG_COUNT /\ Len(record_list) \in Nat
  BY LenProperties DEF TypeOK
<1>7. entries[Slot(tail["pop"])] = Len(record_list) + 1
  BY <1>1, <1>2, <1>3, <1>4, <1>5, <1>6
<1>8. Len(record_list) < pushed /\ Len(record_list) + 1 \in Messages
  BY <1>2, <1>3, <1>6 DEF Messages, QuotaAssumption
<1>9. QED
  BY <1>7, <1>8 DEF ReadEntry

\* The read of the entry records it.
LEMMA ReadStep == ASSUME QuotaAssumption, Inv, ReadEntry PROVE Inv'
<1> USE DEF Inv
<1>1. /\ UNCHANGED <<headSequence, tailSequence, entries, head, tail, pushed>>
      /\ pc["pop"] = "entry" /\ pc' = [pc EXCEPT !["pop"] = "set_order"]
  BY DEF ReadEntry, Goto
<1>2. /\ record_list' = Append(record_list, Len(record_list) + 1)
      /\ Len(record_list) + 1 \in Messages /\ record_list \in Seq(Messages)
      /\ Len(record_list) \in Nat
  BY ReadIsNext, LenProperties DEF TypeOK
<1>3. /\ record_list' \in Seq(Messages) /\ Len(record_list') = Len(record_list) + 1
      /\ \A n \in 1..Len(record_list) : record_list'[n] = record_list[n]
      /\ record_list'[Len(record_list) + 1] = Len(record_list) + 1
  BY <1>2, AppendProperties
<1>4. pc'["pop"] = "set_order" /\ pc'["push"] = pc["push"]
  BY <1>1 DEF TypeOK, Threads
<1>5. Held' = Held /\ Taken = 0 /\ Taken' = 1 /\ Held \in Nat
  BY <1>1, <1>4, HeldType DEF Held, Taken
<1>6. TypeOK'
  BY <1>1, <1>3 DEF TypeOK, Threads
<1>7. ProducerKnows' /\ ConsumerKnows' /\ MessagesHeld'
  BY <1>1, <1>4, <1>5 DEF ProducerKnows, ConsumerKnows, MessagesHeld
<1>8. RecordsInOrder'
  <2>1. Len(record_list') = pushed' - Held' + Taken'
    BY <1>1, <1>3, <1>5 DEF RecordsInOrder, TypeOK
  <2>2. \A n \in 1..Len(record_list') : record_list'[n] = n
    BY <1>2, <1>3 DEF RecordsInOrder
  <2>3. QED
    BY <1>4, <2>1, <2>2 DEF RecordsInOrder
<1>9. QED
  BY <1>6, <1>7, <1>8

\* The store of tail takes the recorded message out of the ring.
LEMMA SetTailStep == ASSUME QuotaAssumption, Inv, SetTail PROVE Inv'
<1> USE DEF Inv
<1>1. /\ UNCHANGED <<headSequence, entries, pushed, record_list>>
      /\ tailSequence' = Inc(tailSequence) /\ headSequence # tailSequence
      /\ pc["pop"] = "set_order"
      /\ pc' = [pc EXCEPT !["pop"] =
                  IF Len(record_list) < MAX_MSG_COUNT THEN "load_head" ELSE "done"]
      /\ head' = [head EXCEPT !["pop"] = 0] /\ tail' = [tail EXCEPT !["pop"] = 0]
  BY DEF SetTail, Goto, DropLocals, ConsumerKnows
<1>2. TypeOK'
  BY <1>1, IndexType DEF TypeOK, Threads
<1>3. /\ pc'["pop"] \in {"load_head", "done"}
      /\ UNCHANGED <<pc["push"], head["push"], tail["push"]>>
  BY <1>1 DEF TypeOK, Threads
<1>4. Held' = Held - 1 /\ Taken = 1 /\ Taken' = 0
  BY <1>1, <1>3, SubIncTail DEF TypeOK, Held, Taken
<1>5. Held \in 0..kCapacity
  BY HeldType
<1>6. ProducerKnows'
  BY <1>1, <1>3, <1>4, <1>5, CapacityAssumption DEF ProducerKnows
<1>7. ConsumerKnows'
  BY <1>3 DEF ConsumerKnows
<1>8. MessagesHeld'
  <2>1. ASSUME NEW k \in 0..(Held' - 1)
        PROVE  entries'[Slot(Offset(tailSequence', k))] = pushed' - Held' + k + 1
    <3>1. k \in Nat /\ k < IndexModulus - 1 /\ k + 1 \in 0..(Held - 1)
      BY <1>4, <1>5, CapacityAssumption, ModulusAssumption
    <3>2. Offset(tailSequence', k) = Offset(tailSequence, k + 1)
      BY <1>1, <3>1, OffsetSub DEF TypeOK
    <3>3. entries[Slot(Offset(tailSequence, k + 1))] = pushed - Held + (k + 1) + 1
      BY <3>1 DEF MessagesHeld
    <3>4. pushed' - Held' + k + 1 = pushed - Held + (k + 1) + 1
      BY <1>1, <1>4, <1>5, <3>1 DEF TypeOK
    <3>5. QED
      BY <1>1, <3>2, <3>3, <3>4
  <2>2. QED
    BY <1>1, <1>3, <2>1 DEF MessagesHeld
<1>9. RecordsInOrder'
  <2>1. pushed' - Held' + Taken' = pushed - Held + Taken
    BY <1>1, <1>4, <1>5 DEF TypeOK
  <2>2. pc'["pop"] = "done" => Len(record_list) = MAX_MSG_COUNT
    <3>1. Len(record_list) = pushed - Held + 1 /\ Held # 0
      BY <1>1, <1>4, HeldType DEF RecordsInOrder
    <3>2. Len(record_list) <= MAX_MSG_COUNT
      BY <1>5, <3>1 DEF TypeOK, QuotaAssumption
    <3>3. pc'["pop"] = "done" => ~(Len(record_list) < MAX_MSG_COUNT)
      BY <1>1 DEF TypeOK, Threads
    <3>4. QED
      BY <1>5, <3>1, <3>2, <3>3 DEF TypeOK, QuotaAssumption
  <2>3. QED
    BY <1>1, <2>1, <2>2 DEF RecordsInOrder
<1>10. QED
  BY <1>2, <1>6, <1>7, <1>8, <1>9

\* The inductive invariant, for every capacity, width of the index and number of
\* messages, also across any number of wraps.
THEOREM Invariance == ASSUME QuotaAssumption PROVE Spec => []Inv
<1>1. Init => Inv
  BY InitInv
<1>2. Inv /\ [Next]_vars => Inv'
  <2>1. SUFFICES ASSUME Inv, [Next]_vars  PROVE Inv'
    OBVIOUS
  <2>2. CASE UNCHANGED vars
    BY <2>1, <2>2 DEF vars, Inv, TypeOK, ProducerKnows, ConsumerKnows, MessagesHeld,
                      RecordsInOrder, Held, Taken
  <2>3. QED
    BY <2>1, <2>2, LoadStep, WriteStep, SetHeadStep, ReadStep, SetTailStep
       DEF Next, push, pop, Joined, Threads
<1>3. QED
  BY <1>1, <1>2, PTL DEF Spec

\* No entry is written while the consumer copies it (SingleRingQueue.h: neither side
\* sees the other's locals).
THEOREM SlotRace == ASSUME QuotaAssumption PROVE Spec => []NoSlotRace
<1>1. ASSUME Inv  PROVE NoSlotRace
  <2>1. SUFFICES ASSUME pc["push"] = "entry", pc["pop"] = "entry"
        PROVE  Slot(head["push"]) # Slot(tail["pop"])
    BY DEF NoSlotRace
  <2>2. /\ head["push"] = headSequence /\ tail["pop"] = tailSequence
        /\ Held < kCapacity /\ headSequence # tailSequence
    BY <1>1, <2>1 DEF Inv, ProducerKnows, ConsumerKnows
  <2>3. headSequence \in Index /\ tailSequence \in Index
    BY <1>1 DEF Inv, TypeOK
  <2>4. QED
    BY <2>2, <2>3, SlotsDiffer DEF Held
<1>2. QED
  BY <1>1, Invariance, PTL

-------------------------------------------------------------------------------
(* The ring implements the bounded queue: the store of head is Put, the read *)
(* of the entry is Take, every other step stutters.                          *)

\* The messages pushed and not recorded.
Between == [i \in 1..(pushed - Len(record_list)) |-> <<"push", Len(record_list) + i>>]

\* They are what the queue holds, whatever the indices are.
LEMMA ContentsAre ==
  ASSUME Inv
  PROVE  /\ contents = Between
         /\ Len(record_list) \in Nat /\ pushed \in Nat
         /\ pushed - Len(record_list) \in 0..kCapacity
         /\ pushed - Len(record_list) = Held - Taken
<1> USE DEF Inv
<1>1. Held \in 0..kCapacity /\ Taken \in {0, 1} /\ (Taken = 1 => Held # 0)
  BY HeldType DEF Taken, ConsumerKnows
<1>2. /\ Len(record_list) \in Nat /\ pushed \in Nat
      /\ Len(record_list) = pushed - Held + Taken
  BY LenProperties DEF TypeOK, RecordsInOrder
<1>3. pushed - Len(record_list) = Held - Taken /\ Held - Taken \in 0..kCapacity
  BY <1>1, <1>2, CapacityAssumption
<1>4. ASSUME NEW i \in 1..(Held - Taken)
      PROVE  entries[Slot(Offset(tailSequence, Taken + i - 1))] = Len(record_list) + i
  <2>1. Taken + i - 1 \in 0..(Held - 1)
    BY <1>1
  <2>2. entries[Slot(Offset(tailSequence, Taken + i - 1))] = pushed - Held + (Taken + i - 1) + 1
    BY <2>1 DEF MessagesHeld
  <2>3. QED
    BY <1>1, <1>2, <2>2
<1>5. contents = [i \in 1..(Held - Taken) |->
                    <<"push", entries[Slot(Offset(tailSequence, Taken + i - 1))]>>]
  BY DEF contents, Held, Taken
<1>6. QED
  BY <1>2, <1>3, <1>4, <1>5 DEF Between

\* A row of consecutive messages is a sequence.
LEMMA RowType ==
  ASSUME NEW a \in Nat, NEW n \in Nat
  PROVE  LET row == [i \in 1..n |-> <<"push", a + i>>]
         IN  row \in Seq({"push"} \X Nat) /\ Len(row) = n
<1> DEFINE row == [i \in 1..n |-> <<"push", a + i>>]
<1>1. row \in [1..n -> {"push"} \X Nat]
  OBVIOUS
<1>2. row \in Seq({"push"} \X Nat)
  BY <1>1, SeqDef
<1>3. Len(row) \in Nat /\ 1..Len(row) = 1..n
  BY <1>1, <1>2, LenProperties
<1>4. QED
  BY <1>2, <1>3

\* What one message more at the end or one less at the front makes of a row.
LEMMA RowProperties ==
  ASSUME NEW a \in Nat, NEW n \in Nat
  PROVE  LET row == [i \in 1..n |-> <<"push", a + i>>]
             longer == [i \in 1..(n + 1) |-> <<"push", a + i>>]
             shorter == [i \in 1..(n - 1) |-> <<"push", (a + 1) + i>>]
         IN  /\ row \in Seq({"push"} \X Nat) /\ Len(row) = n
             /\ longer = Append(row, <<"push", a + n + 1>>)
             /\ n # 0 => row # << >> /\ Head(row) = <<"push", a + 1>> /\ Tail(row) = shorter
<1> DEFINE row == [i \in 1..n |-> <<"push", a + i>>]
           longer == [i \in 1..(n + 1) |-> <<"push", a + i>>]
           shorter == [i \in 1..(n - 1) |-> <<"push", (a + 1) + i>>]
           M == {"push"} \X Nat
<1>1. row \in Seq(M) /\ Len(row) = n
  BY RowType
<1>2. longer = Append(row, <<"push", a + n + 1>>)
  <2>1. longer \in Seq(M) /\ Len(longer) = n + 1
    <3>1. n + 1 \in Nat
      OBVIOUS
    <3>2. QED
      BY <3>1, RowType
  <2> DEFINE app == Append(row, <<"push", a + n + 1>>)
  <2>2. <<"push", a + n + 1>> \in M
    OBVIOUS
  <2>3. /\ app \in Seq(M) /\ Len(app) = n + 1
        /\ \A i \in 1..n : app[i] = row[i]
        /\ app[n + 1] = <<"push", a + n + 1>>
    BY <1>1, <2>2, AppendProperties
  <2>4. ASSUME NEW i \in 1..(n + 1)  PROVE longer[i] = app[i]
    <3>1. longer[i] = <<"push", a + i>> /\ (i \in 1..n => row[i] = <<"push", a + i>>)
      OBVIOUS
    <3>2. i \in 1..n \/ (i = n + 1 /\ a + i = a + n + 1)
      OBVIOUS
    <3> HIDE DEF row, longer, app
    <3>3. CASE i \in 1..n
      BY <2>3, <3>1, <3>3
    <3>4. CASE i = n + 1
      BY <2>3, <3>1, <3>2, <3>4
    <3>5. QED
      BY <3>2, <3>3, <3>4
  <2>5. QED
    BY <2>1, <2>3, <2>4, SeqEqual
<1>3. ASSUME n # 0  PROVE row # << >> /\ Head(row) = <<"push", a + 1>> /\ Tail(row) = shorter
  <2>1. row # << >>
    BY <1>1, <1>3, EmptySeq
  <2>2. Head(row) = <<"push", a + 1>>
    BY <1>1, <1>3, <2>1, HeadTailProperties
  <2>3. /\ Tail(row) \in Seq(M) /\ Len(Tail(row)) = n - 1
        /\ \A i \in 1..(n - 1) : Tail(row)[i] = row[i + 1]
    BY <1>1, <2>1, HeadTailProperties
  <2>4. shorter \in Seq(M) /\ Len(shorter) = n - 1
    <3>1. n - 1 \in Nat /\ a + 1 \in Nat
      BY <1>3
    <3>2. QED
      BY <3>1, RowType
  <2>5. ASSUME NEW i \in 1..(n - 1)  PROVE shorter[i] = Tail(row)[i]
    <3>1. i + 1 \in 1..n /\ a + (i + 1) = (a + 1) + i
      BY <2>5
    <3>2. row[i + 1] = <<"push", a + (i + 1)>>
      BY <3>1
    <3>3. shorter[i] = <<"push", (a + 1) + i>>
      BY <2>5
    <3> HIDE DEF row, shorter
    <3>4. QED
      BY <2>3, <3>1, <3>2, <3>3
  <2>6. QED
    BY <2>1, <2>2, <2>3, <2>4, <2>5, SeqEqual
<1>4. QED
  BY <1>1, <1>2, <1>3

\* A fresh ring is the empty queue.
LEMMA InitIsQueue == ASSUME QuotaAssumption, Init PROVE Abstract!Init
<1>1. Inv
  BY InitInv
<1>2. pushed = 0 /\ record_list = << >> /\ Len(record_list) = 0
  BY DEF Init
<1>3. contents = [i \in 1..(0 - 0) |-> <<"push", 0 + i>>]
  BY <1>1, <1>2, ContentsAre DEF Between
<1>4. Len(contents) = 0 /\ contents \in Seq({"push"} \X Nat)
  BY <1>3, RowProperties
<1>5. contents = << >>
  BY <1>4, EmptySeq
<1>6. popped = [c \in {"pop"} |-> << >>]
  BY <1>2 DEF popped
<1>7. QED
  BY <1>2, <1>5, <1>6 DEF Abstract!Init

\* The store of head is the Put of the queue.
LEMMA SetHeadIsPut == ASSUME QuotaAssumption, Inv, SetHead PROVE Abstract!Next
<1>1. Inv'
  BY SetHeadStep
<1> DEFINE a == Len(record_list)
           n == pushed - Len(record_list)
<1>2. /\ pushed' = pushed + 1 /\ record_list' = record_list /\ Held < kCapacity
  BY DEF SetHead, Inv, ProducerKnows
<1>3. /\ contents = [i \in 1..n |-> <<"push", a + i>>] /\ a \in Nat /\ pushed \in Nat
      /\ n \in 0..kCapacity /\ n = Held - Taken
  BY ContentsAre DEF Between
<1>4. contents' = [i \in 1..(n + 1) |-> <<"push", a + i>>]
  <2>1. (contents = Between)'
    BY <1>1, ContentsAre, PTL
  <2>2. pushed' - Len(record_list') = n + 1 /\ Len(record_list') = a
    BY <1>2, <1>3
  <2>3. QED
    BY <2>1, <2>2 DEF Between
<1>5. n \in Nat /\ a + n + 1 = pushed + 1
  BY <1>3, CapacityAssumption
<1>6. /\ Len(contents) = n
      /\ contents' = Append(contents, <<"push", pushed + 1>>)
  BY <1>3, <1>4, <1>5, RowProperties
<1>7. Len(contents) < kCapacity
  BY <1>2, <1>3, <1>6, HeldType, CapacityAssumption DEF Taken, Inv
<1>8. popped' = popped
  BY <1>2 DEF popped
<1>9. [p \in {"push"} |-> pushed]' = [p \in {"push"} |-> pushed + 1]
  BY <1>2
<1>10. Abstract!Put("push")
  BY <1>6, <1>7, <1>8, <1>9 DEF Abstract!Put
<1>11. QED
  BY <1>10 DEF Abstract!Next

\* The read of the entry is the Take of the queue.
LEMMA ReadIsTake == ASSUME QuotaAssumption, Inv, ReadEntry PROVE Abstract!Next
<1>1. Inv'
  BY ReadStep
<1> DEFINE a == Len(record_list)
           n == pushed - Len(record_list)
<1>2. /\ pushed' = pushed /\ record_list' = Append(record_list, a + 1)
      /\ a + 1 \in Messages /\ a < pushed
  BY ReadIsNext DEF ReadEntry
<1>3. /\ contents = [i \in 1..n |-> <<"push", a + i>>] /\ a \in Nat /\ pushed \in Nat
      /\ n \in 0..kCapacity
  BY ContentsAre DEF Between
<1>4. /\ record_list' \in Seq(Messages) /\ Len(record_list') = a + 1
      /\ \A k \in 1..a : record_list'[k] = record_list[k]
      /\ record_list'[a + 1] = a + 1
  BY <1>2, AppendProperties DEF Inv, TypeOK
<1>5. contents' = [i \in 1..(n - 1) |-> <<"push", (a + 1) + i>>]
  <2>1. (contents = Between)'
    BY <1>1, ContentsAre, PTL
  <2>2. pushed' - Len(record_list') = n - 1 /\ Len(record_list') = a + 1
    BY <1>2, <1>3, <1>4
  <2>3. QED
    BY <2>1, <2>2 DEF Between
<1>6. n \in Nat /\ n # 0
  BY <1>2, <1>3, CapacityAssumption
<1>7. /\ contents # << >> /\ Head(contents) = <<"push", a + 1>>
      /\ contents' = Tail(contents)
  BY <1>3, <1>5, <1>6, RowProperties
<1>8. popped' = [popped EXCEPT !["pop"] = Append(popped["pop"], Head(contents))]
  <2> DEFINE seen == [i \in 1..a |-> <<"push", record_list[i]>>]
             seenNext == [i \in 1..(a + 1) |-> <<"push", record_list'[i]>>]
  <2>1. seen = [i \in 1..a |-> <<"push", 0 + i>>]
    BY <1>3 DEF Inv, RecordsInOrder
  <2>2. seenNext = [i \in 1..(a + 1) |-> <<"push", 0 + i>>]
    BY <1>1, <1>3, <1>4 DEF Inv, RecordsInOrder
  <2>3. seenNext = Append(seen, <<"push", 0 + a + 1>>)
    BY <1>3, <2>1, <2>2, RowProperties
  <2>4. popped["pop"] = seen /\ popped' = [c \in {"pop"} |-> seenNext]
    BY <1>4 DEF popped
  <2>5. 0 + a + 1 = a + 1
    BY <1>3
  <2>6. QED
    BY <1>7, <2>3, <2>4, <2>5 DEF popped
<1>9. [p \in {"push"} |-> pushed]' = [p \in {"push"} |-> pushed]
  BY <1>2
<1>10. Abstract!Take("pop")
  BY <1>7, <1>8, <1>9 DEF Abstract!Take
<1>11. QED
  BY <1>10 DEF Abstract!Next

\* Every other step leaves the queue as it is.
LEMMA QuietStep ==
  ASSUME QuotaAssumption, Inv,
         \/ \E th \in Threads : LoadHead(th) \/ LoadTail(th)
         \/ WriteEntry \/ SetTail \/ UNCHANGED vars
  PROVE  UNCHANGED Abstract!vars
<1>1. Inv'
  <2>1. CASE UNCHANGED vars
    BY <2>1 DEF vars, Inv, TypeOK, ProducerKnows, ConsumerKnows, MessagesHeld,
                RecordsInOrder, Held, Taken
  <2>2. QED
    BY <2>1, LoadStep, WriteStep, SetTailStep
<1>2. UNCHANGED <<pushed, record_list>>
  BY DEF LoadHead, LoadTail, WriteEntry, SetTail, vars
<1>3. contents = Between
  BY ContentsAre
<1>4. (contents = Between)'
  BY <1>1, ContentsAre, PTL
<1>5. contents' = contents
  BY <1>2, <1>3, <1>4 DEF Between
<1>6. popped' = popped /\ [p \in {"push"} |-> pushed]' = [p \in {"push"} |-> pushed]
  BY <1>2 DEF popped
<1>7. QED
  BY <1>5, <1>6 DEF Abstract!vars

\* SingleRingQueue implements the bounded FIFO of kCapacity messages, without a lock
\* and across any number of wraps of its indices: nothing is lost, doubled or
\* overtaken (RefinesBoundedQueue of the run, for every size).
THEOREM Refinement == ASSUME QuotaAssumption PROVE Spec => Abstract!Spec
<1>1. Init => Abstract!Init
  BY InitIsQueue
<1>2. Inv /\ [Next]_vars => [Abstract!Next]_(Abstract!vars)
  <2>1. SUFFICES ASSUME Inv, [Next]_vars
        PROVE  Abstract!Next \/ UNCHANGED Abstract!vars
    OBVIOUS
  <2>2. QED
    BY <2>1, SetHeadIsPut, ReadIsTake, QuietStep DEF Next, push, pop, Joined, Threads
<1>3. QED
  BY <1>1, <1>2, Invariance, PTL DEF Spec, Abstract!Spec

\* The consumer records every message once, in the order of the pushes and without a
\* gap, and ends with all of them (single_pop_task and its check in main.cpp).
THEOREM Records ==
  ASSUME QuotaAssumption
  PROVE  Spec => [](/\ \A n \in 1..Len(record_list) : record_list[n] = n
                    /\ pc["pop"] = "done" => Len(record_list) = MAX_MSG_COUNT)
<1>1. ASSUME Inv
      PROVE  /\ \A n \in 1..Len(record_list) : record_list[n] = n
             /\ pc["pop"] = "done" => Len(record_list) = MAX_MSG_COUNT
  BY <1>1 DEF Inv, RecordsInOrder
<1>2. QED
  BY <1>1, Invariance, PTL
===============================================================================
