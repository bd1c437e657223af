------------------------ MODULE LockFreeRingQueueProofs ------------------------
(***************************************************************************)
(* Proofs about LockFreeRingQueue for every number of threads, capacity,   *)
(* index width and quota.                                                  *)
(***************************************************************************)
EXTENDS LockFreeRingQueue, RingIndexProofs, FiniteSetTheorems, SequenceTheorems

USE DEF Threads

-------------------------------------------------------------------------------
(* Indices that do not wrap.                                                *)

\* Arithmetic of indices that stay below the wrap.
LEMMA IndexFacts ==
  /\ kCapacity \in Nat /\ kCapacity >= 2 /\ kMask \in Nat /\ kMask = kCapacity - 1
  /\ IndexModulus \in Nat
  /\ \A i \in Index : i \in Nat /\ i < IndexModulus
  /\ \A i \in Index : i + 1 < IndexModulus => Inc(i) = i + 1 /\ i + 1 \in Index
  /\ \A i, j \in Index : j <= i => Sub(i, j) = i - j
  /\ \A i, j \in Index : i < j => Sub(i, j) = IndexModulus - (j - i)
  BY CapacityAssumption, ModulusAssumption DEF kMask, Index, Inc, Sub

\* Different indices less than a lap of the slots apart have different slots.
LEMMA SlotsApart ==
  ASSUME NEW i \in Index, NEW j \in Index, i # j, i < j + kCapacity, j < i + kCapacity
  PROVE  Slot(i) # Slot(j)
<1>1. CASE j <= i
  <2>1. Sub(i, j) < kCapacity
    BY <1>1, IndexFacts
  <2>2. QED
    BY <2>1, SlotsDiffer
<1>2. CASE i < j
  <2>1. Sub(j, i) < kCapacity
    BY <1>2, IndexFacts
  <2>2. QED
    BY <2>1, SlotsDiffer
<1>3. QED
  BY <1>1, <1>2, IndexFacts

\* The first n numbers are n.
LEMMA Numbers == \A n \in Nat : IsFiniteSet(1..n) /\ Cardinality(1..n) = n
<1>1. SUFFICES ASSUME NEW n \in Nat  PROVE IsFiniteSet(1..n) /\ Cardinality(1..n) = n
  OBVIOUS
<1>2. IsFiniteSet(1..n) /\ Cardinality(1..n) = IF 1 > n THEN 0 ELSE n - 1 + 1
  BY FS_Interval
<1>3. QED
  BY <1>2

\* head counts messages, so a test never brings it within a ring's length of the wrap.
LEMMA HeadBound ==
  ASSUME TypeOK, ClaimsCounted
  PROVE  IsFiniteSet(Claimed) /\ head + kMask < IndexModulus
<1>1. IsFiniteSet(Producers)
  BY ThreadAssumption
<1>2. /\ IsFiniteSet(1..MAX_PUSH_MSG_COUNT)
      /\ Cardinality(1..MAX_PUSH_MSG_COUNT) = MAX_PUSH_MSG_COUNT
  BY QuotaAssumption, Numbers
<1>3. /\ IsFiniteSet(Messages)
      /\ Cardinality(Messages) = Cardinality(Producers) * MAX_PUSH_MSG_COUNT
  BY <1>1, <1>2, FS_Product DEF Messages
<1>4. Claimed \subseteq Messages
  BY DEF Claimed
<1>5. IsFiniteSet(Claimed) /\ Cardinality(Claimed) <= Cardinality(Messages)
  BY <1>3, <1>4, FS_Subset
<1>6. Cardinality(Claimed) \in Nat /\ Cardinality(Messages) \in Nat
  BY <1>3, <1>5, FS_CardinalityType
<1>7. Cardinality(Messages) + kMask < IndexModulus
  BY <1>3, LapAssumption
<1>8. QED
  BY <1>5, <1>6, <1>7, IndexFacts DEF ClaimsCounted

-------------------------------------------------------------------------------
(* Types.                                                                   *)

\* Every step keeps every variable in its type and every looping producer short of
\* its quota.
LEMMA TypeStep ==
  ASSUME TypeOK, QuotaLeft, [Next]_vars
  PROVE  TypeOK' /\ QuotaLeft'
<1> USE IndexType, ThreadAssumption, QuotaAssumption DEF Goto, harnessVars, testVars
<1>1. ASSUME NEW th \in Threads, LoadHead(th)  PROVE TypeOK' /\ QuotaLeft'
  BY <1>1 DEF LoadHead, TypeOK, QuotaLeft
<1>2. ASSUME NEW p \in Producers, PushLoadTail(p)  PROVE TypeOK' /\ QuotaLeft'
  <2>1. \A th \in Threads \ {p} : pc'[th] = pc[th]
    BY <1>2 DEF PushLoadTail, TypeOK
  <2>2. pc' \in [Threads -> {"load_head", "load_tail", "cas", "access_slot", "done"}]
    BY <1>2 DEF PushLoadTail, TypeOK
  <2>3. h' \in [Threads -> Index]
    BY <1>2 DEF PushLoadTail, TypeOK
  <2>4. QuotaLeft'
    BY <1>2, <2>1 DEF PushLoadTail, QuotaLeft
  <2>5. QED
    BY <1>2, <2>1, <2>2, <2>3, <2>4 DEF PushLoadTail, TypeOK
<1>3. ASSUME NEW p \in Producers, PushCAS(p)  PROVE TypeOK' /\ QuotaLeft'
  <2>1. h' \in [Threads -> Index] /\ head' \in Index /\ raced' \in BOOLEAN
    <3>1. h[p] \in Index /\ Inc(h[p]) \in Index
      BY DEF TypeOK
    <3>2. h' \in [Threads -> Index] /\ head' \in Index
      BY <1>3, <3>1 DEF PushCAS, TypeOK
    <3>3. raced' \in BOOLEAN
      <4>1. raced' = raced \/ raced' = (raced \/ Busy(h[p]))
        BY <1>3 DEF PushCAS, Claim
      <4>2. raced \in BOOLEAN
        BY DEF TypeOK
      <4>3. (raced \/ Busy(h[p])) \in BOOLEAN
        OBVIOUS
      <4>4. QED
        BY <4>1, <4>2, <4>3
    <3>4. QED
      BY <3>2, <3>3
  <2>2. \A th \in Threads \ {p} : pc'[th] = pc[th]
    BY <1>3 DEF PushCAS, TypeOK
  <2>3. pc' \in [Threads -> {"load_head", "load_tail", "cas", "access_slot", "done"}]
    BY <1>3 DEF PushCAS, TypeOK
  <2>4. QuotaLeft'
    BY <1>3, <2>2 DEF PushCAS, QuotaLeft
  <2>5. QED
    BY <1>3, <2>1, <2>2, <2>3, <2>4 DEF PushCAS, TypeOK
<1>4. ASSUME NEW p \in Producers, WriteSlot(p)  PROVE TypeOK' /\ QuotaLeft'
  <2>1. sent[p] \in 0..MAX_PUSH_MSG_COUNT /\ sent[p] < MAX_PUSH_MSG_COUNT
    BY <1>4 DEF WriteSlot, TypeOK, QuotaLeft
  <2>2. sent[p] + 1 \in 1..MAX_PUSH_MSG_COUNT /\ sent[p] + 1 \in 0..MAX_PUSH_MSG_COUNT
    BY <2>1
  <2>3. queue' \in [SlotIds -> Messages \cup {NULL}]
    BY <1>4, <2>2 DEF WriteSlot, TypeOK, Messages
  <2>4. sent' \in [Producers -> 0..MAX_PUSH_MSG_COUNT] /\ h' \in [Threads -> Index]
    BY <1>4, <2>2 DEF WriteSlot, TypeOK
  <2>5. \A th \in Threads \ {p} : pc'[th] = pc[th]
    BY <1>4 DEF WriteSlot, TypeOK
  <2>6. pc' \in [Threads -> {"load_head", "load_tail", "cas", "access_slot", "done"}]
    BY <1>4 DEF WriteSlot, TypeOK
  <2>7. QuotaLeft'
    BY <1>4, <2>2, <2>5 DEF WriteSlot, TypeOK, QuotaLeft
  <2>8. QED
    BY <1>4, <2>3, <2>4, <2>5, <2>6, <2>7 DEF WriteSlot, TypeOK, Messages
<1>5. ASSUME NEW c \in Consumers, PopLoadTail(c)  PROVE TypeOK' /\ QuotaLeft'
  <2>1. \A th \in Threads \ {c} : pc'[th] = pc[th]
    BY <1>5 DEF PopLoadTail, TypeOK
  <2>2. pc' \in [Threads -> {"load_head", "load_tail", "cas", "access_slot", "done"}]
    BY <1>5 DEF PopLoadTail, TypeOK
  <2>3. h' \in [Threads -> Index] /\ t' \in [Consumers -> Index]
    BY <1>5 DEF PopLoadTail, TypeOK
  <2>4. QED
    BY <1>5, <2>1, <2>2, <2>3 DEF PopLoadTail, TypeOK, QuotaLeft
<1>6. ASSUME NEW c \in Consumers, PopCAS(c)  PROVE TypeOK' /\ QuotaLeft'
  <2>1. t' \in [Consumers -> Index] /\ tail' \in Index /\ raced' \in BOOLEAN
    <3>1. t[c] \in Index /\ Inc(t[c]) \in Index
      BY DEF TypeOK
    <3>2. t' \in [Consumers -> Index] /\ tail' \in Index
      <4>1. CASE tail = t[c]
        <5>1. t' = t /\ tail' = Inc(t[c])
          BY <1>6, <4>1 DEF PopCAS
        <5>2. t \in [Consumers -> Index]
          BY DEF TypeOK
        <5>3. QED
          BY <3>1, <5>1, <5>2
      <4>2. CASE tail # t[c]
        <5>1. t' = [t EXCEPT ![c] = 0] /\ tail' = tail
          BY <1>6, <4>2 DEF PopCAS
        <5>2. t \in [Consumers -> Index] /\ tail \in Index /\ 0 \in Index
          BY IndexType DEF TypeOK
        <5>3. QED
          BY <5>1, <5>2
      <4>3. QED
        BY <4>1, <4>2
    <3>3. raced' \in BOOLEAN
      <4>1. raced' = raced \/ raced' = (raced \/ Busy(t[c]))
        BY <1>6 DEF PopCAS, Claim
      <4>2. raced \in BOOLEAN
        BY DEF TypeOK
      <4>3. (raced \/ Busy(t[c])) \in BOOLEAN
        OBVIOUS
      <4>4. QED
        BY <4>1, <4>2, <4>3
    <3>4. QED
      BY <3>2, <3>3
  <2>2. \A th \in Threads \ {c} : pc'[th] = pc[th]
    BY <1>6 DEF PopCAS, TypeOK
  <2>3. pc' \in [Threads -> {"load_head", "load_tail", "cas", "access_slot", "done"}]
    BY <1>6 DEF PopCAS, TypeOK
  <2>4. QED
    BY <1>6, <2>1, <2>2, <2>3 DEF PopCAS, TypeOK, QuotaLeft
<1>7. ASSUME NEW c \in Consumers, ReadSlot(c)  PROVE TypeOK' /\ QuotaLeft'
  <2>1. t' \in [Consumers -> Index]
    BY <1>7 DEF ReadSlot, TypeOK
  <2>2. popmsg_list' \in [Consumers -> Seq(Messages)]
    <3>1. queue[Slot(t[c])] \in Messages \cup {NULL}
      BY DEF TypeOK
    <3>2. queue[Slot(t[c])] # NULL => Append(popmsg_list[c], queue[Slot(t[c])]) \in Seq(Messages)
      BY <3>1, AppendProperties DEF TypeOK
    <3>3. QED
      BY <1>7, <3>2 DEF ReadSlot, TypeOK
  <2>3. \A th \in Threads \ {c} : pc'[th] = pc[th]
    BY <1>7 DEF ReadSlot, TypeOK
  <2>4. pc' \in [Threads -> {"load_head", "load_tail", "cas", "access_slot", "done"}]
    BY <1>7 DEF ReadSlot, TypeOK
  <2>5. QED
    BY <1>7, <2>1, <2>2, <2>3, <2>4 DEF ReadSlot, TypeOK, QuotaLeft
<1>8. ASSUME NEW o \in Observers, ObserveTail(o)  PROVE TypeOK' /\ QuotaLeft'
  BY <1>8 DEF ObserveTail, TypeOK, QuotaLeft
<1>9. CASE UNCHANGED vars
  BY <1>9 DEF vars, TypeOK, QuotaLeft, Messages
<1>10. QED
  BY <1>1, <1>2, <1>3, <1>4, <1>5, <1>6, <1>7, <1>8, <1>9 DEF Next, Push, Pop, sizes, Joined

-------------------------------------------------------------------------------
(* The inductive invariant.                                                 *)

\* The indices a thread compares are numbers.
LEMMA LocalFacts ==
  ASSUME TypeOK
  PROVE  /\ head \in Index /\ tail \in Index /\ head \in Nat /\ tail \in Nat
         /\ \A th \in Threads : h[th] \in Index /\ h[th] \in Nat
         /\ \A c \in Consumers : t[c] \in Index /\ t[c] \in Nat
  BY IndexFacts DEF TypeOK

\* A step that moves one thread within its search for an index disturbs nothing, when
\* what the thread then knows is sound.
LEMMA SearchStep ==
  ASSUME Inv, TypeOK', QuotaLeft', NEW th \in Threads,
         pc[th] \notin {"access_slot", "done"}, pc'[th] # "access_slot", Sound(th)',
         UNCHANGED <<index_locals, head, tail, queue, sent, popmsg_list, raced>>,
         \A a \in Threads \ {th} : pc'[a] = pc[a] /\ h'[a] = h[a],
         \A c \in Consumers \ {th} : t'[c] = t[c]
  PROVE  Inv'
<1>1. \A a \in Threads : /\ pc'[a] = "access_slot" <=> pc[a] = "access_slot"
                         /\ pc[a] = "access_slot" => h'[a] = h[a]
                         /\ pc[a] = "access_slot" /\ a \in Consumers => t'[a] = t[a]
                         /\ pc[a] = "done" => pc'[a] = "done"
  OBVIOUS
<1>2. LocalsSafe'
  BY <1>1 DEF Inv, LocalsSafe
<1>3. OccupancyBound'
  BY DEF Inv, OccupancyBound
<1>4. ClaimsCounted'
  <2>1. Claimed' = Claimed
    BY <1>1 DEF Claimed, Messages
  <2>2. QED
    BY <2>1 DEF Inv, ClaimsCounted
<1>5. LocalsSound'
  BY DEF Inv, LocalsSound, Sound
<1>6. ClaimsUnique'
  BY <1>1 DEF Inv, ClaimsUnique
<1>7. MessagesKept'
  <2>1. InUse' = InUse
    BY <1>1 DEF InUse, Window, Reading
  <2>2. Unwritten' = Unwritten
    BY <1>1 DEF Unwritten
  <2>3. Live' = Live
    BY <2>1, <2>2 DEF Live
  <2>4. QED
    BY <2>1, <2>2, <2>3 DEF Inv, MessagesKept, RecordedOnce, Pushed, Recorded, Messages
<1>8. QED
  BY <1>2, <1>3, <1>4, <1>5, <1>6, <1>7 DEF Inv

\* A producer's CAS succeeds only while a slot is free, and for one producer.
LEMMA PushCASStep ==
  ASSUME Inv, TypeOK', QuotaLeft', NEW p \in Producers, PushCAS(p), head = h[p]
  PROVE  Inv'
<1>1. /\ pc[p] = "cas" /\ pc'[p] = "access_slot" /\ head' = Inc(head)
      /\ raced' = (raced \/ Busy(head))
      /\ \A a \in Threads \ {p} : pc'[a] = pc[a]
      /\ UNCHANGED <<index_locals, tail, queue, sent, popmsg_list, h, t>>
  BY DEF PushCAS, Claim, Goto, Inv, TypeOK, testVars
<1>2. /\ head \in Index /\ tail \in Index /\ head \in Nat /\ tail \in Nat
      /\ \A th \in Threads : h[th] \in Index /\ h[th] \in Nat
      /\ \A c \in Consumers : t[c] \in Index /\ t[c] \in Nat
      /\ kCapacity \in Nat
  BY LocalFacts, IndexFacts DEF Inv
<1>3. head' = head + 1
  <2>1. head + 1 < IndexModulus
    BY <1>2, HeadBound, IndexFacts DEF Inv
  <2>2. QED
    BY <1>1, <1>2, <2>1, IndexFacts
<1>4. head < tail + kCapacity /\ tail <= head
  BY <1>1 DEF Inv, LocalsSound, Sound, OccupancyBound
<1>5. LocalsSafe'
  BY <1>1, ThreadAssumption DEF Inv, LocalsSafe
<1>6. OccupancyBound'
  BY <1>1, <1>2, <1>3, <1>4 DEF OccupancyBound
<1>7. ClaimsCounted'
  <2>1. sent[p] \in 0..MAX_PUSH_MSG_COUNT /\ sent[p] < MAX_PUSH_MSG_COUNT
    BY <1>1 DEF Inv, TypeOK, QuotaLeft
  <2>2. sent[p] + 1 \in 1..MAX_PUSH_MSG_COUNT
    BY <2>1, QuotaAssumption
  <2>3. <<p, sent[p] + 1>> \in Messages \ Claimed
    BY <1>1, <2>1, <2>2 DEF Messages, Claimed
  <2>4. Claimed' = Claimed \cup {<<p, sent[p] + 1>>}
    BY <1>1, <2>3 DEF Claimed, Messages, Inv, TypeOK
  <2>5. Cardinality(Claimed') = Cardinality(Claimed) + 1
    BY <2>3, <2>4, HeadBound, FS_AddElement DEF Inv
  <2>6. QED
    BY <1>3, <2>5 DEF Inv, ClaimsCounted
<1>8. LocalsSound'
  <2>1. ASSUME NEW th \in Threads \ {p}  PROVE Sound(th)'
    <3>1. Sound(th)
      BY DEF Inv, LocalsSound
    <3>2. h[th] <= head => h[th] <= head + 1
      BY <1>2
    <3>3. h[th] < head => h[th] < head + 1
      BY <1>2
    <3>4. th \in Consumers => (t[th] < head => t[th] < head + 1)
      BY <1>2
    <3>5. QED
      BY <1>1, <1>3, <3>1, <3>2, <3>3, <3>4 DEF Sound
  <2>2. Sound(p)'
    BY <1>1, <1>2, <1>3, ThreadAssumption DEF Sound
  <2>3. QED
    BY <2>1, <2>2 DEF LocalsSound
<1>9. ClaimsUnique'
  <2>1. \A q \in Producers : pc[q] = "access_slot" => h[q] # head
    BY <1>2 DEF Inv, LocalsSound, Sound
  <2>2. QED
    BY <1>1, <2>1, ThreadAssumption DEF Inv, ClaimsUnique
<1>10. MessagesKept'
  <2>1. SUFFICES ASSUME ~raced, ~Busy(head)  PROVE MessagesKept'
    BY <1>1 DEF MessagesKept
  <2>2. \A c \in Consumers : pc'[c] = pc[c]
    BY <1>1, ThreadAssumption
  <2>3. InUse' = InUse \cup {head}
    <3>1. ASSUME NEW i \in Index  PROVE i < head + 1 <=> i < head \/ i = head
      <4>1. i \in Nat /\ head \in Nat
        BY <1>2, IndexFacts
      <4>2. QED
        BY <4>1
    <3>2. Window' = Window \cup {head}
      BY <1>1, <1>2, <1>3, <1>4, <3>1 DEF Window
    <3>3. Reading' = Reading
      BY <1>1, <2>2 DEF Reading
    <3>4. QED
      BY <3>2, <3>3 DEF InUse
  <2>4. Unwritten' = Unwritten \cup {head}
    <3>1. /\ h' = h /\ h[p] = head /\ p \in Producers
          /\ \A q \in Producers : pc'[q] = "access_slot" <=> pc[q] = "access_slot" \/ q = p
      BY <1>1
    <3>2. QED
      BY <3>1 DEF Unwritten
  <2>5. head \notin InUse
    BY <1>2, <1>4 DEF InUse, Window, Reading, Inv, LocalsSound, Sound
  <2>6. Live' = Live
    BY <2>3, <2>4, <2>5 DEF Live
  <2>7. ASSUME NEW i \in InUse  PROVE Slot(i) # Slot(head)
    <3>1. CASE i \in Index /\ tail <= i /\ i < head
      BY <1>2, <1>4, <3>1, IndexFacts, SlotsApart
    <3>2. CASE \E c \in Consumers : pc[c] = "access_slot" /\ i = t[c]
      BY <2>1, <3>2, ThreadAssumption DEF Busy
    <3>3. QED
      BY <2>7, <3>1, <3>2 DEF InUse, Window, Reading
  <2>8. \A i, j \in InUse' : i # j => Slot(i) # Slot(j)
    BY <2>1, <2>3, <2>7 DEF Inv, MessagesKept
  <2>9. \A i \in Unwritten' : tail' <= i
    BY <1>1, <1>4, <2>1, <2>4 DEF Inv, MessagesKept
  <2>10. QED
    BY <1>1, <2>1, <2>6, <2>8, <2>9
       DEF Inv, MessagesKept, RecordedOnce, Pushed, Recorded, Messages
<1>11. QED
  BY <1>5, <1>6, <1>7, <1>8, <1>9, <1>10 DEF Inv

\* A consumer's CAS succeeds only while an index is between tail and head.
LEMMA PopCASStep ==
  ASSUME Inv, TypeOK', QuotaLeft', NEW c \in Consumers, PopCAS(c), tail = t[c]
  PROVE  Inv'
<1>1. /\ pc[c] = "cas" /\ pc'[c] = "access_slot" /\ tail' = Inc(tail)
      /\ raced' = (raced \/ Busy(tail))
      /\ \A a \in Threads \ {c} : pc'[a] = pc[a]
      /\ UNCHANGED <<index_locals, head, queue, sent, popmsg_list, h, t>>
  BY DEF PopCAS, Claim, Goto, Inv, TypeOK, testVars
<1>2. /\ head \in Index /\ tail \in Index /\ head \in Nat /\ tail \in Nat
      /\ \A th \in Threads : h[th] \in Index /\ h[th] \in Nat
      /\ \A d \in Consumers : t[d] \in Index /\ t[d] \in Nat
      /\ kCapacity \in Nat
  BY LocalFacts, IndexFacts DEF Inv
<1>3. tail < head
  BY <1>1 DEF Inv, LocalsSound, Sound
<1>4. tail' = tail + 1
  <2>1. tail + 1 < IndexModulus
    BY <1>2, <1>3, IndexFacts
  <2>2. QED
    BY <1>1, <1>2, <2>1, IndexFacts
<1>5. LocalsSafe'
  BY <1>1 DEF Inv, LocalsSafe
<1>6. OccupancyBound'
  BY <1>1, <1>2, <1>3, <1>4 DEF Inv, OccupancyBound
<1>7. ClaimsCounted'
  <2>1. \A p \in Producers : pc'[p] = pc[p]
    BY <1>1, ThreadAssumption
  <2>2. Claimed' = Claimed
    BY <1>1, <2>1 DEF Claimed, Messages
  <2>3. QED
    BY <1>1, <2>2 DEF Inv, ClaimsCounted
<1>8. LocalsSound'
  <2>1. ASSUME NEW th \in Threads \ {c}  PROVE Sound(th)'
    <3>1. th \in Consumers /\ index_locals = "sequence_type" => pc[th] = "done"
      BY <1>1, <2>1 DEF Inv, LocalsSafe
    <3>2. QED
      BY <1>1, <1>2, <1>4, <3>1 DEF Inv, LocalsSound, Sound
  <2>2. Sound(c)'
    BY <1>1, <1>2, <1>4, ThreadAssumption DEF Sound
  <2>3. QED
    BY <2>1, <2>2 DEF LocalsSound
<1>9. ClaimsUnique'
  <2>1. \A d \in Consumers : pc[d] = "access_slot" => t[d] # tail
    BY <1>2 DEF Inv, LocalsSound, Sound
  <2>2. QED
    BY <1>1, <2>1, ThreadAssumption DEF Inv, ClaimsUnique
<1>10. MessagesKept'
  <2>1. SUFFICES ASSUME ~raced, ~Busy(tail)  PROVE MessagesKept'
    BY <1>1 DEF MessagesKept
  <2>2. \A p \in Producers : pc'[p] = pc[p]
    BY <1>1, ThreadAssumption
  <2>3. InUse' = InUse
    <3>1. \A i \in Index : tail <= i <=> tail + 1 <= i \/ i = tail
      BY <1>2, IndexFacts
    <3>2. Window = Window' \cup {tail}
      BY <1>1, <1>2, <1>3, <1>4, <3>1 DEF Window
    <3>3. Reading' = Reading \cup {tail}
      BY <1>1 DEF Reading
    <3>4. QED
      BY <3>2, <3>3 DEF InUse
  <2>4. Unwritten' = Unwritten
    BY <1>1, <2>2 DEF Unwritten
  <2>5. Live' = Live
    BY <2>3, <2>4 DEF Live
  <2>6. \A i \in Unwritten : tail + 1 <= i
    <3>1. ASSUME NEW p \in Producers, pc[p] = "access_slot"  PROVE tail + 1 <= h[p]
      <4>1. h[p] # tail
        <5>1. Slot(h[p]) # Slot(tail)
          BY <2>1, <3>1 DEF Busy
        <5>2. QED
          BY <5>1
      <4>2. tail <= h[p]
        BY <2>1, <3>1 DEF Inv, MessagesKept, Unwritten
      <4>3. QED
        BY <1>2, <4>1, <4>2
    <3>2. QED
      BY <3>1 DEF Unwritten
  <2>7. QED
    BY <1>1, <1>4, <2>1, <2>3, <2>4, <2>5, <2>6
       DEF Inv, MessagesKept, RecordedOnce, Pushed, Recorded, Messages
<1>11. QED
  BY <1>5, <1>6, <1>7, <1>8, <1>9, <1>10 DEF Inv

\* A push that writes its slot changes one index, from unwritten to live.
LEMMA WriteSlotStep ==
  ASSUME Inv, TypeOK', QuotaLeft', NEW p \in Producers, WriteSlot(p)
  PROVE  Inv'
<1> DEFINE m == <<p, sent[p] + 1>>
           i == h[p]
<1>1. /\ pc[p] = "access_slot" /\ pc'[p] \in {"load_head", "done"}
      /\ sent'[p] = sent[p] + 1 /\ queue' = [queue EXCEPT ![Slot(i)] = m]
      /\ \A a \in Threads \ {p} : pc'[a] = pc[a] /\ h'[a] = h[a]
      /\ \A q \in Producers \ {p} : sent'[q] = sent[q]
      /\ UNCHANGED <<index_locals, head, tail, popmsg_list, raced, t>>
  BY DEF WriteSlot, Goto, Inv, TypeOK
<1>2. /\ head \in Index /\ tail \in Index /\ head \in Nat /\ tail \in Nat
      /\ \A th \in Threads : h[th] \in Index /\ h[th] \in Nat
      /\ \A c \in Consumers : t[c] \in Index /\ t[c] \in Nat
  BY LocalFacts DEF Inv
<1>3. sent[p] \in Nat /\ m \in Messages
  <2>1. sent[p] \in 0..MAX_PUSH_MSG_COUNT /\ sent[p] < MAX_PUSH_MSG_COUNT
    BY <1>1 DEF Inv, TypeOK, QuotaLeft
  <2>2. sent[p] + 1 \in 1..MAX_PUSH_MSG_COUNT
    BY <2>1, QuotaAssumption
  <2>3. QED
    BY <2>1, <2>2 DEF Messages
<1>4. LocalsSafe'
  BY <1>1, ThreadAssumption DEF Inv, LocalsSafe
<1>5. OccupancyBound'
  BY <1>1 DEF Inv, OccupancyBound
<1>6. ClaimsCounted'
  <2>1. ASSUME NEW q \in Producers
        PROVE  sent'[q] + (IF pc'[q] = "access_slot" THEN 1 ELSE 0)
                 = sent[q] + (IF pc[q] = "access_slot" THEN 1 ELSE 0)
    <3>1. sent[q] \in Nat
      BY DEF Inv, TypeOK
    <3>2. QED
      BY <1>1, <3>1
  <2>2. Claimed' = Claimed
    BY <2>1 DEF Claimed, Messages
  <2>3. QED
    BY <1>1, <2>2 DEF Inv, ClaimsCounted
<1>7. LocalsSound'
  <2>1. ASSUME NEW th \in Threads \ {p}  PROVE Sound(th)'
    BY <1>1 DEF Inv, LocalsSound, Sound
  <2>2. Sound(p)'
    BY <1>1, ThreadAssumption DEF Sound
  <2>3. QED
    BY <2>1, <2>2 DEF LocalsSound
<1>8. ClaimsUnique'
  BY <1>1 DEF Inv, ClaimsUnique
<1>9. MessagesKept'
  <2>1. SUFFICES ASSUME ~raced  PROVE MessagesKept'
    BY <1>1 DEF MessagesKept
  <2>2. \A c \in Consumers : pc'[c] = pc[c]
    BY <1>1, ThreadAssumption
  <2>3. InUse' = InUse
    BY <1>1, <2>2 DEF InUse, Window, Reading
  <2>4. i \in Unwritten /\ Unwritten' = Unwritten \ {i}
    <3>1. \A q \in Producers \ {p} : pc[q] = "access_slot" => h[q] # i
      BY <1>1 DEF Inv, ClaimsUnique
    <3>2. QED
      BY <1>1, <3>1 DEF Unwritten
  <2>5. i \in InUse
    BY <1>1, <1>2, <2>1, <2>4 DEF InUse, Window, Inv, LocalsSound, Sound, MessagesKept
  <2>6. Live' = Live \cup {i} /\ i \notin Live
    BY <2>3, <2>4, <2>5 DEF Live
  <2>7. InUse \subseteq Index /\ i \in Index
    BY <1>2 DEF InUse, Window, Reading
  <2>8. queue'[Slot(i)] = m
    BY <1>1, <2>7, IndexType DEF Inv, TypeOK
  <2>9. \A j \in Live : queue'[Slot(j)] = queue[Slot(j)]
    <3>1. \A j \in Live : Slot(j) # Slot(i) /\ Slot(j) \in SlotIds
      BY <2>1, <2>5, <2>6, <2>7, IndexType DEF Live, Inv, MessagesKept
    <3>2. QED
      BY <1>1, <3>1 DEF Inv, TypeOK
  <2>10. ASSUME NEW x \in Messages  PROVE Pushed(x)' <=> Pushed(x) \/ x = m
    <3>1. PICK q \in Producers, n \in 1..MAX_PUSH_MSG_COUNT : x = <<q, n>>
      BY <2>10 DEF Messages
    <3>2. n <= sent'[q] <=> n <= sent[q] \/ <<q, n>> = m
      <4>1. CASE q = p
        BY <1>1, <1>3, <4>1, QuotaAssumption
      <4>2. CASE q # p
        BY <1>1, <4>2
      <4>3. QED
        BY <4>1, <4>2
    <3>3. QED
      BY <3>1, <3>2 DEF Pushed, Messages
  <2>11. ~Pushed(m)
    BY <1>3 DEF Pushed
  <2>12. ASSUME NEW x  PROVE Recorded(x)' <=> Recorded(x)
    BY <1>1 DEF Recorded
  <2>13. ~Recorded(m)
    <3>1. ASSUME NEW x, Recorded(x)  PROVE Pushed(x)
      BY <2>1, <3>1 DEF Inv, MessagesKept, RecordedOnce, Recorded
    <3>2. QED
      BY <2>11, <3>1
  <2>14. RecordedOnce'
    <3>1. ASSUME NEW c \in Consumers, NEW k \in DOMAIN popmsg_list[c]
          PROVE  Pushed(popmsg_list[c][k]) /\ Pushed(popmsg_list[c][k])'
      <4>1. Pushed(popmsg_list[c][k])
        BY <2>1 DEF Inv, MessagesKept, RecordedOnce
      <4>2. PICK x \in Messages : x = popmsg_list[c][k]
        BY <4>1 DEF Pushed
      <4>3. Pushed(x)'
        BY <2>10, <4>1, <4>2
      <4>4. QED
        BY <1>1, <4>1, <4>2, <4>3
    <3>2. QED
      BY <1>1, <2>1, <3>1 DEF Inv, MessagesKept, RecordedOnce
  <2>15. \A j \in Live : Pushed(queue[Slot(j)]) /\ ~Recorded(queue[Slot(j)])
    BY <2>1 DEF Inv, MessagesKept
  <2>16. ASSUME NEW j \in Live'
         PROVE  (Pushed(queue[Slot(j)]) /\ ~Recorded(queue[Slot(j)]))'
    <3>1. CASE j = i
      <4>1. PICK x \in Messages : x = m
        BY <1>3
      <4>2. Pushed(x)' /\ ~Recorded(x)'
        BY <2>10, <2>12, <2>13, <4>1
      <4>3. QED
        BY <2>8, <3>1, <4>1, <4>2
    <3>2. CASE j \in Live
      <4>1. PICK x \in Messages : x = queue[Slot(j)] /\ Pushed(x) /\ ~Recorded(x)
        BY <2>15, <3>2 DEF Pushed
      <4>2. Pushed(x)' /\ ~Recorded(x)'
        BY <2>10, <2>12, <4>1
      <4>3. queue'[Slot(j)] = x
        BY <2>9, <3>2, <4>1
      <4>4. QED
        BY <4>2, <4>3
    <3>3. QED
      BY <2>6, <3>1, <3>2
  <2>17. \A j, k \in Live' : queue'[Slot(j)] = queue'[Slot(k)] => j = k
    <3>1. \A j \in Live : queue'[Slot(j)] # m
      BY <2>9, <2>11, <2>15
    <3>2. QED
      BY <2>1, <2>6, <2>8, <2>9, <3>1 DEF Inv, MessagesKept
  <2>18. \A x \in Messages : Pushed(x)' => Recorded(x)' \/ \E j \in Live' : queue'[Slot(j)] = x
    <3>1. ASSUME NEW x \in Messages, Pushed(x)'
          PROVE  Recorded(x)' \/ \E j \in Live' : queue'[Slot(j)] = x
      <4>1. CASE x = m
        BY <2>6, <2>8, <4>1
      <4>2. CASE Pushed(x)
        <5>1. Recorded(x) \/ \E j \in Live : queue[Slot(j)] = x
          BY <2>1, <4>2 DEF Inv, MessagesKept
        <5>2. QED
          BY <2>6, <2>9, <2>12, <5>1
      <4>3. QED
        BY <2>10, <3>1, <4>1, <4>2
    <3>2. QED
      BY <3>1
  <2>19. \A j \in Unwritten' : tail' <= j
    BY <1>1, <2>1, <2>4 DEF Inv, MessagesKept
  <2>20. \A j, k \in InUse' : j # k => Slot(j) # Slot(k)
    BY <2>1, <2>3 DEF Inv, MessagesKept
  <2>21. QED
    BY <2>14, <2>16, <2>17, <2>18, <2>19, <2>20 DEF MessagesKept, Messages
<1>10. QED
  BY <1>4, <1>5, <1>6, <1>7, <1>8, <1>9 DEF Inv

\* Append adds one place, with the new element.
LEMMA AppendPlaces ==
  ASSUME NEW S, NEW seq \in Seq(S), NEW elt \in S
  PROVE  /\ DOMAIN Append(seq, elt) = DOMAIN seq \cup {Len(seq) + 1}
         /\ Len(seq) + 1 \notin DOMAIN seq
         /\ \A i \in DOMAIN seq : Append(seq, elt)[i] = seq[i]
         /\ Append(seq, elt)[Len(seq) + 1] = elt
<1>1. Len(seq) \in Nat /\ DOMAIN seq = 1..Len(seq)
  BY LenProperties
<1>2. DOMAIN Append(seq, elt) = 1..(Len(seq) + 1)
  <2>1. /\ Append(seq, elt) \in Seq(S) /\ Len(Append(seq, elt)) = Len(seq) + 1
    BY AppendProperties
  <2>2. QED
    BY <2>1, LenProperties
<1>3. /\ \A i \in 1..Len(seq) : Append(seq, elt)[i] = seq[i]
      /\ Append(seq, elt)[Len(seq) + 1] = elt
  BY AppendProperties
<1>4. QED
  BY <1>1, <1>2, <1>3

\* A pop that reads its slot moves one message from a live index to its list, unless
\* a race has let it meet something else there.
LEMMA ReadSlotStep ==
  ASSUME Inv, TypeOK', QuotaLeft', NEW c \in Consumers, ReadSlot(c)
  PROVE  Inv'
<1> DEFINE item == queue[Slot(t[c])]
<1>1. /\ pc[c] = "access_slot" /\ pc'[c] \in {"load_head", "done"} /\ t'[c] = 0
      /\ popmsg_list' = IF item = NULL THEN popmsg_list
                        ELSE [popmsg_list EXCEPT ![c] = Append(popmsg_list[c], item)]
      /\ \A a \in Threads \ {c} : pc'[a] = pc[a]
      /\ \A d \in Consumers \ {c} : t'[d] = t[d]
      /\ UNCHANGED <<index_locals, head, tail, queue, sent, raced, h>>
  BY DEF ReadSlot, Goto, Inv, TypeOK
<1>2. /\ head \in Index /\ tail \in Index /\ head \in Nat /\ tail \in Nat
      /\ \A th \in Threads : h[th] \in Index /\ h[th] \in Nat
      /\ \A d \in Consumers : t[d] \in Index /\ t[d] \in Nat
  BY LocalFacts DEF Inv
<1>3. \A p \in Producers : pc'[p] = pc[p]
  BY <1>1, ThreadAssumption
<1>4. LocalsSafe'
  BY <1>1 DEF Inv, LocalsSafe
<1>5. OccupancyBound'
  BY <1>1 DEF Inv, OccupancyBound
<1>6. ClaimsCounted'
  <2>1. Claimed' = Claimed
    BY <1>1, <1>3 DEF Claimed, Messages
  <2>2. QED
    BY <1>1, <2>1 DEF Inv, ClaimsCounted
<1>7. LocalsSound'
  <2>1. ASSUME NEW th \in Threads \ {c}  PROVE Sound(th)'
    BY <1>1 DEF Inv, LocalsSound, Sound
  <2>2. Sound(c)'
    BY <1>1, ThreadAssumption DEF Sound
  <2>3. QED
    BY <2>1, <2>2 DEF LocalsSound
<1>8. ClaimsUnique'
  BY <1>1 DEF Inv, ClaimsUnique
<1>9. MessagesKept'
  <2>1. SUFFICES ASSUME ~raced  PROVE MessagesKept'
    BY <1>1 DEF MessagesKept
  <2>2. Unwritten' = Unwritten /\ Window' = Window
    BY <1>1, <1>3 DEF Unwritten, Window
  <2>3. t[c] \in Reading /\ Reading' = Reading \ {t[c]}
    <3>1. \A d \in Consumers \ {c} : pc[d] = "access_slot" => t[d] # t[c]
      BY <1>1 DEF Inv, ClaimsUnique
    <3>2. QED
      BY <1>1, <3>1 DEF Reading
  <2>4. t[c] < tail
    BY <1>1 DEF Inv, LocalsSound, Sound
  <2>5. t[c] \notin Window /\ t[c] \notin Unwritten
    BY <1>2, <2>1, <2>4 DEF Window, Inv, MessagesKept
  <2>6. InUse' = InUse \ {t[c]} /\ Live' = Live \ {t[c]} /\ t[c] \in Live
    BY <2>2, <2>3, <2>5 DEF InUse, Live
  <2>7. item \in Messages /\ Pushed(item) /\ ~Recorded(item)
    BY <2>1, <2>6 DEF Inv, MessagesKept, Pushed
  <2>8. popmsg_list' = [popmsg_list EXCEPT ![c] = Append(popmsg_list[c], item)]
    BY <1>1, <2>7, ThreadAssumption DEF Messages
  <2> DEFINE n == Len(popmsg_list[c]) + 1
  <2>9. /\ DOMAIN popmsg_list'[c] = DOMAIN popmsg_list[c] \cup {n}
        /\ n \notin DOMAIN popmsg_list[c] /\ popmsg_list'[c][n] = item
        /\ \A i \in DOMAIN popmsg_list[c] : popmsg_list'[c][i] = popmsg_list[c][i]
        /\ \A d \in Consumers \ {c} : popmsg_list'[d] = popmsg_list[d]
    <3>1. popmsg_list[c] \in Seq(Messages)
      BY DEF Inv, TypeOK
    <3>2. popmsg_list'[c] = Append(popmsg_list[c], item)
      BY <2>8 DEF Inv, TypeOK
    <3>3. \A d \in Consumers \ {c} : popmsg_list'[d] = popmsg_list[d]
      BY <2>8 DEF Inv, TypeOK
    <3>4. QED
      BY <2>7, <3>1, <3>2, <3>3, AppendPlaces
  <2> HIDE DEF n, item
  <2>10. ASSUME NEW x  PROVE Recorded(x)' <=> Recorded(x) \/ x = item
    BY <2>9 DEF Recorded
  <2>11. ASSUME NEW x  PROVE Pushed(x)' <=> Pushed(x)
    BY <1>1 DEF Pushed, Messages
  <2>12. RecordedOnce'
    <3>1. ASSUME NEW d \in Consumers, NEW i \in DOMAIN popmsg_list'[d]
          PROVE  \/ i \in DOMAIN popmsg_list[d] /\ popmsg_list'[d][i] = popmsg_list[d][i]
                 \/ d = c /\ i = n /\ popmsg_list'[d][i] = item
      BY <2>9
    <3>2. ASSUME NEW d \in Consumers, NEW i \in DOMAIN popmsg_list[d]
          PROVE  popmsg_list[d][i] # item
      BY <2>7 DEF Recorded
    <3>3. ASSUME NEW d \in Consumers, NEW e \in Consumers,
                 NEW i \in DOMAIN popmsg_list'[d], NEW j \in DOMAIN popmsg_list'[e],
                 popmsg_list'[d][i] = popmsg_list'[e][j]
          PROVE  d = e /\ i = j
      BY <2>1, <3>1, <3>2, <3>3 DEF Inv, MessagesKept, RecordedOnce
    <3>4. ASSUME NEW d \in Consumers, NEW i \in DOMAIN popmsg_list'[d]
          PROVE  Pushed(popmsg_list[d][i])'
      <4>1. PICK x : x = popmsg_list'[d][i]
        OBVIOUS
      <4>2. Pushed(x)
        BY <2>1, <2>7, <3>1, <4>1 DEF Inv, MessagesKept, RecordedOnce
      <4>3. Pushed(x)'
        BY <2>11, <4>2
      <4>4. QED
        BY <4>1, <4>3
    <3>5. QED
      BY <3>3, <3>4 DEF RecordedOnce
  <2>13. ASSUME NEW j \in Live'
         PROVE  (Pushed(queue[Slot(j)]) /\ ~Recorded(queue[Slot(j)]))'
    <3>1. PICK x : x = queue[Slot(j)]
      OBVIOUS
    <3>2. Pushed(x) /\ ~Recorded(x) /\ x # item
      BY <2>1, <2>6, <3>1 DEF Inv, MessagesKept, item
    <3>3. Pushed(x)' /\ ~Recorded(x)'
      BY <2>10, <2>11, <3>2
    <3>4. QED
      BY <1>1, <3>1, <3>3
  <2>14. ASSUME NEW x \in Messages, Pushed(x)'
         PROVE  Recorded(x)' \/ \E j \in Live' : queue'[Slot(j)] = x
    <3>1. Recorded(x) \/ \E j \in Live : queue[Slot(j)] = x
      BY <2>1, <2>11, <2>14 DEF Inv, MessagesKept
    <3>2. QED
      BY <1>1, <2>6, <2>10, <3>1 DEF item
  <2>15. \A i, j \in InUse' : i # j => Slot(i) # Slot(j)
    BY <2>1, <2>6 DEF Inv, MessagesKept
  <2>16. \A i \in Unwritten' : tail' <= i
    BY <1>1, <2>1, <2>2 DEF Inv, MessagesKept
  <2>17. \A i, j \in Live' : queue'[Slot(i)] = queue'[Slot(j)] => i = j
    BY <1>1, <2>1, <2>6 DEF Inv, MessagesKept
  <2>18. QED
    BY <2>12, <2>13, <2>14, <2>15, <2>16, <2>17 DEF MessagesKept, Messages
<1>10. QED
  BY <1>4, <1>5, <1>6, <1>7, <1>8, <1>9 DEF Inv

\* What a thread concludes from its two loads is sound.
LEMMA LoadSound ==
  ASSUME Inv, [Next]_vars, NEW th \in Threads,
         \/ LoadHead(th)
         \/ th \in Producers /\ PushLoadTail(th)
         \/ th \in Consumers /\ PopLoadTail(th)
         \/ th \in Observers /\ ObserveTail(th)
  PROVE  Inv'
<1>0. TypeOK' /\ QuotaLeft'
  BY TypeStep DEF Inv
<1> USE ThreadAssumption DEF Goto, harnessVars, testVars
<1>1. /\ UNCHANGED <<index_locals, head, tail, queue, sent, popmsg_list, raced>>
      /\ pc[th] \in {"load_head", "load_tail"}
      /\ pc'[th] \in {"load_head", "load_tail", "cas"}
      /\ \A a \in Threads \ {th} : pc'[a] = pc[a] /\ h'[a] = h[a]
      /\ \A c \in Consumers \ {th} : t'[c] = t[c]
  BY DEF LoadHead, PushLoadTail, PopLoadTail, ObserveTail, Inv, TypeOK
<1>2. /\ head \in Index /\ tail \in Index /\ head \in Nat /\ tail \in Nat
      /\ h[th] \in Index /\ h[th] \in Nat /\ tail <= head
      /\ IndexModulus \in Nat /\ kMask \in Nat /\ kCapacity \in Nat /\ kMask = kCapacity - 1
  BY LocalFacts, IndexFacts DEF Inv, OccupancyBound
<1>3. head + kMask < IndexModulus
  BY HeadBound DEF Inv
<1>4. h[th] < tail => Sub(h[th], tail) > kMask
  <2>1. h[th] < tail => Sub(h[th], tail) = IndexModulus - (tail - h[th])
    BY <1>2, IndexFacts
  <2>2. QED
    BY <1>2, <1>3, <2>1
<1>5. tail <= h[th] => Sub(h[th], tail) = h[th] - tail
  BY <1>2, IndexFacts
<1>6. Sound(th)'
  <2>1. CASE LoadHead(th)
    <3>1. pc'[th] = "load_tail" /\ h'[th] = head
      BY <2>1 DEF LoadHead, Inv, TypeOK
    <3>2. QED
      BY <1>1, <1>2, <3>1 DEF Sound
  <2>2. CASE th \in Producers /\ PushLoadTail(th)
    <3>1. /\ pc'[th] \in {"load_head", "cas"}
          /\ pc'[th] = "cas" => h'[th] = h[th] /\ ~QueueFull(h[th], tail)
      BY <2>2 DEF PushLoadTail, Inv, TypeOK
    <3>2. ~QueueFull(h[th], tail) => h[th] < tail + kCapacity
      <4>1. tail <= h[th] => Difference(h[th], tail) = h[th] - tail
        BY <1>5 DEF Difference
      <4>2. QED
        BY <1>2, <4>1 DEF QueueFull
    <3>3. QED
      BY <1>1, <2>2, <3>1, <3>2 DEF Sound
  <2>3. CASE th \in Consumers /\ PopLoadTail(th)
    <3>1. /\ pc[th] = "load_tail" /\ pc'[th] \in {"load_head", "cas"}
          /\ pc'[th] = "cas" => t'[th] = tail /\ ~QueueEmpty(h[th], tail)
      BY <2>3 DEF PopLoadTail, Inv, TypeOK
    <3>2. h[th] <= head
      BY <3>1 DEF Inv, LocalsSound, Sound
    <3>3. ~QueueEmpty(h[th], tail) => tail < head
      <4>1. CASE index_locals = "index_type"
        BY <1>2, <1>4, <3>2, <4>1 DEF QueueEmpty, Difference
      <4>2. CASE index_locals = "sequence_type"
        <5>1. tail <= h[th]
          BY <2>3, <3>1, <4>2 DEF Inv, LocalsSound, Sound
        <5>2. QED
          BY <1>2, <3>2, <5>1 DEF QueueEmpty
      <4>3. QED
        BY <4>1, <4>2 DEF Inv, TypeOK
    <3>4. QED
      BY <1>1, <2>3, <3>1, <3>3 DEF Sound
  <2>4. CASE th \in Observers /\ ObserveTail(th)
    <3>1. pc'[th] = "load_head"
      BY <2>4 DEF ObserveTail, Inv, TypeOK
    <3>2. QED
      BY <2>4, <3>1 DEF Sound
  <2>5. QED
    BY <2>1, <2>2, <2>3, <2>4
<1>7. QED
  BY <1>0, <1>1, <1>6, SearchStep

\* Every step of every thread keeps the invariant.
LEMMA InvStep ==
  ASSUME Inv, [Next]_vars
  PROVE  Inv'
<1>0. TypeOK' /\ QuotaLeft'
  BY TypeStep DEF Inv
<1>1. ASSUME NEW th \in Threads, LoadHead(th)  PROVE Inv'
  BY <1>1, LoadSound
<1>2. ASSUME NEW p \in Producers, Push(p)  PROVE Inv'
  <2>1. CASE PushLoadTail(p)
    BY <2>1, LoadSound
  <2>2. CASE PushCAS(p) /\ head = h[p]
    BY <1>0, <2>2, PushCASStep
  <2>3. CASE PushCAS(p) /\ head # h[p]
    <3>1. /\ UNCHANGED <<index_locals, head, tail, queue, sent, popmsg_list, raced, t>>
          /\ pc[p] = "cas" /\ pc'[p] = "load_head"
          /\ \A a \in Threads \ {p} : pc'[a] = pc[a] /\ h'[a] = h[a]
      BY <2>3 DEF PushCAS, Goto, testVars, Inv, TypeOK
    <3>2. Sound(p)'
      BY <3>1, ThreadAssumption DEF Sound
    <3>3. QED
      BY <1>0, <3>1, <3>2, SearchStep
  <2>4. CASE WriteSlot(p)
    BY <1>0, <2>4, WriteSlotStep
  <2>5. QED
    BY <1>1, <1>2, <2>1, <2>2, <2>3, <2>4 DEF Push
<1>3. ASSUME NEW c \in Consumers, Pop(c)  PROVE Inv'
  <2>1. CASE PopLoadTail(c)
    BY <2>1, LoadSound
  <2>2. CASE PopCAS(c) /\ tail = t[c]
    BY <1>0, <2>2, PopCASStep
  <2>3. CASE PopCAS(c) /\ tail # t[c]
    <3>1. /\ UNCHANGED <<index_locals, head, tail, queue, sent, popmsg_list, raced, h>>
          /\ pc[c] = "cas" /\ pc'[c] = "load_head"
          /\ \A a \in Threads \ {c} : pc'[a] = pc[a]
          /\ \A d \in Consumers \ {c} : t'[d] = t[d]
      BY <2>3 DEF PopCAS, Goto, testVars, Inv, TypeOK
    <3>2. Sound(c)'
      BY <3>1, ThreadAssumption DEF Sound
    <3>3. QED
      BY <1>0, <3>1, <3>2, SearchStep
  <2>4. CASE ReadSlot(c)
    BY <1>0, <2>4, ReadSlotStep
  <2>5. QED
    BY <1>1, <1>3, <2>1, <2>2, <2>3, <2>4 DEF Pop
<1>4. ASSUME NEW o \in Observers, sizes(o)  PROVE Inv'
  BY <1>1, <1>4, LoadSound DEF sizes
<1>5. CASE UNCHANGED vars
  <2>1. Claimed' = Claimed /\ InUse' = InUse /\ Unwritten' = Unwritten
    BY <1>5 DEF vars, Claimed, Messages, InUse, Window, Reading, Unwritten
  <2>2. Live' = Live
    BY <2>1 DEF Live
  <2>3. LocalsSafe' /\ OccupancyBound' /\ ClaimsCounted' /\ LocalsSound' /\ ClaimsUnique'
    BY <1>5, <2>1 DEF vars, Inv, LocalsSafe, OccupancyBound, ClaimsCounted, LocalsSound, Sound,
                     ClaimsUnique
  <2>4. MessagesKept'
    BY <1>5, <2>1, <2>2
       DEF vars, Inv, MessagesKept, RecordedOnce, Pushed, Recorded, Messages
  <2>5. QED
    BY <1>0, <2>3, <2>4 DEF Inv
<1>6. QED
  BY <1>1, <1>2, <1>3, <1>4, <1>5 DEF Next, Joined

\* The starts of a test that keep the indices in order: any threads at all on 32-bit
\* locals, at most one consumer on 64-bit ones.
Start(started) ==
  /\ InitWith(started)
  /\ index_locals = "sequence_type" => \A c, d \in started \cap Consumers : c = d

\* A start satisfies the inductive invariant.
LEMMA InitInv ==
  ASSUME NEW started, Start(started)
  PROVE  Inv
<1> USE IndexType, IndexFacts, ThreadAssumption, QuotaAssumption DEF Start, InitWith
<1>1. TypeOK
  <2>1. popmsg_list \in [Consumers -> Seq(Messages)]
    OBVIOUS
  <2>2. index_locals \in {"index_type", "sequence_type"} /\ head \in Index /\ tail \in Index
    OBVIOUS
  <2>3. queue \in [SlotIds -> Messages \cup {NULL}]
    OBVIOUS
  <2>4. /\ pc \in [Threads -> {"load_head", "load_tail", "cas", "access_slot", "done"}]
        /\ \A o \in Observers : pc[o] \in {"load_head", "load_tail", "done"}
    BY DEF Threads
  <2>5. h \in [Threads -> Index] /\ t \in [Consumers -> Index]
    OBVIOUS
  <2>6. sent \in [Producers -> 0..MAX_PUSH_MSG_COUNT] /\ raced \in BOOLEAN
    <3>1. 0 \in 0..MAX_PUSH_MSG_COUNT
      OBVIOUS
    <3>2. sent = [p \in Producers |-> 0] /\ raced = FALSE
      OBVIOUS
    <3>3. QED
      BY <3>1, <3>2, Zenon
  <2>7. QED
    BY <2>1, <2>2, <2>3, <2>4, <2>5, <2>6 DEF TypeOK
<1>2. QuotaLeft /\ LocalsSafe
  BY DEF QuotaLeft, LocalsSafe
<1>3. OccupancyBound
  BY DEF OccupancyBound
<1>4. ClaimsCounted
  <2>1. Claimed = {}
    BY DEF Claimed, Messages
  <2>2. QED
    BY <2>1, FS_EmptySet DEF ClaimsCounted
<1>5. LocalsSound /\ ClaimsUnique
  BY DEF LocalsSound, Sound, ClaimsUnique
<1>6. MessagesKept
  <2>1. Unwritten = {} /\ Reading = {}
    BY DEF Unwritten, Reading
  <2>2. Window = {}
    BY DEF Window
  <2>3. InUse = {} /\ Live = {}
    BY <2>1, <2>2 DEF InUse, Live
  <2>4. \A m \in Messages : ~Pushed(m)
    BY DEF Pushed, Messages
  <2>5. RecordedOnce
    BY DEF RecordedOnce
  <2>6. QED
    BY <2>1, <2>3, <2>4, <2>5 DEF MessagesKept
<1>7. QED
  BY <1>1, <1>2, <1>3, <1>4, <1>5, <1>6 DEF Inv

\* However late a thread acts on the indices it has read, the lock-free pairs hand
\* every index to one producer and one consumer and never count more messages than
\* slots (RingQueue.h:257-378), and lose nothing but by a race for a slot.
THEOREM Invariance ==
  ASSUME NEW started
  PROVE  Start(started) /\ [][Next]_vars => []Inv
<1>1. Start(started) => Inv
  BY InitInv
<1>2. Inv /\ [Next]_vars => Inv'
  BY InvStep
<1>3. QED
  BY <1>1, <1>2, PTL

\* Unless two threads meet at a slot, what the consumers recorded is what
\* pop_list_verify expects: every message of a drained queue, each once.
THEOREM Verified ==
  ASSUME NEW started
  PROVE  Start(started) /\ [][Next]_vars => []VerifiedUnlessRaced
<1>1. ASSUME Inv  PROVE VerifiedUnlessRaced
  <2>1. SUFFICES ASSUME ~raced
                 PROVE  /\ RecordedOnce
                        /\ (head = tail /\ \A th \in Threads : pc[th] # "access_slot")
                             => \A m \in Messages : Pushed(m) => Recorded(m)
    BY DEF VerifiedUnlessRaced
  <2>2. ASSUME head = tail, \A th \in Threads : pc[th] # "access_slot"  PROVE Live = {}
    <3>1. Reading = {}
      BY <2>2 DEF Reading
    <3>2. Window = {}
      BY <1>1, <2>2, LocalFacts, IndexFacts DEF Window, Inv
    <3>3. QED
      BY <3>1, <3>2 DEF Live, InUse
  <2>3. QED
    BY <1>1, <2>1, <2>2 DEF Inv, MessagesKept
<1>2. QED
  BY Invariance, <1>1, PTL

\* A thread goes back to the load of head from the load of tail only by its own test.
LEMMA Retry ==
  ASSUME Inv, [Next]_vars, NEW th \in Threads, pc[th] = "load_tail", pc'[th] = "load_head"
  PROVE  \/ th \in Producers /\ PushLoadTail(th)
         \/ th \in Consumers /\ PopLoadTail(th)
         \/ th \in Observers /\ ObserveTail(th)
<1> USE DEF Goto
<1>1. ASSUME NEW a \in Threads, LoadHead(a)  PROVE FALSE
  <2>1. pc[a] = "load_head" /\ pc' = [pc EXCEPT ![a] = "load_tail"]
    BY <1>1 DEF LoadHead
  <2>2. QED
    BY <2>1 DEF Inv, TypeOK
<1>2. ASSUME NEW p \in Producers, PushLoadTail(p) \/ PushCAS(p) \/ WriteSlot(p)
      PROVE  th = p /\ PushLoadTail(p)
  <2>1. PICK where : pc' = [pc EXCEPT ![p] = where]
    BY <1>2 DEF PushLoadTail, PushCAS, WriteSlot
  <2>2. th = p
    BY <2>1 DEF Inv, TypeOK
  <2>3. QED
    BY <1>2, <2>2 DEF PushCAS, WriteSlot
<1>3. ASSUME NEW c \in Consumers, PopLoadTail(c) \/ PopCAS(c) \/ ReadSlot(c)
      PROVE  th = c /\ PopLoadTail(c)
  <2>1. PICK where : pc' = [pc EXCEPT ![c] = where]
    BY <1>3 DEF PopLoadTail, PopCAS, ReadSlot
  <2>2. th = c
    BY <2>1 DEF Inv, TypeOK
  <2>3. QED
    BY <1>3, <2>2 DEF PopCAS, ReadSlot
<1>4. ASSUME NEW o \in Observers, ObserveTail(o)  PROVE th = o
  BY <1>4 DEF ObserveTail, Inv, TypeOK
<1>5. ~UNCHANGED vars
  BY DEF vars
<1>6. QED
  BY <1>1, <1>2, <1>3, <1>4, <1>5 DEF Next, Push, Pop, sizes, Joined

\* A push that answers -1, a pop that answers NULL and a size that sizes() gives or
\* declines to give (RingQueue.h:242-254, 268-269, 295-296) have their cause in the
\* queue as it is at that moment, or in another thread's having moved head.
THEOREM Answers ==
  ASSUME NEW started
  PROVE  Start(started) /\ [][Next]_vars => AnswersForCause
<1> DEFINE Answer(th) ==
      CASE th \in Producers -> Sub(head, tail) = kCapacity \/ head # h[th]
        [] th \in Consumers -> head = tail \/ head # h[th]
        [] th \in Observers ->
             /\ SizeOf(h[th], tail) <= Sub(head, tail)
             /\ SizeOf(h[th], tail) = -1 => Sub(head, tail) = kCapacity \/ head # h[th]
<1>1. ASSUME Inv, [Next]_vars, NEW th \in Threads,
             pc[th] = "load_tail", pc'[th] = "load_head"
      PROVE  Answer(th)
  <2>1. /\ head \in Index /\ tail \in Index /\ head \in Nat /\ tail \in Nat
        /\ h[th] \in Index /\ h[th] \in Nat /\ tail <= head /\ head - tail <= kCapacity
        /\ IndexModulus \in Nat /\ kMask \in Nat /\ kCapacity \in Nat /\ kMask = kCapacity - 1
    BY <1>1, LocalFacts, IndexFacts DEF Inv, OccupancyBound
  <2>2. h[th] <= head /\ head + kMask < IndexModulus
    BY <1>1, HeadBound DEF Inv, LocalsSound, Sound
  <2>3. Sub(head, tail) = head - tail
    BY <2>1, IndexFacts
  <2>4. CASE th \in Producers
    <3>1. PushLoadTail(th)
      BY <1>1, <2>4, Retry, ThreadAssumption
    <3>2. QueueFull(h[th], tail)
      BY <1>1, <3>1 DEF PushLoadTail, Goto, Inv, TypeOK
    <3>3. head = h[th] => head - tail > kMask
      BY <2>3, <3>2 DEF QueueFull, Difference
    <3>4. Sub(head, tail) = kCapacity \/ head # h[th]
      BY <2>1, <2>3, <3>3
    <3>5. th \notin Consumers /\ th \notin Observers
      BY <2>4, ThreadAssumption
    <3>6. QED
      BY <2>4, <3>4, <3>5
  <2>5. CASE th \in Consumers
    <3>1. PopLoadTail(th)
      BY <1>1, <2>5, Retry, ThreadAssumption
    <3>2. QueueEmpty(h[th], tail)
      BY <1>1, <3>1 DEF PopLoadTail, Goto, Inv, TypeOK
    <3>3. head = h[th] => head = tail
      BY <2>1, <3>2 DEF QueueEmpty
    <3>4. th \notin Producers /\ th \notin Observers
      BY <2>5, ThreadAssumption
    <3>5. QED
      BY <2>5, <3>3, <3>4
  <2>6. CASE th \in Observers
    <3>1. h[th] < tail => Sub(h[th], tail) > kMask
      <4>1. h[th] < tail => Sub(h[th], tail) = IndexModulus - (tail - h[th])
        BY <2>1, IndexFacts
      <4>2. QED
        BY <2>1, <2>2, <4>1
    <3>2. tail <= h[th] => Sub(h[th], tail) = h[th] - tail
      BY <2>1, IndexFacts
    <3>3. SizeOf(h[th], tail) <= Sub(head, tail)
      <4>1. CASE h[th] < tail
        <5>1. Sub(h[th], tail) \in Nat
          BY <2>1, IndexFacts, IndexType
        <5>2. SizeOf(h[th], tail) = -1
          BY <2>1, <3>1, <4>1, <5>1 DEF SizeOf
        <5>3. QED
          BY <2>1, <2>3, <5>2
      <4>2. CASE tail <= h[th]
        <5>1. SizeOf(h[th], tail) = h[th] - tail \/ SizeOf(h[th], tail) = -1
          BY <3>2, <4>2 DEF SizeOf
        <5>2. QED
          BY <2>1, <2>2, <2>3, <5>1
      <4>3. QED
        BY <2>1, <4>1, <4>2
    <3>4. SizeOf(h[th], tail) = -1 => Sub(head, tail) = kCapacity \/ head # h[th]
      BY <2>1, <2>2, <2>3, <3>1, <3>2 DEF SizeOf
    <3>5. th \notin Producers /\ th \notin Consumers
      BY <2>6, ThreadAssumption
    <3>6. QED
      BY <2>6, <3>3, <3>4, <3>5
  <2>7. QED
    BY <2>4, <2>5, <2>6
<1>2. Inv /\ [Next]_vars =>
        [\A th \in Threads : (pc[th] = "load_tail" /\ pc'[th] = "load_head") => Answer(th)]_vars
  BY <1>1
<1>3. QED
  BY <1>2, Invariance, PTL DEF AnswersForCause
===============================================================================
