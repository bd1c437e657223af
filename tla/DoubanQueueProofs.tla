--------------------------- MODULE DoubanQueueProofs ---------------------------
(***************************************************************************)
(* Proofs about DoubanQueue for every number of producers and consumers,   *)
(* capacity, index width, quota and place of the indices at the start,     *)
(* hence also across the wrap of the indices.                              *)
(***************************************************************************)
EXTENDS DoubanQueue, RingIndexProofs, FiniteSetTheorems, SequenceTheorems

USE DEF Threads

-------------------------------------------------------------------------------
(* Indices counted from the start.                                          *)

\* Passed numbers the indices from StartIndex on; up to the index range it turns
\* the wrapping arithmetic of the code into that of the integers.
LEMMA PassedFacts ==
  /\ \A i \in Index : Passed(i) \in Nat /\ Passed(i) < IndexModulus
  /\ \A i, j \in Index : Passed(i) = Passed(j) => i = j
  /\ \A i, j \in Index : Passed(j) <= Passed(i) => Sub(i, j) = Passed(i) - Passed(j)
  /\ \A i, j \in Index :
       Passed(i) < Passed(j) => Sub(i, j) = IndexModulus - (Passed(j) - Passed(i))
  /\ \A i \in Index : Passed(i) + 1 < IndexModulus => Passed(Inc(i)) = Passed(i) + 1
  /\ \A i \in Index, n \in Nat :
       Passed(i) + n < IndexModulus => /\ Offset(i, n) \in Index
                                       /\ Passed(Offset(i, n)) = Passed(i) + n
  /\ Passed(StartIndex) = 0
  BY QuotaAssumption, ModulusAssumption, CapacityAssumption DEF Passed, Sub, Inc, Offset, Index

\* Different indices less than a lap apart have different slots.
LEMMA SlotsApart ==
  ASSUME NEW i \in Index, NEW j \in Index, i # j,
         Passed(i) < Passed(j) + kCapacity, Passed(j) < Passed(i) + kCapacity
  PROVE  Slot(i) # Slot(j)
<1>1. Passed(i) \in Nat /\ Passed(j) \in Nat /\ kCapacity \in Nat
  BY PassedFacts, CapacityAssumption
<1>2. CASE Passed(j) <= Passed(i)
  <2>1. Sub(i, j) = Passed(i) - Passed(j)
    BY <1>2, PassedFacts
  <2>2. Sub(i, j) < kCapacity
    BY <1>1, <2>1
  <2>3. QED
    BY <2>2, SlotsDiffer
<1>3. CASE Passed(i) <= Passed(j)
  <2>1. Sub(j, i) = Passed(j) - Passed(i)
    BY <1>3, PassedFacts
  <2>2. Sub(j, i) < kCapacity
    BY <1>1, <2>1
  <2>3. QED
    BY <2>2, SlotsDiffer
<1>4. QED
  BY <1>1, <1>2, <1>3

\* The messages of a test are fewer than the indices.
LEMMA MessagesFinite ==
  /\ IsFiniteSet(Messages) /\ Cardinality(Messages) \in Nat
  /\ Cardinality(Messages) < IndexModulus
<1>1. IsFiniteSet(Producers) /\ IsFiniteSet(1..MAX_PUSH_MSG_COUNT)
  BY ThreadAssumption, QuotaAssumption, FS_Interval
<1>2. Cardinality(1..MAX_PUSH_MSG_COUNT) = MAX_PUSH_MSG_COUNT
  BY QuotaAssumption, FS_Interval
<1>3. /\ IsFiniteSet(Messages)
      /\ Cardinality(Messages) = Cardinality(Producers) * MAX_PUSH_MSG_COUNT
  BY <1>1, <1>2, FS_Product DEF Messages
<1>4. QED
  BY <1>3, FS_CardinalityType, LapAssumption

\* A producer that has not claimed an index has a message that no index has been
\* claimed for, so p.head has an index to go to before it is back at the start.
LEMMA ClaimLimit ==
  ASSUME TypeOK, QuotaLeft, ClaimsCounted, NEW p \in Producers, pc[p] # "done", ~Claims(p)
  PROVE  /\ <<p, sent[p] + 1>> \in Messages \ Claimed
         /\ IsFiniteSet(Claimed) /\ Passed(p_head) + 1 < IndexModulus
<1>1. sent[p] \in Nat /\ sent[p] < MAX_PUSH_MSG_COUNT
  BY DEF TypeOK, QuotaLeft
<1>2. sent[p] + 1 \in 1..MAX_PUSH_MSG_COUNT
  BY <1>1, QuotaAssumption
<1>3. <<p, sent[p] + 1>> \in Messages
  BY <1>2 DEF Messages
<1>4. <<p, sent[p] + 1>> \notin Claimed
  BY <1>1 DEF Claimed
<1>5. Claimed \subseteq Messages
  BY DEF Claimed
<1>6. /\ IsFiniteSet(Claimed) /\ Cardinality(Claimed) <= Cardinality(Messages)
      /\ Cardinality(Claimed) # Cardinality(Messages)
  BY <1>3, <1>4, <1>5, MessagesFinite, FS_Subset
<1>7. Cardinality(Claimed) \in Nat
  BY <1>6, FS_CardinalityType
<1>8. QED
  BY <1>3, <1>4, <1>6, <1>7, MessagesFinite, ModulusAssumption DEF ClaimsCounted

\* The first n numbers are n.
LEMMA Numbers == \A n \in Nat : IsFiniteSet(1..n) /\ Cardinality(1..n) = n
<1>1. SUFFICES ASSUME NEW n \in Nat  PROVE IsFiniteSet(1..n) /\ Cardinality(1..n) = n
  OBVIOUS
<1>2. IsFiniteSet(1..n) /\ Cardinality(1..n) = IF 1 > n THEN 0 ELSE n - 1 + 1
  BY FS_Interval
<1>3. QED
  BY <1>2

\* p.head has passed every message of a searching producer's own, and beyond
\* those at most what the other producers push.
LEMMA ClaimBounds ==
  ASSUME TypeOK, ClaimsCounted, NEW p \in Producers, ~Claims(p)
  PROVE  /\ sent[p] <= Passed(p_head)
         /\ Cardinality(Producers) - 1 \in Nat
         /\ Passed(p_head) <= sent[p] + (Cardinality(Producers) - 1) * MAX_PUSH_MSG_COUNT
<1> DEFINE own == {p} \X (1..sent[p])
           others == (Producers \ {p}) \X (1..MAX_PUSH_MSG_COUNT)
<1>1. sent[p] \in 0..MAX_PUSH_MSG_COUNT
  BY DEF TypeOK
<1>2. /\ IsFiniteSet({p}) /\ Cardinality({p}) = 1
      /\ IsFiniteSet(1..sent[p]) /\ Cardinality(1..sent[p]) = sent[p]
  <2>1. IsFiniteSet({p}) /\ Cardinality({p}) = 1
    BY FS_Singleton
  <2>2. sent[p] \in Nat
    BY <1>1
  <2>3. QED
    BY <2>1, <2>2, Numbers
<1>3. IsFiniteSet(own) /\ Cardinality(own) = sent[p]
  <2>1. IsFiniteSet(own) /\ Cardinality(own) = Cardinality({p}) * Cardinality(1..sent[p])
    BY <1>2, FS_Product
  <2>2. QED
    BY <1>1, <1>2, <2>1
<1>4. /\ IsFiniteSet(Producers \ {p})
      /\ Cardinality(Producers \ {p}) = Cardinality(Producers) - 1
      /\ Cardinality(Producers) - 1 \in Nat
  <2>1. IsFiniteSet(Producers)
    BY ThreadAssumption
  <2>2. /\ IsFiniteSet(Producers \ {p})
        /\ Cardinality(Producers \ {p}) = Cardinality(Producers) - 1
    BY <2>1, FS_RemoveElement
  <2>3. Cardinality(Producers \ {p}) \in Nat
    BY <2>2, FS_CardinalityType
  <2>4. QED
    BY <2>2, <2>3
<1>5. /\ IsFiniteSet(others)
      /\ Cardinality(others) = (Cardinality(Producers) - 1) * MAX_PUSH_MSG_COUNT
  <2>1. /\ IsFiniteSet(1..MAX_PUSH_MSG_COUNT)
        /\ Cardinality(1..MAX_PUSH_MSG_COUNT) = MAX_PUSH_MSG_COUNT
    BY QuotaAssumption, Numbers
  <2>2. /\ IsFiniteSet(others)
        /\ Cardinality(others)
             = Cardinality(Producers \ {p}) * Cardinality(1..MAX_PUSH_MSG_COUNT)
    BY <1>4, <2>1, FS_Product
  <2>3. QED
    BY <1>4, <2>1, <2>2
<1>6. own \subseteq Claimed
  <2>1. own \subseteq Messages
    BY <1>1, QuotaAssumption DEF Messages
  <2>2. \A m \in own : m[1] = p /\ m[2] <= sent[p]
    OBVIOUS
  <2>3. QED
    BY <1>1, <2>1, <2>2 DEF Claimed
<1>7. Claimed \subseteq own \cup others
  <2>1. ASSUME NEW m \in Messages, m \in Claimed  PROVE m \in own \cup others
    <3>1. PICK q \in Producers, n \in 1..MAX_PUSH_MSG_COUNT : m = <<q, n>>
      BY <2>1 DEF Messages
    <3>2. CASE q = p
      <4>1. n <= sent[p]
        BY <1>1, <2>1, <3>1, <3>2 DEF Claimed
      <4>2. n \in 1..sent[p]
        BY <1>1, <4>1, QuotaAssumption
      <4>3. QED
        BY <3>1, <3>2, <4>2
    <3>3. CASE q # p
      BY <3>1, <3>3
    <3>4. QED
      BY <3>2, <3>3
  <2>2. QED
    BY <2>1 DEF Claimed
<1>8. IsFiniteSet(own \cup others) /\ IsFiniteSet(Claimed)
  BY <1>3, <1>5, <1>7, FS_Union, FS_Subset
<1>9. Cardinality(own \cup others) <= Cardinality(own) + Cardinality(others)
  <2>1. own \cap others = {}
    OBVIOUS
  <2>2. Cardinality(own \cup others)
          = Cardinality(own) + Cardinality(others) - Cardinality(own \cap others)
    BY <1>3, <1>5, FS_Union
  <2>3. Cardinality(own \cap others) = 0
    BY <2>1, FS_EmptySet
  <2>4. Cardinality(own) \in Nat /\ Cardinality(others) \in Nat
    BY <1>3, <1>5, FS_CardinalityType
  <2> HIDE DEF own, others
  <2>5. QED
    BY <2>2, <2>3, <2>4
<1>10. Cardinality(own) <= Cardinality(Claimed)
  BY <1>6, <1>8, FS_Subset
<1>11. Cardinality(Claimed) <= Cardinality(own \cup others)
  BY <1>7, <1>8, FS_Subset
<1>12. /\ Cardinality(Claimed) \in Nat /\ Cardinality(own \cup others) \in Nat
       /\ Cardinality(others) \in Nat
  BY <1>5, <1>8, FS_CardinalityType
<1> HIDE DEF own, others
<1>13. QED
  BY <1>1, <1>3, <1>4, <1>5, <1>9, <1>10, <1>11, <1>12 DEF ClaimsCounted

-------------------------------------------------------------------------------
(* Types.                                                                   *)

\* Every step keeps every variable in its type and every looping producer short of
\* its quota.
LEMMA TypeStep ==
  ASSUME TypeOK, QuotaLeft, [Next]_vars
  PROVE  TypeOK' /\ QuotaLeft'
<1> USE IndexType, ThreadAssumption, QuotaAssumption
    DEF Goto, pushVars, popVars, harnessVars, PCs, ClaimPCs
<1>1. ASSUME NEW p \in Producers, Push(p)  PROVE TypeOK' /\ QuotaLeft'
  <2>1. CASE PushLoadHead(p)
    BY <2>1 DEF PushLoadHead, TypeOK, QuotaLeft
  <2>2. CASE PushLoadTail(p)
    BY <2>2 DEF PushLoadTail, TypeOK, QuotaLeft
  <2>3. CASE PushCAS(p)
    <3>1. p_head' \in Index
      BY <2>3 DEF PushCAS, TypeOK
    <3>2. pc' \in [Threads -> PCs]
      BY <2>3 DEF PushCAS, TypeOK
    <3>3. QuotaLeft'
      BY <2>3 DEF PushCAS, TypeOK, QuotaLeft
    <3>4. QED
      BY <2>3, <3>1, <3>2, <3>3 DEF PushCAS, TypeOK
  <2>4. CASE WriteSlot(p)
    <3>1. sent[p] + 1 \in 1..MAX_PUSH_MSG_COUNT
      <4>1. sent[p] \in 0..MAX_PUSH_MSG_COUNT /\ sent[p] < MAX_PUSH_MSG_COUNT
        BY <2>4 DEF WriteSlot, TypeOK, QuotaLeft
      <4>2. QED
        BY <4>1
    <3>2. <<p, sent[p] + 1>> \in Pointers
      BY <3>1 DEF Messages, Pointers
    <3>3. msgs' \in [SlotIds -> Pointers]
      BY <2>4, <3>2 DEF WriteSlot, TypeOK
    <3>4. QED
      BY <2>4, <3>3 DEF WriteSlot, TypeOK, QuotaLeft
  <2>5. CASE PushAwaitTurn(p)
    BY <2>5 DEF PushAwaitTurn, TypeOK, QuotaLeft
  <2>6. CASE PushPublish(p)
    <3>0. sent[p] + 1 \in 0..MAX_PUSH_MSG_COUNT
      <4>1. sent[p] \in 0..MAX_PUSH_MSG_COUNT /\ sent[p] < MAX_PUSH_MSG_COUNT
        BY <2>6 DEF PushPublish, TypeOK, QuotaLeft
      <4>2. QED
        BY <4>1
    <3>1. p_tail' \in Index /\ sent' \in [Producers -> 0..MAX_PUSH_MSG_COUNT]
      BY <2>6, <3>0 DEF PushPublish, TypeOK
    <3>2. pc' \in [Threads -> PCs]
      BY <2>6 DEF PushPublish, TypeOK
    <3>4. QuotaLeft'
      BY <2>6, <3>0 DEF PushPublish, TypeOK, QuotaLeft
    <3>3. QED
      BY <2>6, <3>1, <3>2, <3>4 DEF PushPublish, TypeOK
  <2>7. QED
    BY <1>1, <2>1, <2>2, <2>3, <2>4, <2>5, <2>6 DEF Push
<1>2. ASSUME NEW c \in Consumers, Pop(c)  PROVE TypeOK' /\ QuotaLeft'
  <2>1. CASE PopLoadHead(c)
    BY <2>1 DEF PopLoadHead, TypeOK, QuotaLeft
  <2>2. CASE PopLoadTail(c)
    BY <2>2 DEF PopLoadTail, TypeOK, QuotaLeft
  <2>3. CASE PopCAS(c)
    BY <2>3 DEF PopCAS, TypeOK, QuotaLeft
  <2>4. CASE ReadSlot(c)
    BY <2>4 DEF ReadSlot, TypeOK, QuotaLeft
  <2>5. CASE PopAwaitTurn(c)
    BY <2>5 DEF PopAwaitTurn, TypeOK, QuotaLeft
  <2>6. CASE PopPublish(c)
    <3>1. c_tail' \in Index /\ ret' \in [Consumers -> Pointers]
      BY <2>6 DEF PopPublish, TypeOK, Pointers
    <3>2. popmsg_list' \in [Consumers -> Seq(Pointers)]
      <4>1. Append(popmsg_list[c], ret[c]) \in Seq(Pointers)
        BY AppendProperties DEF TypeOK
      <4>2. QED
        BY <2>6, <4>1 DEF PopPublish, TypeOK
    <3>3. QuotaLeft' /\ pc' \in [Threads -> PCs]
      BY <2>6 DEF PopPublish, TypeOK, QuotaLeft
    <3>4. QED
      BY <2>6, <3>1, <3>2, <3>3 DEF PopPublish, TypeOK
  <2>7. QED
    BY <1>2, <2>1, <2>2, <2>3, <2>4, <2>5, <2>6 DEF Pop
<1>3. CASE UNCHANGED vars
  BY <1>3 DEF vars, TypeOK, QuotaLeft
<1>4. QED
  BY <1>1, <1>2, <1>3 DEF Next, Joined

-------------------------------------------------------------------------------
(* The inductive invariant.                                                 *)

\* The indices between c.tail and p.head, those in use, all have slots of their own.
LEMMA WindowApart ==
  ASSUME TypeOK, IndexOrder, NEW i \in Index, NEW j \in Index, i # j,
         Passed(c_tail) <= Passed(i), Passed(i) < Passed(p_head),
         Passed(c_tail) <= Passed(j), Passed(j) < Passed(p_head)
  PROVE  Slot(i) # Slot(j)
<1>1. /\ Passed(i) \in Nat /\ Passed(j) \in Nat
      /\ Passed(c_tail) \in Nat /\ Passed(p_head) \in Nat
  BY PassedFacts DEF TypeOK
<1>2. Passed(p_head) <= Passed(c_tail) + kCapacity
  BY <1>1, CapacityAssumption DEF IndexOrder, kMask
<1>3. Passed(i) < Passed(j) + kCapacity /\ Passed(j) < Passed(i) + kCapacity
  BY <1>1, <1>2, CapacityAssumption
<1>4. QED
  BY <1>3, SlotsApart

\* A step that moves one thread within its search for an index disturbs nothing, when
\* what the thread then knows is sound.
LEMMA SearchStep ==
  ASSUME Inv, TypeOK', QuotaLeft', NEW th \in Threads, ~Claims(th), ~Claims(th)',
         UNCHANGED <<p_head, p_tail, c_head, c_tail, msgs, ret, sent>>,
         \A a \in Threads \ {th} : pc'[a] = pc[a] /\ h'[a] = h[a],
         th \in Producers => PushSound(th)', th \in Consumers => PopSound(th)'
  PROVE  Inv'
<1>1. \A a \in Threads : Claims(a)' <=> Claims(a)
  BY DEF Claims
<1>2. Passed(p_head)' = Passed(p_head) /\ IndexOrder'
  BY DEF Inv, IndexOrder, Passed
<1>3. Claimed' = Claimed
  BY <1>1 DEF Claimed, Messages
<1>4. ClaimsCounted'
  BY <1>2, <1>3 DEF Inv, ClaimsCounted
<1>5. HeadsSound'
  BY <1>1 DEF Inv, HeadsSound, PushSound, PopSound, Passed
<1>6. ClaimsApart'
  BY <1>1 DEF Inv, ClaimsApart, SameSide
<1>7. SlotsFilled'
  BY DEF Inv, SlotsFilled, Passed, Claims, ClaimPCs
<1>8. QED
  BY <1>2, <1>4, <1>5, <1>6, <1>7 DEF Inv

\* What the invariant says about a thread that holds an index.
LEMMA ClaimFacts ==
  ASSUME Inv
  PROVE  /\ \A i \in {p_head, p_tail, c_head, c_tail} : i \in Index /\ Passed(i) \in Nat
         /\ \A a \in Threads : h[a] \in Index /\ Passed(h[a]) \in Nat
         /\ kMask \in Nat
  BY PassedFacts, CapacityAssumption DEF Inv, TypeOK, kMask

\* An index is claimed only while a slot is free, and by one CAS only.
LEMMA PushCASStep ==
  ASSUME Inv, TypeOK', QuotaLeft', NEW p \in Producers, PushCAS(p), p_head = h[p]
  PROVE  Inv'
<1>1. /\ pc[p] = "cas" /\ pc'[p] = "access_slot" /\ p_head' = Inc(p_head)
      /\ \A a \in Threads \ {p} : pc'[a] = pc[a]
      /\ UNCHANGED <<p_tail, c_head, c_tail, msgs, ret, sent, h>>
  BY DEF PushCAS, Goto, Inv, TypeOK, popVars, harnessVars
<1>2. /\ ~Claims(p) /\ Claims(p)'
      /\ \A a \in Threads \ {p} : Claims(a)' <=> Claims(a)
  BY <1>1 DEF Claims, ClaimPCs
<1>3. /\ <<p, sent[p] + 1>> \in Messages \ Claimed /\ IsFiniteSet(Claimed)
      /\ Passed(p_head) + 1 < IndexModulus
  BY <1>1, <1>2, ClaimLimit DEF Inv
<1>4. Passed(p_head)' = Passed(p_head) + 1
  BY <1>1, <1>3, PassedFacts DEF Inv, TypeOK, Passed
<1>5. Passed(p_head) < Passed(c_tail) + kMask
  BY <1>1 DEF Inv, HeadsSound, PushSound
<1>6. IndexOrder'
  BY <1>1, <1>4, <1>5, ClaimFacts DEF Inv, IndexOrder, Passed
<1>7. ClaimsCounted'
  <2>1. Claimed' = Claimed \cup {<<p, sent[p] + 1>>}
    BY <1>1, <1>2, <1>3 DEF Claimed, Messages, Inv, TypeOK
  <2>2. Cardinality(Claimed') = Cardinality(Claimed) + 1
    BY <1>3, <2>1, FS_AddElement
  <2>3. QED
    BY <1>4, <2>2 DEF Inv, ClaimsCounted
<1>8. HeadsSound'
  <2>1. ASSUME NEW q \in Producers  PROVE PushSound(q)'
    BY <1>1, <1>2, <1>4, ClaimFacts DEF Inv, HeadsSound, PushSound, Passed, IndexOrder
  <2>2. ASSUME NEW c \in Consumers  PROVE PopSound(c)'
    BY <1>1, <1>2, ThreadAssumption DEF Inv, HeadsSound, PopSound, Passed
  <2>3. QED
    BY <2>1, <2>2 DEF HeadsSound
<1>9. ClaimsApart'
  <2>1. \A q \in Producers : Claims(q) => h[q] # h[p]
    BY ClaimFacts DEF Inv, HeadsSound, PushSound
  <2>2. QED
    BY <1>1, <1>2, <2>1, ThreadAssumption DEF Inv, ClaimsApart, SameSide
<1>10. SlotsFilled'
  BY <1>1, ThreadAssumption DEF Inv, SlotsFilled, Passed
<1>11. QED
  BY <1>6, <1>7, <1>8, <1>9, <1>10 DEF Inv

\* A producer's write leaves every other slot in use alone.
LEMMA WriteSlotFrame ==
  ASSUME Inv, NEW p \in Producers, WriteSlot(p)
  PROVE  /\ Passed(p_tail) <= Passed(h[p]) /\ Passed(h[p]) < Passed(p_head)
         /\ \A i \in Index : (/\ i # h[p] /\ Passed(c_tail) <= Passed(i)
                             /\ Passed(i) < Passed(p_head))
                             => msgs'[Slot(i)] = msgs[Slot(i)]
<1>1. Passed(p_tail) <= Passed(h[p]) /\ Passed(h[p]) < Passed(p_head)
  BY DEF WriteSlot, Inv, HeadsSound, PushSound, Claims, ClaimPCs
<1>2. Passed(c_tail) <= Passed(h[p])
  BY <1>1, ClaimFacts DEF Inv, IndexOrder
<1>3. \A s \in SlotIds \ {Slot(h[p])} : msgs'[s] = msgs[s]
  BY DEF WriteSlot, Inv, TypeOK
<1>4. QED
  BY <1>1, <1>2, <1>3, WindowApart, ClaimFacts, IndexType DEF Inv

\* A producer writes a slot that no published message and no other thread is in.
LEMMA WriteSlotStep ==
  ASSUME Inv, TypeOK', QuotaLeft', NEW p \in Producers, WriteSlot(p)
  PROVE  Inv'
<1>1. /\ pc[p] = "access_slot" /\ pc'[p] = "await_turn"
      /\ \A a \in Threads \ {p} : pc'[a] = pc[a]
      /\ UNCHANGED <<p_head, p_tail, c_head, c_tail, ret, sent, h>>
  BY DEF WriteSlot, Goto, Inv, TypeOK, pushVars, popVars, harnessVars
<1>2. /\ msgs'[Slot(h[p])] = <<p, sent[p] + 1>>
      /\ \A s \in SlotIds \ {Slot(h[p])} : msgs'[s] = msgs[s]
  BY IndexType, ClaimFacts DEF WriteSlot, Inv, TypeOK
<1>3. \A a \in Threads : Claims(a)' <=> Claims(a)
  BY <1>1 DEF Claims, ClaimPCs
<1>4. Claims(p) /\ Passed(p_tail) <= Passed(h[p]) /\ Passed(h[p]) < Passed(p_head)
  BY <1>1 DEF Inv, HeadsSound, PushSound, Claims, ClaimPCs
<1>5. IndexOrder' /\ ClaimsCounted'
  <2>1. Claimed' = Claimed
    BY <1>1, <1>3 DEF Claimed, Messages
  <2>2. QED
    BY <1>1, <2>1 DEF Inv, IndexOrder, ClaimsCounted, Passed
<1>6. HeadsSound'
  BY <1>1, <1>3, ThreadAssumption DEF Inv, HeadsSound, PushSound, PopSound, Passed
<1>7. ClaimsApart'
  BY <1>1, <1>3 DEF Inv, ClaimsApart, SameSide
<1>8. \A i \in Index : (/\ i # h[p] /\ Passed(c_tail) <= Passed(i)
                       /\ Passed(i) < Passed(p_head))
                       => msgs'[Slot(i)] = msgs[Slot(i)]
  BY WriteSlotFrame
<1>9. SlotsFilled'
  <2>1. ASSUME NEW i \in Index, Passed(c_head) <= Passed(i), Passed(i) < Passed(p_tail)
        PROVE  msgs'[Slot(i)] \in Messages
    <3>1. Passed(i) \in Nat
      BY PassedFacts
    <3>2. i # h[p] /\ Passed(c_tail) <= Passed(i) /\ Passed(i) < Passed(p_head)
      BY <1>4, <2>1, <3>1, ClaimFacts DEF Inv, IndexOrder
    <3>3. QED
      BY <1>8, <2>1, <3>2 DEF Inv, SlotsFilled
  <2>2. ASSUME NEW q \in Producers, pc'[q] \in {"await_turn", "publish"}
        PROVE  msgs'[Slot(h[q])] = <<q, sent[q] + 1>>
    <3>1. CASE q = p
      BY <1>2, <3>1
    <3>2. CASE q # p
      <4>1. pc[q] \in {"await_turn", "publish"} /\ Claims(q)
        BY <1>1, <2>2, <3>2 DEF Claims, ClaimPCs
      <4>2. h[q] # h[p]
        BY <1>4, <3>2, <4>1 DEF Inv, ClaimsApart, SameSide
      <4>3. Passed(p_tail) <= Passed(h[q]) /\ Passed(h[q]) < Passed(p_head)
        BY <4>1 DEF Inv, HeadsSound, PushSound
      <4>4. Passed(c_tail) <= Passed(h[q])
        BY <4>3, ClaimFacts DEF Inv, IndexOrder
      <4>5. msgs'[Slot(h[q])] = msgs[Slot(h[q])]
        BY <1>8, <4>2, <4>3, <4>4, ClaimFacts
      <4>6. QED
        BY <4>1, <4>5 DEF Inv, SlotsFilled
    <3>3. QED
      BY <3>1, <3>2
  <2>3. ASSUME NEW c \in Consumers, pc'[c] = "access_slot"
        PROVE  msgs'[Slot(h[c])] \in Messages
    <3>1. pc[c] = "access_slot"
      BY <1>1, <2>3, ThreadAssumption
    <3>2. Passed(c_tail) <= Passed(h[c]) /\ Passed(h[c]) < Passed(c_head)
      BY <3>1 DEF Inv, HeadsSound, PopSound, Claims, ClaimPCs
    <3>3. h[c] # h[p] /\ Passed(h[c]) < Passed(p_head)
      BY <1>4, <3>2, ClaimFacts DEF Inv, IndexOrder
    <3>4. msgs'[Slot(h[c])] = msgs[Slot(h[c])]
      BY <1>8, <3>2, <3>3, ClaimFacts
    <3>5. QED
      BY <3>1, <3>4 DEF Inv, SlotsFilled
  <2>4. \A c \in Consumers : pc'[c] \in {"await_turn", "publish"} => ret'[c] \in Messages
    BY <1>1, ThreadAssumption DEF Inv, SlotsFilled
  <2>5. QED
    BY <1>1, <2>1, <2>2, <2>3, <2>4 DEF SlotsFilled, Passed, Messages
<1>10. QED
  BY <1>5, <1>6, <1>7, <1>9 DEF Inv

\* The wait for its turn leaves a thread, of either side, at its side's tail.
LEMMA AwaitStep ==
  ASSUME Inv, TypeOK', QuotaLeft', NEW th \in Threads,
         \/ th \in Producers /\ PushAwaitTurn(th)
         \/ th \in Consumers /\ PopAwaitTurn(th)
  PROVE  Inv'
<1>1. /\ pc[th] = "await_turn" /\ pc'[th] = "publish"
      /\ \A a \in Threads \ {th} : pc'[a] = pc[a]
      /\ UNCHANGED <<p_head, p_tail, c_head, c_tail, msgs, ret, sent, h>>
      /\ h[th] = IF th \in Producers THEN p_tail ELSE c_tail
  BY ThreadAssumption
     DEF PushAwaitTurn, PopAwaitTurn, Goto, Inv, TypeOK, pushVars, popVars, harnessVars
<1>2. \A a \in Threads : Claims(a)' <=> Claims(a)
  BY <1>1 DEF Claims, ClaimPCs
<1>3. IndexOrder' /\ ClaimsCounted'
  <2>1. Claimed' = Claimed
    BY <1>1, <1>2 DEF Claimed, Messages
  <2>2. QED
    BY <1>1, <2>1 DEF Inv, IndexOrder, ClaimsCounted, Passed
<1>4. HeadsSound'
  BY <1>1, <1>2, ThreadAssumption DEF Inv, HeadsSound, PushSound, PopSound, Passed
<1>5. ClaimsApart'
  BY <1>1, <1>2 DEF Inv, ClaimsApart, SameSide
<1>6. SlotsFilled'
  BY <1>1 DEF Inv, SlotsFilled, Passed, Messages
<1>7. QED
  BY <1>3, <1>4, <1>5, <1>6 DEF Inv

\* A producer whose turn it is hands over exactly the index it claimed.
LEMMA PushPublishStep ==
  ASSUME Inv, TypeOK', QuotaLeft', NEW p \in Producers, PushPublish(p)
  PROVE  Inv'
<1>1. /\ pc[p] = "publish" /\ pc'[p] \in {"load_head", "done"}
      /\ p_tail' = Inc(h[p]) /\ sent'[p] = sent[p] + 1
      /\ \A a \in Threads \ {p} : pc'[a] = pc[a]
      /\ \A q \in Producers \ {p} : sent'[q] = sent[q]
      /\ UNCHANGED <<p_head, c_head, c_tail, msgs, ret, h>>
  BY DEF PushPublish, Goto, Inv, TypeOK, popVars
<1>2. /\ Claims(p) /\ ~Claims(p)'
      /\ \A a \in Threads \ {p} : Claims(a)' <=> Claims(a)
  BY <1>1 DEF Claims, ClaimPCs
<1>3. h[p] = p_tail /\ Passed(p_tail) < Passed(p_head)
  BY <1>1, <1>2 DEF Inv, HeadsSound, PushSound
<1>4. Passed(p_tail)' = Passed(p_tail) + 1
  <2>1. Passed(p_tail) + 1 < IndexModulus
    BY <1>3, PassedFacts, ModulusAssumption DEF Inv, TypeOK
  <2>2. QED
    BY <1>1, <1>3, <2>1, PassedFacts DEF Inv, TypeOK, Passed
<1>5. \A q \in Producers \ {p} : Claims(q) => Passed(p_tail) + 1 <= Passed(h[q])
  <2>1. ASSUME NEW q \in Producers \ {p}, Claims(q)  PROVE Passed(h[q]) # Passed(p_tail)
    <3>1. h[q] # p_tail
      BY <1>2, <1>3, <2>1 DEF Inv, ClaimsApart, SameSide
    <3>2. QED
      BY <3>1, PassedFacts, ClaimFacts DEF Inv, TypeOK
  <2>2. QED
    BY <2>1, ClaimFacts DEF Inv, HeadsSound, PushSound
<1>6. IndexOrder'
  BY <1>1, <1>3, <1>4, ClaimFacts DEF Inv, IndexOrder, Passed
<1>7. ClaimsCounted'
  <2>1. ASSUME NEW q \in Producers
        PROVE  sent'[q] + (IF Claims(q)' THEN 1 ELSE 0) = sent[q] + (IF Claims(q) THEN 1 ELSE 0)
    <3>1. sent[q] \in Nat
      BY DEF Inv, TypeOK
    <3>2. QED
      BY <1>1, <1>2, <3>1
  <2>2. Claimed' = Claimed
    BY <2>1 DEF Claimed, Messages
  <2>3. QED
    BY <1>1, <2>2 DEF Inv, ClaimsCounted, Passed
<1>8. HeadsSound'
  <2>1. ASSUME NEW q \in Producers  PROVE PushSound(q)'
    <3>1. CASE q = p
      BY <1>1, <1>2, <3>1 DEF PushSound
    <3>2. CASE q # p
      <4>1. pc[q] # "publish"
        BY <1>2, <1>3, <3>2 DEF Inv, HeadsSound, PushSound, ClaimsApart, SameSide, Claims, ClaimPCs
      <4>2. QED
        BY <1>1, <1>2, <1>4, <1>5, <3>2, <4>1 DEF Inv, HeadsSound, PushSound, Passed
    <3>3. QED
      BY <3>1, <3>2
  <2>2. ASSUME NEW c \in Consumers  PROVE PopSound(c)'
    BY <1>1, <1>2, <1>4, ClaimFacts, ThreadAssumption DEF Inv, HeadsSound, PopSound, Passed
  <2>3. QED
    BY <2>1, <2>2 DEF HeadsSound
<1>9. ClaimsApart'
  BY <1>1, <1>2 DEF Inv, ClaimsApart, SameSide
<1>10. SlotsFilled'
  <2>1. ASSUME NEW i \in Index, Passed(c_head) <= Passed(i), Passed(i) < Passed(p_tail) + 1
        PROVE  msgs[Slot(i)] \in Messages
    <3>1. CASE i = h[p]
      <4>1. msgs[Slot(i)] = <<p, sent[p] + 1>>
        BY <1>1, <3>1 DEF Inv, SlotsFilled
      <4>2. sent[p] \in Nat /\ sent[p] + 1 \in 1..MAX_PUSH_MSG_COUNT
        <5>1. sent[p] \in 0..MAX_PUSH_MSG_COUNT /\ sent[p] < MAX_PUSH_MSG_COUNT
          BY <1>1 DEF Inv, TypeOK, QuotaLeft
        <5>2. QED
          BY <5>1, QuotaAssumption
      <4>3. QED
        BY <4>1, <4>2 DEF Messages
    <3>2. CASE i # h[p]
      <4>1. Passed(i) < Passed(p_tail)
        BY <1>3, <2>1, <3>2, PassedFacts, ClaimFacts DEF Inv, TypeOK
      <4>2. QED
        BY <2>1, <4>1 DEF Inv, SlotsFilled
    <3>3. QED
      BY <3>1, <3>2
  <2>2. \A q \in Producers : pc'[q] \in {"await_turn", "publish"}
                               => msgs[Slot(h[q])] = <<q, sent'[q] + 1>>
    BY <1>1 DEF Inv, SlotsFilled
  <2>3. \A c \in Consumers :
          /\ pc'[c] = "access_slot" => msgs[Slot(h[c])] \in Messages
          /\ pc'[c] \in {"await_turn", "publish"} => ret[c] \in Messages
    BY <1>1, ThreadAssumption DEF Inv, SlotsFilled
  <2>4. QED
    BY <1>1, <1>4, <2>1, <2>2, <2>3 DEF SlotsFilled, Passed, Messages
<1>11. QED
  BY <1>6, <1>7, <1>8, <1>9, <1>10 DEF Inv

\* A consumer claims the oldest published message.
LEMMA PopCASStep ==
  ASSUME Inv, TypeOK', QuotaLeft', NEW c \in Consumers, PopCAS(c), c_head = h[c]
  PROVE  Inv'
<1>1. /\ pc[c] = "cas" /\ pc'[c] = "access_slot" /\ c_head' = Inc(c_head)
      /\ \A a \in Threads \ {c} : pc'[a] = pc[a]
      /\ UNCHANGED <<p_head, p_tail, c_tail, msgs, ret, sent, h>>
  BY DEF PopCAS, Goto, Inv, TypeOK, pushVars, harnessVars
<1>2. /\ ~Claims(c) /\ Claims(c)'
      /\ \A a \in Threads \ {c} : Claims(a)' <=> Claims(a)
  BY <1>1 DEF Claims, ClaimPCs
<1>3. Passed(c_head) < Passed(p_tail)
  BY <1>1 DEF Inv, HeadsSound, PopSound
<1>4. Passed(c_head)' = Passed(c_head) + 1
  <2>1. Passed(c_head) + 1 < IndexModulus
    BY <1>3, PassedFacts, ModulusAssumption DEF Inv, TypeOK
  <2>2. QED
    BY <1>1, <2>1, PassedFacts DEF Inv, TypeOK, Passed
<1>5. IndexOrder'
  BY <1>1, <1>3, <1>4, ClaimFacts DEF Inv, IndexOrder, Passed
<1>6. ClaimsCounted'
  <2>1. \A p \in Producers : Claims(p)' <=> Claims(p)
    BY <1>2, ThreadAssumption
  <2>2. Claimed' = Claimed
    BY <1>1, <2>1 DEF Claimed, Messages
  <2>3. QED
    BY <1>1, <2>2 DEF Inv, ClaimsCounted, Passed
<1>7. HeadsSound'
  <2>1. ASSUME NEW p \in Producers  PROVE PushSound(p)'
    BY <1>1, <1>2, ThreadAssumption DEF Inv, HeadsSound, PushSound, Passed
  <2>2. ASSUME NEW d \in Consumers  PROVE PopSound(d)'
    BY <1>1, <1>2, <1>4, ClaimFacts DEF Inv, HeadsSound, PopSound, Passed, IndexOrder
  <2>3. QED
    BY <2>1, <2>2 DEF HeadsSound
<1>8. ClaimsApart'
  <2>1. \A d \in Consumers : Claims(d) => h[d] # h[c]
    BY ClaimFacts DEF Inv, HeadsSound, PopSound
  <2>2. QED
    BY <1>1, <1>2, <2>1, ThreadAssumption DEF Inv, ClaimsApart, SameSide
<1>9. SlotsFilled'
  <2>1. ASSUME NEW i \in Index, Passed(c_head) + 1 <= Passed(i), Passed(i) < Passed(p_tail)
        PROVE  msgs[Slot(i)] \in Messages
    <3>1. Passed(c_head) <= Passed(i)
      BY <2>1, PassedFacts, ClaimFacts
    <3>2. QED
      BY <2>1, <3>1 DEF Inv, SlotsFilled
  <2>2. \A p \in Producers : pc'[p] \in {"await_turn", "publish"}
                               => msgs[Slot(h[p])] = <<p, sent[p] + 1>>
    BY <1>1, ThreadAssumption DEF Inv, SlotsFilled
  <2>3. msgs[Slot(h[c])] \in Messages
    BY <1>3, ClaimFacts DEF Inv, SlotsFilled
  <2>4. \A d \in Consumers :
          /\ pc'[d] = "access_slot" => msgs[Slot(h[d])] \in Messages
          /\ pc'[d] \in {"await_turn", "publish"} => ret[d] \in Messages
    BY <1>1, <2>3 DEF Inv, SlotsFilled
  <2>5. QED
    BY <1>1, <1>4, <2>1, <2>2, <2>4 DEF SlotsFilled, Passed, Messages
<1>10. QED
  BY <1>5, <1>6, <1>7, <1>8, <1>9 DEF Inv

\* A consumer reads the message of the index it claimed.
LEMMA ReadSlotStep ==
  ASSUME Inv, TypeOK', QuotaLeft', NEW c \in Consumers, ReadSlot(c)
  PROVE  Inv'
<1>1. /\ pc[c] = "access_slot" /\ pc'[c] = "await_turn" /\ ret'[c] = msgs[Slot(h[c])]
      /\ \A a \in Threads \ {c} : pc'[a] = pc[a]
      /\ \A d \in Consumers \ {c} : ret'[d] = ret[d]
      /\ UNCHANGED <<p_head, p_tail, c_head, c_tail, msgs, sent, h>>
  BY DEF ReadSlot, Goto, Inv, TypeOK, pushVars, popVars, harnessVars
<1>2. \A a \in Threads : Claims(a)' <=> Claims(a)
  BY <1>1 DEF Claims, ClaimPCs
<1>3. IndexOrder' /\ ClaimsCounted'
  <2>1. Claimed' = Claimed
    BY <1>1, <1>2 DEF Claimed, Messages
  <2>2. QED
    BY <1>1, <2>1 DEF Inv, IndexOrder, ClaimsCounted, Passed
<1>4. HeadsSound'
  BY <1>1, <1>2, ThreadAssumption DEF Inv, HeadsSound, PushSound, PopSound, Passed
<1>5. ClaimsApart'
  BY <1>1, <1>2 DEF Inv, ClaimsApart, SameSide
<1>6. SlotsFilled'
  BY <1>1, ThreadAssumption DEF Inv, SlotsFilled, Passed, Messages
<1>7. QED
  BY <1>3, <1>4, <1>5, <1>6 DEF Inv

\* A consumer whose turn it is frees exactly the slot it claimed.
LEMMA PopPublishStep ==
  ASSUME Inv, TypeOK', QuotaLeft', NEW c \in Consumers, PopPublish(c)
  PROVE  Inv'
<1>1. /\ pc[c] = "publish" /\ pc'[c] \in {"load_head", "done"} /\ c_tail' = Inc(h[c])
      /\ \A a \in Threads \ {c} : pc'[a] = pc[a]
      /\ \A d \in Consumers \ {c} : ret'[d] = ret[d]
      /\ UNCHANGED <<p_head, p_tail, c_head, msgs, sent, h>>
  BY DEF PopPublish, Goto, Inv, TypeOK, pushVars
<1>2. /\ Claims(c) /\ ~Claims(c)'
      /\ \A a \in Threads \ {c} : Claims(a)' <=> Claims(a)
  BY <1>1 DEF Claims, ClaimPCs
<1>3. h[c] = c_tail /\ Passed(c_tail) < Passed(c_head)
  BY <1>1, <1>2 DEF Inv, HeadsSound, PopSound
<1>4. Passed(c_tail)' = Passed(c_tail) + 1
  <2>1. Passed(c_tail) + 1 < IndexModulus
    BY <1>3, PassedFacts, ModulusAssumption DEF Inv, TypeOK
  <2>2. QED
    BY <1>1, <1>3, <2>1, PassedFacts DEF Inv, TypeOK, Passed
<1>5. \A d \in Consumers \ {c} : Claims(d) => Passed(c_tail) + 1 <= Passed(h[d])
  <2>1. ASSUME NEW d \in Consumers \ {c}, Claims(d)  PROVE Passed(h[d]) # Passed(c_tail)
    <3>1. h[d] # c_tail
      BY <1>2, <1>3, <2>1 DEF Inv, ClaimsApart, SameSide
    <3>2. QED
      BY <3>1, PassedFacts, ClaimFacts DEF Inv, TypeOK
  <2>2. QED
    BY <2>1, ClaimFacts DEF Inv, HeadsSound, PopSound
<1>6. IndexOrder'
  BY <1>1, <1>3, <1>4, ClaimFacts DEF Inv, IndexOrder, Passed
<1>7. ClaimsCounted'
  <2>1. \A p \in Producers : Claims(p)' <=> Claims(p)
    BY <1>2, ThreadAssumption
  <2>2. Claimed' = Claimed
    BY <1>1, <2>1 DEF Claimed, Messages
  <2>3. QED
    BY <1>1, <2>2 DEF Inv, ClaimsCounted, Passed
<1>8. HeadsSound'
  <2>1. ASSUME NEW p \in Producers  PROVE PushSound(p)'
    BY <1>1, <1>2, <1>4, ClaimFacts, ThreadAssumption DEF Inv, HeadsSound, PushSound, Passed
  <2>2. ASSUME NEW d \in Consumers  PROVE PopSound(d)'
    <3>1. CASE d = c
      BY <1>1, <1>2, <3>1 DEF PopSound
    <3>2. CASE d # c
      <4>1. pc[d] # "publish"
        BY <1>2, <1>3, <3>2 DEF Inv, HeadsSound, PopSound, ClaimsApart, SameSide, Claims, ClaimPCs
      <4>2. QED
        BY <1>1, <1>2, <1>4, <1>5, <3>2, <4>1 DEF Inv, HeadsSound, PopSound, Passed
    <3>3. QED
      BY <3>1, <3>2
  <2>3. QED
    BY <2>1, <2>2 DEF HeadsSound
<1>9. ClaimsApart'
  BY <1>1, <1>2 DEF Inv, ClaimsApart, SameSide
<1>10. SlotsFilled'
  BY <1>1, ThreadAssumption DEF Inv, SlotsFilled, Passed, Messages
<1>11. QED
  BY <1>6, <1>7, <1>8, <1>9, <1>10 DEF Inv

\* Initially every index is the start, and nobody holds one.
LEMMA InitInv == Init => Inv
<1> SUFFICES ASSUME Init PROVE Inv
  OBVIOUS
<1> USE PassedFacts, IndexType, ThreadAssumption, QuotaAssumption, CapacityAssumption DEF Init
<1>1. TypeOK
  <2>1. msgs \in [SlotIds -> Pointers]
    BY DEF Pointers
  <2>2. popmsg_list \in [Consumers -> Seq(Pointers)]
    OBVIOUS
  <2>3. QED
    BY <2>1, <2>2 DEF TypeOK, PCs, Pointers
<1>2. QuotaLeft
  BY DEF QuotaLeft
<1>3. IndexOrder
  BY DEF IndexOrder, kMask
<1>4. ClaimsCounted
  <2>1. Claimed = {}
    BY DEF Claimed, Messages, Claims, ClaimPCs
  <2>2. QED
    BY <2>1, FS_EmptySet DEF ClaimsCounted
<1>5. HeadsSound
  BY DEF HeadsSound, PushSound, PopSound, Claims, ClaimPCs
<1>6. ClaimsApart
  BY DEF ClaimsApart, Claims, ClaimPCs
<1>7. SlotsFilled
  BY DEF SlotsFilled
<1>8. QED
  BY <1>1, <1>2, <1>3, <1>4, <1>5, <1>6, <1>7 DEF Inv

\* Every step of every thread keeps the invariant.
LEMMA InvStep ==
  ASSUME Inv, [Next]_vars
  PROVE  Inv'
<1>0. TypeOK' /\ QuotaLeft'
  BY TypeStep DEF Inv
<1> USE DEF Goto, pushVars, popVars, harnessVars
<1>1. ASSUME NEW p \in Producers, Push(p)  PROVE Inv'
  <2>1. CASE PushLoadHead(p)
    <3>1. /\ pc[p] = "load_head" /\ pc'[p] = "load_tail" /\ h'[p] = p_head
          /\ \A a \in Threads \ {p} : pc'[a] = pc[a] /\ h'[a] = h[a]
          /\ UNCHANGED <<p_head, p_tail, c_head, c_tail, msgs, ret, sent>>
      BY <2>1 DEF PushLoadHead, Inv, TypeOK
    <3>2. ~Claims(p) /\ ~Claims(p)'
      BY <3>1 DEF Claims, ClaimPCs
    <3>3. PushSound(p)'
      <4>1. sent[p] <= Passed(p_head)
        BY <3>2, ClaimBounds DEF Inv
      <4>2. QED
        BY <3>1, <3>2, <4>1, ClaimFacts DEF PushSound, Passed
    <3>4. QED
      BY <1>0, <3>1, <3>2, <3>3, SearchStep, ThreadAssumption
  <2>2. CASE PushLoadTail(p)
    <3>1. /\ pc[p] = "load_tail"
          /\ pc'[p] = IF QueueFull(h[p], c_tail) THEN "load_head" ELSE "cas"
          /\ \A a \in Threads \ {p} : pc'[a] = pc[a] /\ h'[a] = h[a]
          /\ UNCHANGED <<p_head, p_tail, c_head, c_tail, msgs, ret, sent, h>>
      BY <2>2 DEF PushLoadTail, Inv, TypeOK
    <3>2. ~Claims(p) /\ ~Claims(p)'
      BY <3>1 DEF Claims, ClaimPCs
    <3>3. sent[p] <= Passed(h[p]) /\ Passed(h[p]) <= Passed(p_head)
      BY <3>1 DEF Inv, HeadsSound, PushSound
    <3>4. ~QueueFull(h[p], c_tail) => Passed(h[p]) < Passed(c_tail) + kMask
      <4>1. Passed(h[p]) = Passed(c_tail) + kMask => QueueFull(h[p], c_tail)
        <5>1. SUFFICES ASSUME Passed(h[p]) = Passed(c_tail) + kMask
                       PROVE  QueueFull(h[p], c_tail)
          OBVIOUS
        <5>2. Passed(c_tail) <= Passed(h[p]) /\ Passed(h[p]) - Passed(c_tail) = kMask
          BY <5>1, ClaimFacts
        <5>3. QED
          BY <5>2, PassedFacts, ClaimFacts DEF QueueFull
      <4>2. QED
        BY <3>3, <4>1, ClaimFacts DEF Inv, IndexOrder
    <3>5. PushSound(p)'
      BY <3>1, <3>2, <3>3, <3>4 DEF PushSound, Passed
    <3>6. QED
      BY <1>0, <3>1, <3>2, <3>5, SearchStep, ThreadAssumption
  <2>3. CASE PushCAS(p)
    <3>1. CASE p_head = h[p]
      BY <1>0, <2>3, <3>1, PushCASStep
    <3>2. CASE p_head # h[p]
      <4>1. /\ pc[p] = "cas" /\ pc'[p] = "load_head"
            /\ \A a \in Threads \ {p} : pc'[a] = pc[a] /\ h'[a] = h[a]
            /\ UNCHANGED <<p_head, p_tail, c_head, c_tail, msgs, ret, sent>>
        BY <2>3, <3>2 DEF PushCAS, Inv, TypeOK
      <4>2. ~Claims(p) /\ ~Claims(p)' /\ PushSound(p)'
        BY <4>1 DEF Claims, ClaimPCs, PushSound
      <4>3. QED
        BY <1>0, <4>1, <4>2, SearchStep, ThreadAssumption
    <3>3. QED
      BY <3>1, <3>2
  <2>4. CASE WriteSlot(p)
    BY <1>0, <2>4, WriteSlotStep
  <2>5. CASE PushAwaitTurn(p)
    BY <1>0, <2>5, AwaitStep
  <2>6. CASE PushPublish(p)
    BY <1>0, <2>6, PushPublishStep
  <2>7. QED
    BY <1>1, <2>1, <2>2, <2>3, <2>4, <2>5, <2>6 DEF Push
<1>2. ASSUME NEW c \in Consumers, Pop(c)  PROVE Inv'
  <2>1. CASE PopLoadHead(c)
    <3>1. /\ pc[c] = "load_head" /\ pc'[c] = "load_tail" /\ h'[c] = c_head
          /\ \A a \in Threads \ {c} : pc'[a] = pc[a] /\ h'[a] = h[a]
          /\ UNCHANGED <<p_head, p_tail, c_head, c_tail, msgs, ret, sent>>
      BY <2>1 DEF PopLoadHead, Inv, TypeOK
    <3>2. ~Claims(c) /\ ~Claims(c)'
      BY <3>1 DEF Claims, ClaimPCs
    <3>3. PopSound(c)'
      BY <3>1, <3>2, ClaimFacts DEF PopSound, Passed
    <3>4. QED
      BY <1>0, <3>1, <3>2, <3>3, SearchStep, ThreadAssumption
  <2>2. CASE PopLoadTail(c)
    <3>1. /\ pc[c] = "load_tail"
          /\ pc'[c] = IF QueueEmpty(h[c], p_tail) THEN "load_head" ELSE "cas"
          /\ \A a \in Threads \ {c} : pc'[a] = pc[a] /\ h'[a] = h[a]
          /\ UNCHANGED <<p_head, p_tail, c_head, c_tail, msgs, ret, sent, h>>
      BY <2>2 DEF PopLoadTail, Inv, TypeOK
    <3>2. ~Claims(c) /\ ~Claims(c)'
      BY <3>1 DEF Claims, ClaimPCs
    <3>3. Passed(h[c]) <= Passed(c_head)
      BY <3>1 DEF Inv, HeadsSound, PopSound
    <3>4. ~QueueEmpty(h[c], p_tail) => Passed(h[c]) < Passed(p_tail)
      <4>1. Passed(h[c]) = Passed(p_tail) => QueueEmpty(h[c], p_tail)
        BY PassedFacts DEF Inv, TypeOK, QueueEmpty
      <4>2. QED
        BY <3>3, <4>1, ClaimFacts DEF Inv, IndexOrder
    <3>5. PopSound(c)'
      BY <3>1, <3>2, <3>3, <3>4 DEF PopSound, Passed
    <3>6. QED
      BY <1>0, <3>1, <3>2, <3>5, SearchStep, ThreadAssumption
  <2>3. CASE PopCAS(c)
    <3>1. CASE c_head = h[c]
      BY <1>0, <2>3, <3>1, PopCASStep
    <3>2. CASE c_head # h[c]
      <4>1. /\ pc[c] = "cas" /\ pc'[c] = "load_head"
            /\ \A a \in Threads \ {c} : pc'[a] = pc[a] /\ h'[a] = h[a]
            /\ UNCHANGED <<p_head, p_tail, c_head, c_tail, msgs, ret, sent>>
        BY <2>3, <3>2 DEF PopCAS, Inv, TypeOK
      <4>2. ~Claims(c) /\ ~Claims(c)' /\ PopSound(c)'
        BY <4>1 DEF Claims, ClaimPCs, PopSound
      <4>3. QED
        BY <1>0, <4>1, <4>2, SearchStep, ThreadAssumption
    <3>3. QED
      BY <3>1, <3>2
  <2>4. CASE ReadSlot(c)
    BY <1>0, <2>4, ReadSlotStep
  <2>5. CASE PopAwaitTurn(c)
    BY <1>0, <2>5, AwaitStep
  <2>6. CASE PopPublish(c)
    BY <1>0, <2>6, PopPublishStep
  <2>7. QED
    BY <1>2, <2>1, <2>2, <2>3, <2>4, <2>5, <2>6 DEF Pop
<1>3. CASE UNCHANGED vars
  <2>1. Claimed' = Claimed
    BY <1>3 DEF vars, Claimed, Messages, Claims
  <2>2. IndexOrder' /\ ClaimsCounted' /\ HeadsSound'
    BY <1>3, <2>1 DEF vars, Inv, IndexOrder, ClaimsCounted, HeadsSound, PushSound, PopSound,
                     Passed, Claims
  <2>3. ClaimsApart' /\ SlotsFilled'
    BY <1>3 DEF vars, Inv, ClaimsApart, SameSide, SlotsFilled, Passed, Messages, Claims
  <2>4. QED
    BY <1>0, <2>2, <2>3 DEF Inv
<1>4. QED
  BY <1>1, <1>2, <1>3 DEF Next, Joined

\* q3.h's index words keep their order, every claim is counted once, and what a thread
\* has concluded from them stays true (q3.h:59-128).
THEOREM Invariance == Spec => []Inv
<1>1. Inv /\ [Next]_vars => Inv'
  BY InvStep
<1>2. QED
  BY InitInv, <1>1, PTL DEF Spec

\* Two threads are never in the same slot, whatever the interleaving (q3.h:76, 112).
THEOREM SlotRace == Spec => []NoSlotRace
<1>1. ASSUME Inv  PROVE NoSlotRace
  <2>1. SUFFICES ASSUME NEW a \in Threads, NEW b \in Threads, a # b,
                        pc[a] = "access_slot", pc[b] = "access_slot"
                 PROVE  Slot(h[a]) # Slot(h[b])
    BY DEF NoSlotRace
  <2>2. ASSUME NEW th \in {a, b}
        PROVE  Passed(c_tail) <= Passed(h[th]) /\ Passed(h[th]) < Passed(p_head)
    <3>1. Claims(th)
      BY <2>1 DEF Claims, ClaimPCs
    <3>2. CASE th \in Producers
      <4>1. Passed(p_tail) <= Passed(h[th]) /\ Passed(h[th]) < Passed(p_head)
        BY <1>1, <3>1, <3>2 DEF Inv, HeadsSound, PushSound
      <4>2. QED
        BY <1>1, <2>1, <4>1, ClaimFacts DEF Inv, IndexOrder
    <3>3. CASE th \in Consumers
      <4>1. Passed(c_tail) <= Passed(h[th]) /\ Passed(h[th]) < Passed(c_head)
        BY <1>1, <3>1, <3>3 DEF Inv, HeadsSound, PopSound
      <4>2. QED
        BY <1>1, <2>1, <4>1, ClaimFacts DEF Inv, IndexOrder
    <3>4. QED
      BY <2>1, <3>2, <3>3
  <2>3. h[a] # h[b]
    <3>1. Claims(a) /\ Claims(b)
      BY <2>1 DEF Claims, ClaimPCs
    <3>2. CASE SameSide(a, b)
      BY <1>1, <2>1, <3>1, <3>2 DEF Inv, ClaimsApart
    <3>3. ASSUME NEW p \in Producers, NEW c \in Consumers, Claims(p), Claims(c)
          PROVE  h[p] # h[c]
      <4>1. Passed(p_tail) <= Passed(h[p]) /\ Passed(h[c]) < Passed(c_head)
        BY <1>1, <3>3 DEF Inv, HeadsSound, PushSound, PopSound
      <4>2. Passed(h[c]) < Passed(h[p])
        BY <1>1, <4>1, ClaimFacts DEF Inv, IndexOrder
      <4>3. QED
        BY <1>1, <4>2, ClaimFacts
    <3>4. QED
      BY <2>1, <3>1, <3>2, <3>3 DEF SameSide
  <2>4. QED
    BY <1>1, <2>1, <2>2, <2>3, WindowApart, ClaimFacts DEF Inv
<1>2. QED
  BY Invariance, <1>1, PTL

-------------------------------------------------------------------------------
(* q3.h implements the bounded queue: a push is Put when it publishes, a    *)
(* pop is Take when its CAS succeeds, every other step stutters.            *)

\* A function from the first n numbers is a sequence of length n.
LEMMA FunctionIsSeq ==
  ASSUME NEW n \in Nat, NEW f \in [1..n -> Messages]
  PROVE  f \in Seq(Messages) /\ Len(f) = n
<1>1. f \in Seq(Messages)
  BY SeqDef
<1>2. Len(f) \in Nat /\ 1..Len(f) = 1..n
  BY <1>1, LenProperties
<1>3. QED
  BY <1>1, <1>2

\* The published, unclaimed messages, in the order of their indices.
LEMMA ContentsType ==
  ASSUME Inv
  PROVE  /\ Sub(p_tail, c_head) = Passed(p_tail) - Passed(c_head)
         /\ Sub(p_tail, c_head) \in Nat
         /\ \A n \in Nat : Passed(c_head) + n < IndexModulus
              => Offset(c_head, n) \in Index /\ Passed(Offset(c_head, n)) = Passed(c_head) + n
         /\ \A i \in 1..Sub(p_tail, c_head) :
              /\ Passed(c_head) + (i - 1) < IndexModulus
              /\ contents[i] = msgs[Slot(Offset(c_head, i - 1))] /\ contents[i] \in Messages
         /\ contents \in [1..Sub(p_tail, c_head) -> Messages]
         /\ contents \in Seq(Messages) /\ Len(contents) = Sub(p_tail, c_head)
<1>1. /\ Sub(p_tail, c_head) = Passed(p_tail) - Passed(c_head)
      /\ Sub(p_tail, c_head) \in Nat
  BY PassedFacts, ClaimFacts DEF Inv, IndexOrder
<1>2. ASSUME NEW i \in 1..Sub(p_tail, c_head)
      PROVE  /\ Passed(c_head) + (i - 1) < IndexModulus
             /\ contents[i] = msgs[Slot(Offset(c_head, i - 1))] /\ contents[i] \in Messages
  <2>1. /\ Passed(c_head) + (i - 1) < Passed(p_tail) /\ i - 1 \in Nat
        /\ Passed(c_head) <= Passed(c_head) + (i - 1)
    BY <1>1, ClaimFacts
  <2>2. Passed(c_head) + (i - 1) < IndexModulus
    BY <2>1, PassedFacts, ClaimFacts, ModulusAssumption
  <2>3. /\ Offset(c_head, i - 1) \in Index
        /\ Passed(Offset(c_head, i - 1)) = Passed(c_head) + (i - 1)
    BY <2>1, <2>2, PassedFacts, ClaimFacts
  <2>4. msgs[Slot(Offset(c_head, i - 1))] \in Messages
    BY <2>1, <2>3 DEF Inv, SlotsFilled
  <2>5. QED
    BY <2>2, <2>4 DEF contents
<1>3. contents \in [1..Sub(p_tail, c_head) -> Messages]
  BY <1>2 DEF contents
<1>4. QED
  BY <1>1, <1>2, <1>3, FunctionIsSeq, PassedFacts, ClaimFacts

\* A producer that publishes puts its message at the end of the queue.
LEMMA PublishIsPut ==
  ASSUME Inv, Inv', NEW p \in Producers, PushPublish(p)
  PROVE  Abstract!Put(p)
<1> DEFINE n == Sub(p_tail, c_head)
           message == <<p, sent[p] + 1>>
<1>1. /\ pc[p] = "publish" /\ Claims(p) /\ h[p] = p_tail /\ Passed(p_tail) < Passed(p_head)
      /\ msgs[Slot(h[p])] = message
  BY DEF PushPublish, Inv, HeadsSound, PushSound, Claims, ClaimPCs, SlotsFilled
<1>2. UNCHANGED <<c_head, c_tail, msgs, ret, popmsg_list>> /\ p_tail' = Inc(p_tail)
  BY <1>1 DEF PushPublish, popVars
<1>3. Passed(p_tail') = Passed(p_tail) + 1
  <2>1. Passed(p_tail) + 1 < IndexModulus
    BY <1>1, PassedFacts, ModulusAssumption DEF Inv, TypeOK
  <2>2. QED
    BY <1>2, <2>1, PassedFacts DEF Inv, TypeOK
<1>4. /\ n = Passed(p_tail) - Passed(c_head) /\ n \in Nat
      /\ contents \in Seq(Messages) /\ Len(contents) = n
      /\ Passed(c_head) \in Nat /\ Passed(p_tail) \in Nat
  BY ContentsType, ClaimFacts
<1>5. n < kMask
  BY <1>1, <1>4, ClaimFacts DEF Inv, IndexOrder
<1>6. Sub(p_tail', c_head) = n + 1
  <2>1. Passed(c_head) <= Passed(p_tail') /\ p_tail' \in Index /\ c_head \in Index
    BY <1>2, <1>3, <1>4 DEF Inv, TypeOK, IndexOrder
  <2>2. QED
    BY <1>3, <1>4, <2>1, PassedFacts
<1>7. \A i \in 1..n : contents'[i] = contents[i]
  BY <1>2, <1>4, <1>6 DEF contents
<1>8. contents'[n + 1] = message
  <2>1. contents'[n + 1] = msgs[Slot(Offset(c_head, (n + 1) - 1))]
    BY <1>2, <1>4, <1>6 DEF contents
  <2>2. Offset(c_head, n) = p_tail
    BY OffsetSub DEF Inv, TypeOK
  <2>3. (n + 1) - 1 = n
    BY <1>4
  <2>4. QED
    BY <1>1, <2>1, <2>2, <2>3
<1>9. message \in Messages
  <2>1. sent[p] \in 0..MAX_PUSH_MSG_COUNT /\ sent[p] < MAX_PUSH_MSG_COUNT
    BY <1>1 DEF Inv, TypeOK, QuotaLeft
  <2>2. sent[p] + 1 \in 1..MAX_PUSH_MSG_COUNT
    BY <2>1, QuotaAssumption
  <2>3. QED
    BY <2>2 DEF Messages
<1> HIDE DEF n, message
<1>10. contents' = Append(contents, message)
  <2>1. /\ Append(contents, message) \in Seq(Messages)
        /\ Len(Append(contents, message)) = n + 1
        /\ \A i \in 1..n : Append(contents, message)[i] = contents[i]
        /\ Append(contents, message)[n + 1] = message
    BY <1>4, <1>9, AppendProperties
  <2>2. contents' \in [1..(n + 1) -> Messages]
    <3>1. \A i \in 1..n : contents[i] \in Messages
      BY ContentsType DEF n
    <3>2. \A i \in 1..(n + 1) : contents'[i] \in Messages
      BY <1>4, <1>7, <1>8, <1>9, <3>1
    <3>3. contents' = [i \in 1..(n + 1) |-> contents'[i]]
      BY <1>2, <1>6 DEF contents
    <3>4. QED
      BY <3>2, <3>3
  <2>3. contents' \in Seq(Messages) /\ Len(contents') = n + 1
    BY <1>4, <2>2, FunctionIsSeq
  <2>4. \A i \in 1..(n + 1) : contents'[i] = Append(contents, message)[i]
    BY <1>4, <1>7, <1>8, <2>1
  <2>5. QED
    BY <2>1, <2>3, <2>4, SeqEqual
<1>11. sent' = [sent EXCEPT ![p] = sent[p] + 1]
  BY DEF PushPublish
<1>12. popped' = popped
  <2>1. \A c \in Consumers : pc'[c] = pc[c] /\ h'[c] = h[c]
    BY ThreadAssumption DEF PushPublish, Goto, Inv, TypeOK
  <2>2. QED
    BY <1>2, <2>1 DEF popped
<1>13. QED
  BY <1>4, <1>5, <1>10, <1>11, <1>12 DEF Abstract!Put, message

\* A consumer whose CAS succeeds takes the message at the front of the queue.
LEMMA ClaimIsTake ==
  ASSUME Inv, NEW c \in Consumers, PopCAS(c), c_head = h[c]
  PROVE  Abstract!Take(c)
<1> DEFINE n == Sub(p_tail, c_head)
<1>1. /\ pc[c] = "cas" /\ pc' = [pc EXCEPT ![c] = "access_slot"] /\ c_head' = Inc(c_head)
      /\ UNCHANGED <<p_head, p_tail, c_tail, msgs, h, ret, sent, popmsg_list>>
  BY DEF PopCAS, Goto, pushVars, harnessVars
<1>2. Passed(c_head) < Passed(p_tail)
  BY <1>1 DEF Inv, HeadsSound, PopSound
<1>3. /\ n = Passed(p_tail) - Passed(c_head) /\ n \in Nat \ {0}
      /\ contents \in Seq(Messages) /\ Len(contents) = n
      /\ Passed(c_head) \in Nat /\ Passed(p_tail) \in Nat /\ Passed(p_tail) < IndexModulus
      /\ c_head \in Index /\ p_tail \in Index
  BY <1>2, ContentsType, ClaimFacts, PassedFacts
<1>4. contents # << >>
  BY <1>3, EmptySeq
<1>5. Sub(p_tail, c_head') = n - 1
  BY <1>1, <1>2, <1>3, SubIncTail
<1>6. ASSUME NEW i \in 1..(n - 1)  PROVE contents'[i] = contents[i + 1]
  <2>1. /\ i - 1 \in Nat /\ i - 1 < IndexModulus - 1 /\ i + 1 \in 1..n
        /\ (i - 1) + 1 = (i + 1) - 1
    BY <1>3, ModulusAssumption
  <2>2. Offset(Inc(c_head), i - 1) = Offset(c_head, (i - 1) + 1)
    BY <1>3, <2>1, OffsetSub
  <2>3. contents'[i] = msgs[Slot(Offset(Inc(c_head), i - 1))]
    BY <1>1, <1>5 DEF contents
  <2>4. contents[i + 1] = msgs[Slot(Offset(c_head, (i + 1) - 1))]
    BY <2>1 DEF contents
  <2>5. QED
    BY <2>1, <2>2, <2>3, <2>4
<1>7. Head(contents) = msgs[Slot(c_head)]
  <2>1. contents[1] = msgs[Slot(Offset(c_head, 1 - 1))]
    BY <1>3 DEF contents
  <2>2. Offset(c_head, 0) = c_head
    BY <1>3, OffsetSub
  <2>3. QED
    BY <1>3, <1>4, <2>1, <2>2
<1>8. contents' = [i \in 1..(n - 1) |-> contents'[i]]
  BY <1>1, <1>5 DEF contents
<1> HIDE DEF n
<1>9. contents' = Tail(contents)
  <2>1. /\ Tail(contents) \in Seq(Messages) /\ Len(Tail(contents)) = n - 1
        /\ \A i \in 1..(n - 1) : Tail(contents)[i] = contents[i + 1]
    BY <1>3, <1>4, HeadTailProperties
  <2>2. contents' \in [1..(n - 1) -> Messages]
    <3>1. \A i \in 1..n : contents[i] \in Messages
      BY ContentsType DEF n
    <3>2. \A i \in 1..(n - 1) : contents'[i] \in Messages
      BY <1>3, <1>6, <3>1
    <3>3. QED
      BY <1>8, <3>2
  <2>3. contents' \in Seq(Messages) /\ Len(contents') = n - 1
    BY <1>3, <2>2, FunctionIsSeq
  <2>4. \A i \in 1..(n - 1) : contents'[i] = Tail(contents)[i]
    BY <1>6, <2>1
  <2>5. QED
    BY <2>1, <2>3, <2>4, SeqEqual
<1>10. popped' = [popped EXCEPT ![c] = Append(popped[c], Head(contents))]
  BY <1>1, <1>7 DEF popped, Inv, TypeOK
<1>11. QED
  BY <1>1, <1>4, <1>9, <1>10 DEF Abstract!Take

\* The steps that neither publish nor claim for reading leave the abstract queue alone.
LEMMA QuietStep ==
  ASSUME Inv, [Next]_vars,
         \A p \in Producers : ~PushPublish(p),
         \A c \in Consumers : ~(PopCAS(c) /\ c_head = h[c])
  PROVE  UNCHANGED <<contents, sent, popped>>
<1> USE DEF Goto, pushVars, popVars, harnessVars
<1>1. ASSUME NEW p \in Producers, Push(p)  PROVE UNCHANGED <<contents, sent, popped>>
  <2>1. /\ UNCHANGED <<p_tail, c_head, c_tail, ret, popmsg_list, sent>>
        /\ \A c \in Consumers : pc'[c] = pc[c] /\ h'[c] = h[c]
    BY <1>1, ThreadAssumption DEF Push, PushLoadHead, PushLoadTail, PushCAS, WriteSlot,
                                  PushAwaitTurn, PushPublish, Inv, TypeOK
  <2>2. CASE UNCHANGED msgs
    BY <2>1, <2>2 DEF contents, popped
  <2>3. CASE WriteSlot(p)
    <3>1. /\ Passed(p_tail) <= Passed(h[p]) /\ Passed(h[p]) < Passed(p_head)
          /\ \A i \in Index : (/\ i # h[p] /\ Passed(c_tail) <= Passed(i)
                              /\ Passed(i) < Passed(p_head))
                              => msgs'[Slot(i)] = msgs[Slot(i)]
      BY <2>3, WriteSlotFrame
    <3>2. ASSUME NEW i \in Index, Passed(c_tail) <= Passed(i), Passed(i) < Passed(p_tail)
          PROVE  msgs'[Slot(i)] = msgs[Slot(i)]
      <4>1. Passed(i) \in Nat
        BY PassedFacts
      <4>2. i # h[p] /\ Passed(i) < Passed(p_head)
        BY <3>1, <3>2, <4>1, ClaimFacts
      <4>3. QED
        BY <3>1, <3>2, <4>2
    <3>3. \A i \in 1..Sub(p_tail, c_head) :
            msgs'[Slot(Offset(c_head, i - 1))] = msgs[Slot(Offset(c_head, i - 1))]
      <4>1. SUFFICES ASSUME NEW i \in 1..Sub(p_tail, c_head)
                     PROVE  /\ Offset(c_head, i - 1) \in Index
                            /\ Passed(c_tail) <= Passed(Offset(c_head, i - 1))
                            /\ Passed(Offset(c_head, i - 1)) < Passed(p_tail)
        BY <3>2
      <4>2. i - 1 \in Nat /\ Passed(c_head) + (i - 1) < IndexModulus
        BY ContentsType
      <4>3. /\ Offset(c_head, i - 1) \in Index
            /\ Passed(Offset(c_head, i - 1)) = Passed(c_head) + (i - 1)
        BY <4>2, ContentsType
      <4>4. /\ Passed(c_tail) <= Passed(c_head) + (i - 1)
            /\ Passed(c_head) + (i - 1) < Passed(p_tail)
        BY ContentsType, ClaimFacts DEF Inv, IndexOrder
      <4>5. QED
        BY <4>3, <4>4
    <3>4. contents' = contents
      BY <2>1, <3>3 DEF contents
    <3>5. ASSUME NEW c \in Consumers, pc[c] = "access_slot"
          PROVE  msgs'[Slot(h[c])] = msgs[Slot(h[c])]
      <4>1. Passed(c_tail) <= Passed(h[c]) /\ Passed(h[c]) < Passed(c_head)
        BY <3>5 DEF Inv, HeadsSound, PopSound, Claims, ClaimPCs
      <4>2. QED
        BY <3>2, <4>1, ClaimFacts DEF Inv, IndexOrder
    <3>6. popped' = popped
      BY <2>1, <3>5 DEF popped
    <3>7. QED
      BY <2>1, <3>4, <3>6
  <2>4. QED
    BY <1>1, <2>2, <2>3 DEF Push, PushLoadHead, PushLoadTail, PushCAS, PushAwaitTurn, PushPublish
<1>2. ASSUME NEW c \in Consumers, Pop(c)  PROVE UNCHANGED <<contents, sent, popped>>
  <2>1. /\ UNCHANGED <<p_head, p_tail, c_head, msgs, sent>>
        /\ \A d \in Consumers \ {c} : /\ pc'[d] = pc[d] /\ h'[d] = h[d] /\ ret'[d] = ret[d]
                                     /\ popmsg_list'[d] = popmsg_list[d]
    BY <1>2 DEF Pop, PopLoadHead, PopLoadTail, PopCAS, ReadSlot, PopAwaitTurn, PopPublish,
                Inv, TypeOK
  <2>2. contents' = contents
    BY <2>1 DEF contents
  <2>3. popped'[c] = popped[c]
    <3>1. CASE PopLoadHead(c) \/ PopLoadTail(c) \/ PopCAS(c)
      <4>1. /\ pc[c] \in {"load_head", "load_tail", "cas"}
            /\ pc'[c] \in {"load_head", "load_tail", "cas"}
            /\ popmsg_list' = popmsg_list
        BY <3>1 DEF PopLoadHead, PopLoadTail, PopCAS, Inv, TypeOK
      <4>2. QED
        BY <4>1 DEF popped
    <3>2. CASE ReadSlot(c)
      BY <3>2 DEF ReadSlot, popped, Inv, TypeOK
    <3>3. CASE PopAwaitTurn(c)
      BY <3>3 DEF PopAwaitTurn, popped, Inv, TypeOK
    <3>4. CASE PopPublish(c)
      <4>1. pc[c] = "publish" /\ pc'[c] \in {"load_head", "done"}
        BY <3>4 DEF PopPublish, Inv, TypeOK
      <4>2. ret[c] # NULL
        BY <4>1, ThreadAssumption DEF Inv, SlotsFilled, Messages
      <4>3. popmsg_list'[c] = Append(popmsg_list[c], ret[c])
        BY <3>4, <4>2 DEF PopPublish, Inv, TypeOK
      <4>4. QED
        BY <4>1, <4>3 DEF popped
    <3>5. QED
      BY <1>2, <3>1, <3>2, <3>3, <3>4 DEF Pop
  <2>4. \A d \in Consumers \ {c} : popped'[d] = popped[d]
    BY <2>1 DEF popped
  <2>5. popped' = popped
    BY <2>3, <2>4 DEF popped
  <2>6. QED
    BY <2>1, <2>2, <2>5
<1>3. CASE UNCHANGED vars
  BY <1>3 DEF vars, contents, popped
<1>4. QED
  BY <1>1, <1>2, <1>3 DEF Next, Joined

\* q3.h is a FIFO queue of at most mask messages, though nothing but two CASes and
\* two waits for a turn orders its steps (q3.h:59-128), for any number of threads,
\* also when the indices wrap.
THEOREM Refinement == Spec => RefinesBoundedQueue
<1>1. Init => Abstract!Init
  <2>1. SUFFICES ASSUME Init  PROVE Abstract!Init
    OBVIOUS
  <2>2. contents = << >>
    <3>1. Inv
      BY <2>1, InitInv
    <3>2. Sub(p_tail, c_head) = 0
      BY <2>1, SubType, QuotaAssumption DEF Init
    <3>3. contents \in Seq(Messages) /\ Len(contents) = 0
      BY <3>1, <3>2, ContentsType
    <3>4. QED
      BY <3>3, EmptySeq
  <2>3. popped = [c \in Consumers |-> << >>]
    BY <2>1 DEF Init, popped
  <2>4. QED
    BY <2>1, <2>2, <2>3 DEF Init, Abstract!Init
<1>2. Inv /\ Inv' /\ [Next]_vars => [Abstract!Next]_Abstract!vars
  <2>1. SUFFICES ASSUME Inv, Inv', [Next]_vars
                 PROVE  Abstract!Next \/ UNCHANGED <<contents, sent, popped>>
    BY DEF Abstract!vars
  <2>2. ASSUME NEW p \in Producers, PushPublish(p)  PROVE Abstract!Next
    BY <2>1, <2>2, PublishIsPut DEF Abstract!Next
  <2>3. ASSUME NEW c \in Consumers, PopCAS(c), c_head = h[c]  PROVE Abstract!Next
    BY <2>1, <2>3, ClaimIsTake DEF Abstract!Next
  <2>4. QED
    BY <2>1, <2>2, <2>3, QuietStep
<1>3. QED
  BY <1>1, <1>2, Invariance, PTL DEF Spec, RefinesBoundedQueue, Abstract!Spec

\* A thread goes back to the load of its head from the load of the other side's
\* tail only by its own test of the two.
LEMMA Retry ==
  ASSUME Inv, [Next]_vars, NEW th \in Threads, pc[th] = "load_tail", pc'[th] = "load_head"
  PROVE  \/ th \in Producers /\ PushLoadTail(th)
         \/ th \in Consumers /\ PopLoadTail(th)
<1>1. ASSUME NEW p \in Producers, Push(p)  PROVE th = p /\ PushLoadTail(p)
  <2>1. PICK where \in PCs : pc' = [pc EXCEPT ![p] = where]
    BY <1>1 DEF Push, PushLoadHead, PushLoadTail, PushCAS, WriteSlot, PushAwaitTurn,
                PushPublish, Goto, PCs, ClaimPCs
  <2>2. th = p
    BY <2>1 DEF Inv, TypeOK
  <2>3. QED
    BY <1>1, <2>2 DEF Push, PushLoadHead, PushCAS, WriteSlot, PushAwaitTurn, PushPublish
<1>2. ASSUME NEW c \in Consumers, Pop(c)  PROVE th = c /\ PopLoadTail(c)
  <2>1. PICK where \in PCs : pc' = [pc EXCEPT ![c] = where]
    BY <1>2 DEF Pop, PopLoadHead, PopLoadTail, PopCAS, ReadSlot, PopAwaitTurn,
                PopPublish, Goto, PCs, ClaimPCs
  <2>2. th = c
    BY <2>1 DEF Inv, TypeOK
  <2>3. QED
    BY <1>2, <2>2 DEF Pop, PopLoadHead, PopCAS, ReadSlot, PopAwaitTurn, PopPublish
<1>3. ~UNCHANGED vars
  BY DEF vars
<1>4. QED
  BY <1>1, <1>2, <1>3 DEF Next, Joined

\* A pop answers NULL only at a moment when nothing is published and unclaimed, a
\* push -1 only while mask indices are in use, however old the head it compares
\* (q3.h:67-71, 103-107), as long as the other producers' pushes of a test stay a
\* ring's length below one lap of the indices: a head older than that would be
\* taken for one the readers have not reached.
THEOREM Refusals ==
  ASSUME (Cardinality(Producers) - 1) * MAX_PUSH_MSG_COUNT + kMask < IndexModulus
  PROVE  Spec => HonestRefusals
<1> DEFINE Honest ==
      /\ \A c \in Consumers : (pc[c] = "load_tail" /\ pc'[c] = "load_head") => contents = << >>
      /\ \A p \in Producers : (pc[p] = "load_tail" /\ pc'[p] = "load_head")
                                => Sub(p_head, c_tail) = kMask
<1>1. ASSUME Inv, [Next]_vars, NEW c \in Consumers, pc[c] = "load_tail", pc'[c] = "load_head"
      PROVE  contents = << >>
  <2>1. PopLoadTail(c)
    BY <1>1, Retry, ThreadAssumption
  <2>2. h[c] = p_tail
    BY <1>1, <2>1 DEF PopLoadTail, Goto, QueueEmpty, Inv, TypeOK
  <2>3. Passed(p_tail) <= Passed(c_head) /\ Passed(c_head) <= Passed(p_tail)
    BY <1>1, <2>2 DEF Inv, HeadsSound, PopSound, IndexOrder
  <2>4. Sub(p_tail, c_head) = 0
    BY <1>1, <2>3, ContentsType, ClaimFacts
  <2>5. QED
    BY <1>1, <2>4, ContentsType, EmptySeq
<1>2. ASSUME Inv, [Next]_vars, NEW p \in Producers, pc[p] = "load_tail", pc'[p] = "load_head"
      PROVE  Sub(p_head, c_tail) = kMask
  <2>1. PushLoadTail(p)
    BY <1>2, Retry, ThreadAssumption
  <2>2. Sub(h[p], c_tail) = kMask
    BY <1>2, <2>1 DEF PushLoadTail, Goto, QueueFull, Inv, TypeOK
  <2>3. /\ h[p] \in Index /\ c_tail \in Index /\ p_head \in Index
        /\ Passed(h[p]) \in Nat /\ Passed(c_tail) \in Nat /\ Passed(p_head) \in Nat
    BY <1>2, ClaimFacts
  <2>4. /\ sent[p] <= Passed(h[p]) /\ Passed(h[p]) <= Passed(p_head)
        /\ Passed(p_head) <= Passed(c_tail) + kMask
        /\ Passed(c_tail) <= Passed(p_head)
    BY <1>2, <2>3, ClaimFacts DEF Inv, HeadsSound, PushSound, IndexOrder
  <2>5. Passed(c_tail) <= Passed(h[p])
    <3>1. Passed(p_head) <= sent[p] + (Cardinality(Producers) - 1) * MAX_PUSH_MSG_COUNT
      BY <1>2, ClaimBounds DEF Inv, Claims, ClaimPCs
    <3>2. (Cardinality(Producers) - 1) * MAX_PUSH_MSG_COUNT \in Nat /\ sent[p] \in Nat
      <4>1. Cardinality(Producers) - 1 \in Nat
        BY <1>2, ClaimBounds DEF Inv, Claims, ClaimPCs
      <4>2. sent[p] \in Nat
        BY <1>2 DEF Inv, TypeOK
      <4>3. \A a, b \in Nat : a * b \in Nat
        OBVIOUS
      <4>4. QED
        BY <4>1, <4>2, <4>3, QuotaAssumption
    <3>3. Passed(c_tail) - Passed(h[p]) < IndexModulus - kMask
      BY <2>3, <2>4, <3>1, <3>2, ModulusAssumption, CapacityAssumption DEF kMask
    <3>4. Passed(h[p]) < Passed(c_tail) => kMask = IndexModulus - (Passed(c_tail) - Passed(h[p]))
      BY <2>2, <2>3, PassedFacts
    <3>5. QED
      BY <2>3, <3>3, <3>4, ModulusAssumption, CapacityAssumption DEF kMask
  <2>6. Passed(h[p]) = Passed(c_tail) + kMask
    BY <2>2, <2>3, <2>5, PassedFacts, CapacityAssumption DEF kMask
  <2>7. h[p] = p_head
    <3>1. Passed(h[p]) = Passed(p_head)
      BY <2>3, <2>4, <2>6, CapacityAssumption DEF kMask
    <3>2. QED
      BY <2>3, <3>1, PassedFacts
  <2>8. QED
    BY <2>2, <2>7
<1>3. Inv /\ [Next]_vars => [Honest]_vars
  BY <1>1, <1>2
<1>4. QED
  BY <1>3, Invariance, PTL DEF Spec, HonestRefusals
===============================================================================
