-------------------------- MODULE SpinRingQueueProofs --------------------------
(* Proofs about SpinRingQueue for every number of threads, capacity, index   *)
(* width and quota.                                                          *)
EXTENDS SpinRingQueue, RingIndexProofs, SequenceTheorems, FiniteSetTheorems

USE DEF Threads

\* The first step of a call is a pc.
LEMMA EntryType == ASSUME funcType \in AllFuncTypes PROVE Entry \in PCs
  BY DEF Entry, PCs, AllFuncTypes

\* Every step keeps every variable in its type and every looping producer
\* short of its quota.
LEMMA TypeStep ==
  ASSUME TypeOK, QuotaLeft, [Next]_vars
  PROVE  TypeOK' /\ QuotaLeft'
<1>e. Entry \in PCs
  BY EntryType, QuotaAssumption DEF TypeOK
<1> USE <1>e, IndexType, ThreadAssumption, QuotaAssumption
<1>1. ASSUME NEW th \in Threads, Acquire(th) PROVE TypeOK' /\ QuotaLeft'
  <2>1. UNCHANGED <<funcType, head, tail, queue, h, t, item, sent, popmsg_list>>
    BY <1>1 DEF Acquire, LockCAS, LockCASFails, WaitUnlocked, LockXchg, TestUnlocked,
                SetLocked, MutexLock, AcquireUnchanged, localVars, harnessVars, lockVars
  <2>2. locked' \in {0, 1} /\ queue_mutex' \in Threads \cup {NULL}
    BY <1>1 DEF Acquire, LockCAS, LockCASFails, WaitUnlocked, LockXchg, TestUnlocked,
                SetLocked, MutexLock, lockVars, TypeOK
  <2>3. PICK where \in PCs : pc' = [pc EXCEPT ![th] = where] /\ pc[th] # "done"
    BY <1>1 DEF Acquire, LockCAS, LockCASFails, WaitUnlocked, LockXchg, TestUnlocked,
                SetLocked, MutexLock, Goto, PCs, CriticalPCs
  <2>4. QED
    BY <2>1, <2>2, <2>3 DEF TypeOK, QuotaLeft
<1>2. ASSUME NEW th \in Threads, LoadHead(th) PROVE TypeOK' /\ QuotaLeft'
  BY <1>2 DEF LoadHead, Goto, TypeOK, QuotaLeft, PCs, CriticalPCs, lockVars, harnessVars
<1>3. ASSUME NEW th \in Threads, LoadTail(th) PROVE TypeOK' /\ QuotaLeft'
  BY <1>3 DEF LoadTail, Goto, TypeOK, QuotaLeft, PCs, CriticalPCs, lockVars, harnessVars
<1>4. ASSUME NEW p \in Producers, StoreHead(p) PROVE TypeOK' /\ QuotaLeft'
  BY <1>4 DEF StoreHead, Goto, TypeOK, QuotaLeft, PCs, CriticalPCs, lockVars, localVars, harnessVars
<1>5. ASSUME NEW c \in Consumers, StoreTail(c) PROVE TypeOK' /\ QuotaLeft'
  BY <1>5 DEF StoreTail, Goto, TypeOK, QuotaLeft, PCs, CriticalPCs, lockVars, localVars, harnessVars
<1>6. ASSUME NEW p \in Producers, WriteSlot(p) PROVE TypeOK' /\ QuotaLeft'
  <2>0. sent[p] \in 0..MAX_PUSH_MSG_COUNT /\ sent[p] < MAX_PUSH_MSG_COUNT
    BY <1>6 DEF WriteSlot, TypeOK, QuotaLeft
  <2>1. <<p, sent[p] + 1>> \in Messages
    BY <2>0 DEF Messages
  <2>2. QED
    BY <1>6, <2>1 DEF WriteSlot, Goto, TypeOK, QuotaLeft, PCs, CriticalPCs,
                      lockVars, localVars, harnessVars
<1>7. ASSUME NEW c \in Consumers, ReadSlot(c) PROVE TypeOK' /\ QuotaLeft'
  BY <1>7 DEF ReadSlot, Goto, TypeOK, QuotaLeft, PCs, CriticalPCs, lockVars, harnessVars
<1>8. ASSUME NEW th \in Threads, UnlockFail(th) PROVE TypeOK' /\ QuotaLeft'
  <2>1. locked' \in {0, 1} /\ queue_mutex' \in Threads \cup {NULL}
    BY <1>8 DEF UnlockFail, Release, TypeOK
  <2>2. QED
    BY <1>8, <2>1 DEF UnlockFail, ClearLocals, Goto, TypeOK, QuotaLeft, harnessVars
<1>9. ASSUME NEW p \in Producers, ReturnPush(p) PROVE TypeOK' /\ QuotaLeft'
  BY <1>9 DEF ReturnPush, Release, ClearLocals, Goto, TypeOK, QuotaLeft, PCs
<1>10. ASSUME NEW c \in Consumers, ReturnPop(c) PROVE TypeOK' /\ QuotaLeft'
  BY <1>10 DEF ReturnPop, Release, ClearLocals, Goto, TypeOK, QuotaLeft, PCs
<1>11. CASE UNCHANGED vars
  BY <1>11 DEF vars, TypeOK, QuotaLeft
<1>12. QED
  BY <1>1, <1>2, <1>3, <1>4, <1>5, <1>6, <1>7, <1>8, <1>9, <1>10, <1>11
     DEF Next, Push, Pop, Joined

\* The lock word, or the mutex, admits one thread at a time.
LEMMA LockStep ==
  ASSUME TypeOK, LockOwned, MutualExclusion, FuncTypes \subseteq ExclusiveTypes, [Next]_vars
  PROVE  LockOwned' /\ MutualExclusion'
<1>f. funcType \in {"spin", "spin1", "spin2", "spin3", "mutex"}
  BY QuotaAssumption DEF TypeOK, ExclusiveTypes, AllFuncTypes
<1>e. /\ Entry \in {"cas", "xchg", "lock"}
      /\ Entry \in {"cas", "xchg"} => funcType # "mutex"
      /\ Entry = "lock" => funcType = "mutex"
  BY <1>f DEF Entry
<1>n. NULL \notin Threads
  BY ThreadAssumption
\* A thread that enters found the lock free, so nobody was inside.
<1>1. ASSUME NEW th \in Threads, Acquire(th) PROVE LockOwned' /\ MutualExclusion'
  <2>1. CASE LockCAS(th)
    BY <2>1, <1>f DEF LockCAS, Goto, AcquireUnchanged, TypeOK, LockOwned, MutualExclusion,
                      InCritical, CriticalPCs
  <2>2. CASE LockCASFails(th) \/ WaitUnlocked(th)
    BY <2>2, <1>f DEF LockCASFails, WaitUnlocked, Goto, AcquireUnchanged, lockVars, TypeOK,
                      LockOwned, MutualExclusion, InCritical, CriticalPCs
  <2>3. CASE LockXchg(th) /\ locked = 0
    BY <2>3, <1>f DEF LockXchg, Goto, AcquireUnchanged, TypeOK, LockOwned, MutualExclusion,
                      InCritical, CriticalPCs
  <2>4. CASE LockXchg(th) /\ locked # 0
    <3>1. PICK where \in {"wait", "cas"} : pc' = [pc EXCEPT ![th] = where]
      BY <2>4 DEF LockXchg, Goto
    <3>2. funcType' = funcType /\ queue_mutex' = queue_mutex /\ locked' = 1 /\ pc[th] = "xchg"
      BY <2>4 DEF LockXchg, AcquireUnchanged
    <3>3. QED
      BY <3>1, <3>2, <1>f DEF TypeOK, LockOwned, MutualExclusion, InCritical, CriticalPCs
  <2>5. CASE MutexLock(th)
    BY <2>5, <1>f, <1>n DEF MutexLock, Goto, AcquireUnchanged, TypeOK, LockOwned,
                            MutualExclusion, InCritical, CriticalPCs
  <2>6. ~TestUnlocked(th) /\ ~SetLocked(th)
    BY DEF TestUnlocked, SetLocked, LockOwned
  <2>7. QED
    BY <1>1, <2>1, <2>2, <2>3, <2>4, <2>5, <2>6 DEF Acquire
\* Steps under the lock keep it.
<1>2. ASSUME NEW th \in Threads,
             \/ LoadHead(th) \/ LoadTail(th)
             \/ th \in Producers /\ (StoreHead(th) \/ WriteSlot(th))
             \/ th \in Consumers /\ (StoreTail(th) \/ ReadSlot(th))
      PROVE LockOwned' /\ MutualExclusion'
  <2>1. PICK where \in CriticalPCs : pc' = [pc EXCEPT ![th] = where] /\ InCritical(th)
    BY <1>2 DEF LoadHead, LoadTail, StoreHead, StoreTail, WriteSlot, ReadSlot, Goto,
                InCritical, CriticalPCs
  <2>2. UNCHANGED <<funcType, locked, queue_mutex>>
    BY <1>2 DEF LoadHead, LoadTail, StoreHead, StoreTail, WriteSlot, ReadSlot, lockVars
  <2>3. QED
    BY <2>1, <2>2 DEF TypeOK, LockOwned, MutualExclusion, InCritical, CriticalPCs
\* The thread that releases leaves nobody inside.
<1>3. ASSUME NEW th \in Threads,
             \/ UnlockFail(th)
             \/ th \in Producers /\ ReturnPush(th)
             \/ th \in Consumers /\ ReturnPop(th)
      PROVE LockOwned' /\ MutualExclusion'
  <2>1. PICK where \in {Entry, "done"} : pc' = [pc EXCEPT ![th] = where] /\ InCritical(th)
    BY <1>3 DEF UnlockFail, ReturnPush, ReturnPop, Goto, InCritical, CriticalPCs
  <2>2. funcType' = funcType
    BY <1>3 DEF UnlockFail, ReturnPush, ReturnPop
  <2>3. \A other \in Threads : ~InCritical(other)'
    BY <2>1, <1>e DEF TypeOK, MutualExclusion, InCritical, CriticalPCs
  <2>4. MutualExclusion'
    BY <2>3 DEF MutualExclusion, InCritical
  <2>5. \A other \in Threads : pc'[other] = IF other = th THEN where ELSE pc[other]
    BY <2>1 DEF TypeOK
  <2>6. LockOwned'
    <3>1. \A other \in Threads \ {th} :
            /\ pc[other] \in {"cas", "xchg", "wait"} => funcType # "mutex"
            /\ pc[other] = "lock" => funcType = "mutex"
            /\ pc[other] \notin {"test", "set"}
      BY DEF LockOwned
    <3>2. /\ where \in {"cas", "xchg", "wait"} => funcType # "mutex"
          /\ where = "lock" => funcType = "mutex"
          /\ where \notin {"test", "set"}
      BY <1>e, <2>1
    <3>3. QED
      BY <2>2, <2>3, <2>5, <3>1, <3>2, <1>f DEF LockOwned, InCritical
  <2>7. QED
    BY <2>4, <2>6
<1>4. CASE UNCHANGED vars
  BY <1>4 DEF vars, LockOwned, MutualExclusion, InCritical
<1>5. QED
  BY <1>1, <1>2, <1>3, <1>4 DEF Next, Push, Pop, Joined

\* Only the thread under the lock moves the indices, and each move was checked
\* against their current values.
LEMMA BodyStep ==
  ASSUME TypeOK, MutualExclusion, LocalsCurrent, OccupancyBound, [Next]_vars,
         FuncTypes \subseteq ExclusiveTypes
  PROVE  LocalsCurrent' /\ OccupancyBound'
<1>e. Entry \notin CriticalPCs
  BY QuotaAssumption DEF TypeOK, Entry, CriticalPCs, ExclusiveTypes, AllFuncTypes
<1>d. Producers \cap Consumers = {}
  BY ThreadAssumption
\* Steps that leave the indices and every local below the lock alone.
<1>1. ASSUME NEW th \in Threads,
             \/ Acquire(th) \/ UnlockFail(th)
             \/ th \in Producers /\ (WriteSlot(th) \/ ReturnPush(th))
             \/ th \in Consumers /\ (ReadSlot(th) \/ ReturnPop(th))
      PROVE LocalsCurrent' /\ OccupancyBound'
  <2>1. UNCHANGED <<head, tail>>
    BY <1>1 DEF Acquire, LockCAS, LockCASFails, WaitUnlocked, LockXchg, TestUnlocked, SetLocked,
                MutexLock, AcquireUnchanged, UnlockFail, WriteSlot, ReturnPush, ReadSlot, ReturnPop
  <2>2. \A other \in Threads \ {th} : UNCHANGED <<pc[other], h[other], t[other]>>
    BY <1>1 DEF Acquire, LockCAS, LockCASFails, WaitUnlocked, LockXchg, TestUnlocked, SetLocked,
                MutexLock, AcquireUnchanged, UnlockFail, WriteSlot, ReturnPush, ReadSlot, ReturnPop,
                ClearLocals, localVars, Goto, TypeOK
  <2>3. pc'[th] \notin {"load_tail", "store_index", "access_slot"}
    BY <1>1, <1>e DEF Acquire, LockCAS, LockCASFails, WaitUnlocked, LockXchg, TestUnlocked,
                SetLocked, MutexLock, UnlockFail, WriteSlot, ReturnPush, ReadSlot, ReturnPop,
                Goto, TypeOK, CriticalPCs
  <2>4. QED
    BY <2>1, <2>2, <2>3 DEF LocalsCurrent, OccupancyBound, QueueFull, QueueEmpty
<1>2. ASSUME NEW th \in Threads, LoadHead(th) PROVE LocalsCurrent' /\ OccupancyBound'
  BY <1>2 DEF LoadHead, Goto, TypeOK, LocalsCurrent, OccupancyBound, QueueFull, QueueEmpty
<1>3. ASSUME NEW th \in Threads, LoadTail(th) PROVE LocalsCurrent' /\ OccupancyBound'
  BY <1>3 DEF LoadTail, Goto, TypeOK, LocalsCurrent, OccupancyBound, QueueFull, QueueEmpty
<1>4. ASSUME NEW p \in Producers, StoreHead(p) PROVE LocalsCurrent' /\ OccupancyBound'
  <2>1. head' = Inc(head) /\ tail' = tail /\ ~QueueFull(head, tail)
    BY <1>4 DEF StoreHead, LocalsCurrent
  <2>2. Sub(head, tail) \in Index /\ Sub(head, tail) < kCapacity
    BY <2>1, SubType, CapacityAssumption, ModulusAssumption DEF TypeOK, QueueFull, kMask, Index
  <2>x. Sub(Inc(head), tail) = Sub(head, tail) + 1
    BY <2>2, SubIncHead DEF TypeOK
  <2>o. OccupancyBound'
    BY <2>1, <2>2, <2>x, CapacityAssumption DEF OccupancyBound, Index
  <2>3. \A other \in Threads \ {p} : ~InCritical(other)
    BY <1>4 DEF StoreHead, MutualExclusion, InCritical, CriticalPCs
  <2>4. pc' = [pc EXCEPT ![p] = "access_slot"] /\ UNCHANGED <<h, t>>
    BY <1>4 DEF StoreHead, Goto, localVars
  <2>5. LocalsCurrent'
    BY <1>4, <2>3, <2>4 DEF StoreHead, TypeOK, LocalsCurrent, InCritical, CriticalPCs
  <2>6. QED
    BY <2>5, <2>o
<1>5. ASSUME NEW c \in Consumers, StoreTail(c) PROVE LocalsCurrent' /\ OccupancyBound'
  <2>1. tail' = Inc(tail) /\ head' = head /\ ~QueueEmpty(head, tail)
    BY <1>5, <1>d DEF StoreTail, LocalsCurrent
  <2>2. OccupancyBound'
    BY <2>1, SubIncTail, SubType, CapacityAssumption
       DEF TypeOK, OccupancyBound, QueueEmpty, Index
  <2>3. \A other \in Threads \ {c} : ~InCritical(other)
    BY <1>5 DEF StoreTail, MutualExclusion, InCritical, CriticalPCs
  <2>4. pc' = [pc EXCEPT ![c] = "access_slot"] /\ UNCHANGED <<h, t>>
    BY <1>5 DEF StoreTail, Goto, localVars
  <2>5. LocalsCurrent'
    BY <1>5, <1>d, <2>3, <2>4 DEF StoreTail, TypeOK, LocalsCurrent, InCritical, CriticalPCs
  <2>6. QED
    BY <2>2, <2>5
<1>6. CASE UNCHANGED vars
  BY <1>6 DEF vars, LocalsCurrent, OccupancyBound, QueueFull, QueueEmpty
<1>7. QED
  BY <1>1, <1>2, <1>3, <1>4, <1>5, <1>6 DEF Next, Push, Pop, Joined

\* The messages of the ring number at most kCapacity, one less while a slot is
\* still to be written.
LEMMA HeldType ==
  ASSUME TypeOK, OccupancyBound, WritePending => head # tail
  PROVE  /\ Held \in 0..kCapacity /\ Held \in Index
         /\ WritePending => Held \in 0..kMask /\ Sub(head, tail) = Held + 1
         /\ ~WritePending => Sub(head, tail) = Held
<1>1. Sub(head, tail) \in 0..kCapacity /\ (WritePending => Sub(head, tail) # 0)
  BY SubType DEF TypeOK, OccupancyBound, Index
<1>2. QED
  BY <1>1, CapacityAssumption, ModulusAssumption DEF Held, kMask, Index

\* They are a sequence of that length.
LEMMA ContentsType ==
  ASSUME Held \in Nat, \A i \in 1..Held : contents[i] \in Messages
  PROVE  contents \in Seq(Messages) /\ Len(contents) = Held
<1>1. contents \in [1..Held -> Messages]
  BY DEF contents
<1>2. contents \in Seq(Messages)
  BY <1>1, SeqDef
<1>3. Len(contents) \in Nat /\ 1..Len(contents) = 1..Held
  BY <1>1, <1>2, LenProperties
<1>4. QED
  BY <1>2, <1>3

\* Steps that leave the ring alone, and every thread but the one that takes them.
LEMMA QuietStep ==
  ASSUME TypeOK, FuncTypes \subseteq ExclusiveTypes, NEW th \in Threads,
         \/ Acquire(th) \/ LoadHead(th) \/ LoadTail(th) \/ UnlockFail(th)
         \/ th \in Producers /\ ReturnPush(th)
         \/ th \in Consumers /\ ReturnPop(th)
  PROVE  /\ UNCHANGED <<head, tail, queue>>
         /\ \A other \in Threads \ {th} : UNCHANGED <<pc[other], t[other]>>
         /\ \A c \in Consumers \ {th} : UNCHANGED item[c]
         /\ pc[th] # "access_slot" /\ pc'[th] \notin {"access_slot", "unlock_ok"}
         /\ contents' = contents /\ WritePending' = WritePending
<1>e. Entry \notin CriticalPCs
  BY QuotaAssumption DEF TypeOK, Entry, CriticalPCs, ExclusiveTypes, AllFuncTypes
<1>1. CASE Acquire(th)
  <2>1. UNCHANGED <<head, tail, queue, t, item>>
    BY <1>1 DEF Acquire, LockCAS, LockCASFails, WaitUnlocked, LockXchg, TestUnlocked,
                SetLocked, MutexLock, AcquireUnchanged, localVars
  <2>2. PICK where \in PCs : /\ pc' = [pc EXCEPT ![th] = where] /\ pc[th] # "access_slot"
                             /\ where \notin {"access_slot", "unlock_ok"}
    BY <1>1 DEF Acquire, LockCAS, LockCASFails, WaitUnlocked, LockXchg, TestUnlocked,
                SetLocked, MutexLock, Goto, PCs, CriticalPCs
  <2>3. QED
    BY <2>1, <2>2 DEF TypeOK, contents, Held, WritePending
<1>2. CASE LoadHead(th) \/ LoadTail(th)
  <2>1. UNCHANGED <<head, tail, queue, item>> /\ pc[th] # "access_slot"
    BY <1>2 DEF LoadHead, LoadTail
  <2>2. \A other \in Threads \ {th} : t'[other] = t[other]
    BY <1>2 DEF LoadHead, LoadTail, TypeOK
  <2>3. PICK where \in PCs : /\ pc' = [pc EXCEPT ![th] = where]
                             /\ where \notin {"access_slot", "unlock_ok"}
    BY <1>2 DEF LoadHead, LoadTail, Goto, PCs, CriticalPCs
  <2>4. QED
    BY <2>1, <2>2, <2>3 DEF TypeOK, contents, Held, WritePending
<1>3. CASE \/ UnlockFail(th)
           \/ th \in Producers /\ ReturnPush(th)
           \/ th \in Consumers /\ ReturnPop(th)
  <2>1. UNCHANGED <<head, tail, queue>> /\ pc[th] # "access_slot" /\ ClearLocals(th)
    BY <1>3 DEF UnlockFail, ReturnPush, ReturnPop
  <2>2. PICK where \in {Entry, "done"} : pc' = [pc EXCEPT ![th] = where]
    BY <1>3 DEF UnlockFail, ReturnPush, ReturnPop, Goto
  <2>3. where \notin {"access_slot", "unlock_ok"}
    BY <1>e, <2>2 DEF CriticalPCs
  <2>4. /\ \A other \in Threads \ {th} : t'[other] = t[other]
        /\ \A c \in Consumers \ {th} : item'[c] = item[c]
    BY <2>1 DEF ClearLocals, TypeOK
  <2>5. QED
    BY <2>1, <2>2, <2>3, <2>4 DEF TypeOK, contents, Held, WritePending
<1>4. QED
  BY <1>1, <1>2, <1>3

\* The store of head makes room for a message that is not there yet.
LEMMA StoreHeadContents ==
  ASSUME Inv, NEW p \in Producers, StoreHead(p)
  PROVE  /\ head' = Inc(head) /\ head' # tail /\ ~WritePending /\ WritePending'
         /\ Held' = Held /\ contents' = contents
         /\ \A th \in Threads \ {p} : ~InCritical(th)
<1> USE DEF Inv
<1>1. head' = Inc(head) /\ UNCHANGED <<tail, queue>> /\ ~QueueFull(head, tail)
  BY DEF StoreHead, LocalsCurrent
<1>2. Sub(head, tail) \in Nat /\ Sub(head, tail) < kCapacity
  BY <1>1, SubType, CapacityAssumption, ModulusAssumption DEF TypeOK, QueueFull, kMask, Index
<1>3. Sub(head', tail) = Sub(head, tail) + 1
  BY <1>1, <1>2, SubIncHead DEF TypeOK
<1>4. head' # tail
  BY <1>1, <1>2, <1>3, SubType, IndexType DEF TypeOK
<1>5. \A th \in Threads \ {p} : ~InCritical(th)
  BY DEF StoreHead, MutualExclusion, InCritical, CriticalPCs
<1>6. ~WritePending
  BY <1>5 DEF StoreHead, WritePending, InCritical, CriticalPCs
<1>7. WritePending'
  BY DEF StoreHead, Goto, WritePending, TypeOK
<1>8. Held' = Held
  BY <1>1, <1>2, <1>3, <1>6, <1>7 DEF Held
<1>9. contents' = contents
  BY <1>1, <1>8 DEF contents
<1>10. QED
  BY <1>1, <1>4, <1>5, <1>6, <1>7, <1>8, <1>9

\* The store of tail takes the oldest message, which is in the slot the pop goes on to.
LEMMA StoreTailContents ==
  ASSUME Inv, NEW c \in Consumers, StoreTail(c)
  PROVE  /\ t[c] = tail /\ ~WritePending /\ ~WritePending'
         /\ Held \in Nat \ {0} /\ Held' = Held - 1
         /\ contents[1] = queue[Slot(tail)]
         /\ \A i \in 1..Held' : contents'[i] = contents[i + 1]
         /\ \A th \in Threads \ {c} : ~InCritical(th)
<1> USE DEF Inv
<1>d. c \notin Producers
  BY ThreadAssumption
<1>1. /\ tail' = Inc(tail) /\ UNCHANGED <<head, queue>> /\ ~QueueEmpty(head, tail)
      /\ t[c] = tail
  BY <1>d DEF StoreTail, LocalsCurrent
<1>2. \A th \in Threads \ {c} : ~InCritical(th)
  BY DEF StoreTail, MutualExclusion, InCritical, CriticalPCs
<1>3. ~WritePending
  BY <1>d, <1>2 DEF WritePending, InCritical, CriticalPCs
<1>4. ~WritePending'
  BY <1>d, <1>3 DEF StoreTail, Goto, WritePending, TypeOK
<1>5. Held = Sub(head, tail) /\ Held \in 0..kCapacity /\ Held # 0
  BY <1>1, <1>3, HeldType, SubType DEF MessagesHeld, QueueEmpty, TypeOK
<1>6. Held' = Held - 1
  BY <1>1, <1>4, <1>5, SubIncTail DEF Held, QueueEmpty, TypeOK
<1>7. contents[1] = queue[Slot(tail)]
  BY <1>5, OffsetSub, CapacityAssumption DEF contents, TypeOK
<1>8. ASSUME NEW i \in 1..Held'  PROVE contents'[i] = contents[i + 1]
  <2>1. i - 1 \in Nat /\ i - 1 < IndexModulus - 1 /\ i + 1 \in 1..Held
    BY <1>5, <1>6, CapacityAssumption, ModulusAssumption
  <2>2. Offset(Inc(tail), i - 1) = Offset(tail, (i - 1) + 1)
    BY <2>1, OffsetSub DEF TypeOK
  <2>3. contents'[i] = queue[Slot(Offset(Inc(tail), i - 1))]
    BY <1>1 DEF contents
  <2>4. contents[i + 1] = queue[Slot(Offset(tail, (i + 1) - 1))]
    BY <2>1 DEF contents
  <2>5. (i - 1) + 1 = (i + 1) - 1
    BY <1>5, <1>6
  <2>6. QED
    BY <2>2, <2>3, <2>4, <2>5
<1>9. QED
  BY <1>1, <1>2, <1>3, <1>4, <1>5, <1>6, <1>7, <1>8

\* The write of the slot appends the message and disturbs none of the others.
LEMMA WriteSlotContents ==
  ASSUME Inv, NEW p \in Producers, WriteSlot(p)
  PROVE  /\ ~WritePending' /\ Held \in 0..kMask /\ Held' = Held + 1
         /\ \A i \in 1..Held : contents'[i] = contents[i]
         /\ contents'[Held + 1] = <<p, sent[p] + 1>>
         /\ <<p, sent[p] + 1>> \in Messages
         /\ \A th \in Threads \ {p} : ~InCritical(th)
<1> USE DEF Inv
<1> DEFINE message == <<p, sent[p] + 1>>
<1>1. message \in Messages
  <2>1. sent[p] \in 0..MAX_PUSH_MSG_COUNT /\ sent[p] < MAX_PUSH_MSG_COUNT
    BY DEF WriteSlot, TypeOK, QuotaLeft
  <2>2. sent[p] + 1 \in 1..MAX_PUSH_MSG_COUNT
    BY <2>1, QuotaAssumption
  <2>3. QED
    BY <2>2 DEF Messages
<1>2. \A th \in Threads \ {p} : ~InCritical(th)
  BY DEF WriteSlot, MutualExclusion, InCritical, CriticalPCs
<1>3. WritePending /\ head = Inc(h[p])
  BY DEF WriteSlot, WritePending, LocalsCurrent
<1>4. ~WritePending'
  BY <1>2 DEF WriteSlot, Goto, WritePending, TypeOK, InCritical, CriticalPCs
<1>5. /\ queue' = [queue EXCEPT ![Slot(h[p])] = message] /\ Slot(h[p]) \in SlotIds
      /\ UNCHANGED <<head, tail>>
  BY IndexType DEF WriteSlot, TypeOK
<1>6. Held \in 0..kMask /\ Sub(head, tail) = Held + 1
  BY <1>3, HeldType DEF MessagesHeld
<1>7. Held' = Held + 1
  BY <1>4, <1>5, <1>6 DEF Held
<1>8. h[p] = Offset(tail, Held)
  <2>1. h[p] \in Index /\ tail \in Index /\ head = Inc(h[p]) /\ Sub(head, tail) = Held + 1
    BY <1>3, <1>6 DEF TypeOK
  <2>2. QED
    BY <1>6, <2>1, CapacityAssumption, ModulusAssumption DEF Inc, Sub, Offset, Index, kMask
<1>9. contents'[Held + 1] = message
  <2>1. contents'[Held + 1] = queue'[Slot(Offset(tail, (Held + 1) - 1))]
    BY <1>5, <1>6, <1>7 DEF contents
  <2>2. (Held + 1) - 1 = Held
    BY <1>6
  <2>3. queue'[Slot(h[p])] = message
    BY <1>5 DEF TypeOK
  <2>4. QED
    BY <1>8, <2>1, <2>2, <2>3
<1>10. ASSUME NEW i \in 1..Held  PROVE contents'[i] = contents[i]
  <2>1. Slot(h[p]) # Slot(Offset(tail, i - 1))
    BY <1>6, <1>8, QueuedSlotsDiffer DEF TypeOK
  <2>2. Slot(Offset(tail, i - 1)) \in SlotIds
    <3>1. i - 1 \in Index
      BY <1>6, CapacityAssumption, ModulusAssumption DEF Index, kMask
    <3>2. QED
      BY <3>1, OffsetSub, IndexType DEF TypeOK
  <2>3. queue'[Slot(Offset(tail, i - 1))] = queue[Slot(Offset(tail, i - 1))]
    BY <1>5, <2>1, <2>2 DEF TypeOK
  <2>4. i \in 1..Held'
    BY <1>6, <1>7
  <2>5. QED
    BY <1>5, <2>3, <2>4 DEF contents
<1>11. QED
  BY <1>1, <1>2, <1>4, <1>6, <1>7, <1>9, <1>10

\* The read of a pop is of a message and takes nothing else along.
LEMMA ReadSlotContents ==
  ASSUME Inv, NEW c \in Consumers, ReadSlot(c)
  PROVE  /\ UNCHANGED <<head, tail, queue, t>>
         /\ item' = [item EXCEPT ![c] = queue[Slot(t[c])]] /\ queue[Slot(t[c])] \in Messages
         /\ contents' = contents /\ Held' = Held /\ ~WritePending /\ ~WritePending'
         /\ \A th \in Threads \ {c} : ~InCritical(th)
<1> USE DEF Inv
<1>d. c \notin Producers
  BY ThreadAssumption
<1>1. /\ UNCHANGED <<head, tail, queue, t>>
      /\ item' = [item EXCEPT ![c] = queue[Slot(t[c])]] /\ queue[Slot(t[c])] \in Messages
  BY DEF ReadSlot, MessagesHeld
<1>2. \A th \in Threads \ {c} : ~InCritical(th)
  BY DEF ReadSlot, MutualExclusion, InCritical, CriticalPCs
<1>3. ~WritePending
  BY <1>d, <1>2 DEF WritePending, InCritical, CriticalPCs
<1>4. ~WritePending'
  BY <1>d, <1>3 DEF ReadSlot, Goto, WritePending, TypeOK
<1>5. Held' = Held
  BY <1>1, <1>3, <1>4 DEF Held
<1>6. contents' = contents
  BY <1>1, <1>5 DEF contents
<1>7. QED
  BY <1>1, <1>2, <1>3, <1>4, <1>5, <1>6

\* Between tail and head there are messages and nothing else.
LEMMA MessagesStep ==
  ASSUME Inv, [Next]_vars, FuncTypes \subseteq ExclusiveTypes
  PROVE  MessagesHeld'
<1> USE DEF Inv
<1>d. Producers \cap Consumers = {}
  BY ThreadAssumption
<1>1. ASSUME NEW th \in Threads,
             \/ Acquire(th) \/ LoadHead(th) \/ LoadTail(th) \/ UnlockFail(th)
             \/ th \in Producers /\ ReturnPush(th)
             \/ th \in Consumers /\ ReturnPop(th)
      PROVE  MessagesHeld'
  <2>1. /\ UNCHANGED <<head, tail, queue>>
        /\ \A other \in Threads \ {th} : UNCHANGED <<pc[other], t[other]>>
        /\ \A c \in Consumers \ {th} : UNCHANGED item[c]
        /\ pc'[th] \notin {"access_slot", "unlock_ok"}
        /\ contents' = contents /\ WritePending' = WritePending
    BY <1>1, QuietStep
  <2>2. Held' = Held
    BY <2>1 DEF Held
  <2>3. QED
    BY <2>1, <2>2 DEF MessagesHeld
<1>2. ASSUME NEW p \in Producers, StoreHead(p) PROVE MessagesHeld'
  <2>1. /\ tail' = tail /\ head' # tail /\ Held' = Held /\ contents' = contents
        /\ \A th \in Threads \ {p} : ~InCritical(th)
    BY <1>2, StoreHeadContents DEF StoreHead
  <2>2. \A c \in Consumers : pc'[c] \notin {"access_slot", "unlock_ok"}
    BY <1>2, <1>d, <2>1 DEF StoreHead, Goto, TypeOK, InCritical, CriticalPCs
  <2>3. QED
    BY <2>1, <2>2 DEF MessagesHeld
<1>3. ASSUME NEW c \in Consumers, StoreTail(c) PROVE MessagesHeld'
  <2>1. /\ t[c] = tail /\ ~WritePending' /\ Held \in Nat \ {0} /\ Held' = Held - 1
        /\ contents[1] = queue[Slot(tail)]
        /\ \A i \in 1..Held' : contents'[i] = contents[i + 1]
        /\ \A th \in Threads \ {c} : ~InCritical(th)
    BY <1>3, StoreTailContents
  <2>2. \A i \in 1..Held' : contents'[i] \in Messages
    BY <2>1 DEF MessagesHeld
  <2>3. queue'[Slot(t'[c])] \in Messages /\ pc'[c] = "access_slot"
    BY <1>3, <2>1 DEF StoreTail, Goto, MessagesHeld, localVars, TypeOK
  <2>4. \A other \in Consumers \ {c} : pc'[other] \notin {"access_slot", "unlock_ok"}
    BY <1>3, <2>1 DEF StoreTail, Goto, TypeOK, InCritical, CriticalPCs
  <2>5. QED
    BY <2>1, <2>2, <2>3, <2>4 DEF MessagesHeld
<1>4. ASSUME NEW p \in Producers, WriteSlot(p) PROVE MessagesHeld'
  <2>1. /\ ~WritePending' /\ Held \in 0..kMask /\ Held' = Held + 1
        /\ \A i \in 1..Held : contents'[i] = contents[i]
        /\ contents'[Held + 1] \in Messages
        /\ \A th \in Threads \ {p} : ~InCritical(th)
    BY <1>4, WriteSlotContents
  <2>2. \A i \in 1..Held' : contents'[i] \in Messages
    BY <2>1, CapacityAssumption DEF MessagesHeld, kMask
  <2>3. \A c \in Consumers : pc'[c] \notin {"access_slot", "unlock_ok"}
    BY <1>4, <1>d, <2>1 DEF WriteSlot, Goto, TypeOK, InCritical, CriticalPCs
  <2>4. QED
    BY <2>1, <2>2, <2>3 DEF MessagesHeld
<1>5. ASSUME NEW c \in Consumers, ReadSlot(c) PROVE MessagesHeld'
  <2>1. /\ item' = [item EXCEPT ![c] = queue[Slot(t[c])]] /\ queue[Slot(t[c])] \in Messages
        /\ contents' = contents /\ Held' = Held /\ ~WritePending'
        /\ \A th \in Threads \ {c} : ~InCritical(th)
    BY <1>5, ReadSlotContents
  <2>2. item'[c] \in Messages /\ pc'[c] = "unlock_ok"
    BY <1>5, <2>1 DEF ReadSlot, Goto, TypeOK
  <2>3. \A other \in Consumers \ {c} : pc'[other] \notin {"access_slot", "unlock_ok"}
    BY <1>5, <2>1 DEF ReadSlot, Goto, TypeOK, InCritical, CriticalPCs
  <2>4. QED
    BY <2>1, <2>2, <2>3 DEF MessagesHeld
<1>6. CASE UNCHANGED vars
  BY <1>6 DEF vars, MessagesHeld, contents, Held, WritePending
<1>7. QED
  BY <1>1, <1>2, <1>3, <1>4, <1>5, <1>6 DEF Next, Push, Pop, Joined

\* A fresh queue satisfies the inductive invariant.
LEMMA InitInv == ASSUME Init, FuncTypes \subseteq ExclusiveTypes PROVE Inv
<1>1. Entry \in PCs \ CriticalPCs /\ Entry \notin {"test", "set", "done"}
  BY QuotaAssumption DEF Init, InitWith, Entry, PCs, CriticalPCs, AllFuncTypes, ExclusiveTypes
<1>2. /\ Entry \in {"cas", "xchg", "wait"} => funcType \in {"spin", "spin1", "spin2", "spin3"}
      /\ Entry = "lock" => funcType = "mutex"
  BY QuotaAssumption DEF Init, InitWith, Entry, AllFuncTypes, ExclusiveTypes
<1>3. TypeOK /\ QuotaLeft
  BY <1>1, IndexType, QuotaAssumption DEF Init, InitWith, TypeOK, QuotaLeft
<1>4. LockOwned /\ MutualExclusion /\ LocalsCurrent
  BY <1>1, <1>2 DEF Init, InitWith, LockOwned, MutualExclusion, LocalsCurrent, InCritical, CriticalPCs
<1>5. OccupancyBound
  BY IndexType, SubType, CapacityAssumption DEF Init, InitWith, OccupancyBound
<1>6. MessagesHeld
  <2>1. \A th \in Threads : pc[th] \notin {"access_slot", "unlock_ok"}
    BY <1>1 DEF Init, InitWith, CriticalPCs
  <2>2. ~WritePending /\ Sub(head, tail) = 0
    BY <2>1, IndexType, SubType DEF Init, InitWith, WritePending
  <2>3. QED
    BY <2>1, <2>2 DEF MessagesHeld, Held
<1>7. QED
  BY <1>3, <1>4, <1>5, <1>6 DEF Inv

\* Whatever the test does with any of the queue's seven push/pop pairs, every
\* variable stays in its type.
THEOREM TypeCorrect == Spec => []TypeOK
<1>1. Init => TypeOK /\ QuotaLeft
  BY IndexType, EntryType, QuotaAssumption DEF Init, InitWith, TypeOK, QuotaLeft
<1>2. TypeOK /\ QuotaLeft /\ [Next]_vars => (TypeOK /\ QuotaLeft)'
  BY TypeStep
<1>3. QED
  BY <1>1, <1>2, PTL DEF Spec

\* The inductive invariant of the pairs that take their lock atomically.
THEOREM Invariance ==
  ASSUME FuncTypes \subseteq ExclusiveTypes
  PROVE  Spec => []Inv
<1>1. Init => Inv
  BY InitInv
<1>2. Inv /\ [Next]_vars => Inv'
  BY TypeStep, LockStep, BodyStep, MessagesStep DEF Inv
<1>3. QED
  BY <1>1, <1>2, PTL DEF Spec

\* spin, spin1, spin2, spin3 and mutex admit one thread at a time between lock
\* and unlock (RingQueue.h:382-989, 1161-1207).
THEOREM Exclusion ==
  ASSUME FuncTypes \subseteq ExclusiveTypes
  PROVE  Spec => []MutualExclusion
<1>1. Inv => MutualExclusion
  BY DEF Inv
<1>2. QED
  BY Invariance, <1>1, PTL

\* The indices of the same pairs never describe more messages than slots, also
\* when head and tail wrap.
THEOREM Bounded ==
  ASSUME FuncTypes \subseteq ExclusiveTypes
  PROVE  Spec => []OccupancyBound
<1>1. Inv => OccupancyBound
  BY DEF Inv
<1>2. QED
  BY Invariance, <1>1, PTL

\* spin2's releasing exchange always finds the lock word set: the loop at
\* RingQueue.h:732-734 and 815-817 neither prints nor repeats.
THEOREM SpinRelease ==
  ASSUME FuncTypes \subseteq ExclusiveTypes
  PROVE  Spec => []ReleaseFindsLocked
<1>1. Inv => ReleaseFindsLocked
  BY DEF Inv, LockOwned, ReleaseFindsLocked, InCritical, CriticalPCs
<1>2. QED
  BY Invariance, <1>1, PTL

-------------------------------------------------------------------------------
(* The locked ring implements the bounded queue: the write of the slot is   *)
(* Put, the store of tail is Take, every other step stutters.               *)

\* Quiet steps change nothing in the abstract queue: a push that returns moves its
\* message from the pc to the count, a pop from its local to its list.
LEMMA QuietAbstract ==
  ASSUME Inv, FuncTypes \subseteq ExclusiveTypes, NEW th \in Threads,
         \/ Acquire(th) \/ LoadHead(th) \/ LoadTail(th) \/ UnlockFail(th)
         \/ th \in Producers /\ ReturnPush(th)
         \/ th \in Consumers /\ ReturnPop(th)
  PROVE  UNCHANGED <<contents, pushed, popped>>
<1> USE DEF Inv
<1>d. Producers \cap Consumers = {}
  BY ThreadAssumption
<1>1. /\ UNCHANGED <<head, tail, queue>>
      /\ \A other \in Threads \ {th} : UNCHANGED <<pc[other], t[other]>>
      /\ \A c \in Consumers \ {th} : UNCHANGED item[c]
      /\ pc[th] # "access_slot" /\ pc'[th] \notin {"access_slot", "unlock_ok"}
      /\ contents' = contents
  BY QuietStep
<1>2. CASE ~(th \in Producers /\ ReturnPush(th)) /\ ~(th \in Consumers /\ ReturnPop(th))
  <2>1. pc[th] # "unlock_ok" /\ UNCHANGED <<sent, popmsg_list>>
    BY <1>2 DEF Acquire, LockCAS, LockCASFails, WaitUnlocked, LockXchg, TestUnlocked,
                SetLocked, MutexLock, AcquireUnchanged, LoadHead, LoadTail, UnlockFail, harnessVars
  <2>2. QED
    BY <1>1, <2>1 DEF pushed, popped
<1>3. CASE th \in Producers /\ ReturnPush(th)
  <2>1. /\ pc[th] = "unlock_ok" /\ popmsg_list' = popmsg_list
        /\ sent' = [sent EXCEPT ![th] = sent[th] + 1]
    BY <1>3 DEF ReturnPush
  <2>2. pushed' = pushed
    BY <1>1, <1>3, <2>1 DEF pushed, TypeOK
  <2>3. popped' = popped
    BY <1>1, <1>3, <1>d, <2>1 DEF popped
  <2>4. QED
    BY <1>1, <2>2, <2>3
<1>4. CASE th \in Consumers /\ ReturnPop(th)
  <2>1. item[th] # NULL
    BY <1>4, ThreadAssumption DEF ReturnPop, MessagesHeld, Messages
  <2>2. /\ pc[th] = "unlock_ok" /\ sent' = sent
        /\ popmsg_list' = [popmsg_list EXCEPT ![th] = Append(popmsg_list[th], item[th])]
    BY <1>4, <2>1 DEF ReturnPop
  <2>3. pushed' = pushed
    BY <1>1, <1>4, <1>d, <2>2 DEF pushed
  <2>4. popped' = popped
    BY <1>1, <1>4, <2>2 DEF popped, TypeOK
  <2>5. QED
    BY <1>1, <2>3, <2>4
<1>5. QED
  BY <1>2, <1>3, <1>4

\* A producer's write of its slot puts its next message at the end of the queue.
LEMMA WriteIsPut ==
  ASSUME Inv, NEW p \in Producers, WriteSlot(p)
  PROVE  Abstract!Put(p)
<1> USE DEF Inv
<1> DEFINE message == <<p, sent[p] + 1>>
<1>d. p \notin Consumers
  BY ThreadAssumption
<1>1. /\ Held \in 0..kMask /\ Held' = Held + 1
      /\ \A i \in 1..Held : contents'[i] = contents[i]
      /\ contents'[Held + 1] = message /\ message \in Messages
  BY WriteSlotContents
<1>2. contents \in Seq(Messages) /\ Len(contents) = Held
  BY <1>1, ContentsType DEF MessagesHeld, kMask
<1>3. Held < kCapacity
  BY <1>1, CapacityAssumption DEF kMask
<1>4. contents' = Append(contents, message)
  <2>1. /\ Append(contents, message) \in Seq(Messages)
        /\ Len(Append(contents, message)) = Held + 1
        /\ \A i \in 1..Held : Append(contents, message)[i] = contents[i]
        /\ Append(contents, message)[Held + 1] = message
    BY <1>1, <1>2, AppendProperties
  <2>2. \A i \in 1..(Held + 1) : contents'[i] \in Messages
    BY <1>1, <1>3 DEF MessagesHeld
  <2>3. contents' \in Seq(Messages) /\ Len(contents') = Held + 1
    <3>1. contents' \in [1..(Held + 1) -> Messages]
      BY <1>1, <2>2 DEF contents
    <3>2. contents' \in Seq(Messages)
      BY <1>1, <3>1, SeqDef
    <3>3. Len(contents') \in Nat /\ 1..Len(contents') = 1..(Held + 1)
      BY <3>1, <3>2, LenProperties
    <3>4. QED
      BY <1>1, <3>2, <3>3
  <2>4. \A i \in 1..(Held + 1) : contents'[i] = Append(contents, message)[i]
    BY <1>1, <2>1
  <2>5. QED
    BY <2>1, <2>3, <2>4, SeqEqual
<1>5. pc[p] = "access_slot" /\ pc' = [pc EXCEPT ![p] = "unlock_ok"]
      /\ UNCHANGED <<sent, popmsg_list, t, item>>
  BY DEF WriteSlot, Goto, localVars, harnessVars
<1>6. pushed[p] = sent[p] /\ pushed' = [pushed EXCEPT ![p] = pushed[p] + 1]
  BY <1>5 DEF pushed, TypeOK
<1>7. popped' = popped
  <2>1. \A c \in Consumers : pc[c] # "access_slot" /\ pc'[c] = pc[c]
    BY <1>d, <1>5, WriteSlotContents DEF TypeOK, InCritical, CriticalPCs
  <2>2. QED
    BY <1>5, <2>1 DEF popped
<1>8. QED
  BY <1>2, <1>3, <1>4, <1>6, <1>7 DEF Abstract!Put

\* A consumer's store of tail takes the message at the front of the queue.
LEMMA StoreTailIsTake ==
  ASSUME Inv, NEW c \in Consumers, StoreTail(c)
  PROVE  Abstract!Take(c)
<1> USE DEF Inv
<1>d. c \notin Producers
  BY ThreadAssumption
<1>1. /\ t[c] = tail /\ Held \in Nat \ {0} /\ Held' = Held - 1
      /\ contents[1] = queue[Slot(tail)]
      /\ \A i \in 1..Held' : contents'[i] = contents[i + 1]
  BY StoreTailContents
<1>2. contents \in Seq(Messages) /\ Len(contents) = Held /\ contents # << >>
  BY <1>1, ContentsType, EmptySeq DEF MessagesHeld
<1>3. contents' = Tail(contents)
  <2>1. /\ Tail(contents) \in Seq(Messages) /\ Len(Tail(contents)) = Held - 1
        /\ \A i \in 1..(Held - 1) : Tail(contents)[i] = contents[i + 1]
    BY <1>2, HeadTailProperties
  <2>2. contents' \in [1..(Held - 1) -> Messages]
    <3>1. \A i \in 1..(Held - 1) : contents'[i] \in Messages
      BY <1>1 DEF MessagesHeld
    <3>2. QED
      BY <1>1, <3>1 DEF contents
  <2>3. contents' \in Seq(Messages)
    BY <1>1, <2>2, SeqDef
  <2>4. Len(contents') \in Nat /\ 1..Len(contents') = 1..(Held - 1)
    BY <2>2, <2>3, LenProperties
  <2>5. Len(contents') = Held - 1
    BY <1>1, <2>4
  <2>6. \A i \in 1..(Held - 1) : contents'[i] = Tail(contents)[i]
    BY <1>1, <2>1
  <2>7. QED
    BY <2>1, <2>3, <2>5, <2>6, SeqEqual
<1>4. Head(contents) = queue[Slot(t[c])]
  BY <1>1, <1>2
<1>5. pc[c] = "store_index" /\ pc' = [pc EXCEPT ![c] = "access_slot"]
      /\ UNCHANGED <<queue, sent, popmsg_list, t, item>>
  BY DEF StoreTail, Goto, localVars, harnessVars
<1>6. popped' = [popped EXCEPT ![c] = Append(popped[c], Head(contents))]
  BY <1>4, <1>5 DEF popped, TypeOK
<1>7. pushed' = pushed
  BY <1>d, <1>5 DEF pushed, TypeOK
<1>8. QED
  BY <1>2, <1>3, <1>6, <1>7 DEF Abstract!Take

\* The pairs that take their lock atomically implement the bounded queue, for any
\* number of threads, capacity and index width, also when head and tail wrap
\* (RingQueue.h:382-989, 1161-1207): messages come out in the order they went in,
\* each once, and never more than kCapacity of them wait.
THEOREM Refinement ==
  ASSUME FuncTypes \subseteq ExclusiveTypes
  PROVE  Spec => RefinesBoundedQueue
<1>1. Init => Abstract!Init
  <2>1. SUFFICES ASSUME Init  PROVE Abstract!Init
    OBVIOUS
  <2>2. \A th \in Threads : pc[th] \notin {"access_slot", "unlock_ok"}
    BY <2>1, QuotaAssumption DEF Init, InitWith, Entry, AllFuncTypes, ExclusiveTypes
  <2>3. ~WritePending /\ Sub(head, tail) = 0
    BY <2>1, <2>2, IndexType, SubType DEF Init, InitWith, WritePending
  <2>4. contents = << >>
    <3>1. Held = 0
      BY <2>1, <2>3, InitInv, HeldType DEF Inv
    <3>2. contents \in Seq(Messages) /\ Len(contents) = 0
      BY <3>1, ContentsType
    <3>3. QED
      BY <3>2, EmptySeq
  <2>5. pushed = [p \in Producers |-> 0] /\ popped = [c \in Consumers |-> << >>]
    BY <2>1, <2>2 DEF Init, InitWith, pushed, popped
  <2>6. QED
    BY <2>4, <2>5 DEF Abstract!Init
<1>2. Inv /\ [Next]_vars => [Abstract!Next]_Abstract!vars
  <2>1. SUFFICES ASSUME Inv, [Next]_vars
                 PROVE  Abstract!Next \/ UNCHANGED <<contents, pushed, popped>>
    BY DEF Abstract!vars
  <2>2. ASSUME NEW th \in Threads,
               \/ Acquire(th) \/ LoadHead(th) \/ LoadTail(th) \/ UnlockFail(th)
               \/ th \in Producers /\ ReturnPush(th)
               \/ th \in Consumers /\ ReturnPop(th)
        PROVE  UNCHANGED <<contents, pushed, popped>>
    BY <2>1, <2>2, QuietAbstract
  <2>3. ASSUME NEW p \in Producers, StoreHead(p)
        PROVE  UNCHANGED <<contents, pushed, popped>>
    <3>1. pc[p] = "store_index" /\ pc' = [pc EXCEPT ![p] = "access_slot"]
          /\ UNCHANGED <<queue, t, item, sent, popmsg_list>> /\ p \notin Consumers
      BY <2>3, ThreadAssumption DEF StoreHead, Goto, localVars, harnessVars
    <3>2. pushed' = pushed /\ popped' = popped
      BY <2>1, <3>1 DEF pushed, popped, Inv, TypeOK
    <3>3. QED
      BY <2>1, <2>3, <3>2, StoreHeadContents
  <2>4. ASSUME NEW p \in Producers, WriteSlot(p)  PROVE Abstract!Next
    BY <2>1, <2>4, WriteIsPut DEF Abstract!Next
  <2>5. ASSUME NEW c \in Consumers, StoreTail(c)  PROVE Abstract!Next
    BY <2>1, <2>5, StoreTailIsTake DEF Abstract!Next
  <2>6. ASSUME NEW c \in Consumers, ReadSlot(c)
        PROVE  UNCHANGED <<contents, pushed, popped>>
    <3>1. /\ UNCHANGED <<queue, t>> /\ contents' = contents
          /\ item' = [item EXCEPT ![c] = queue[Slot(t[c])]]
      BY <2>1, <2>6, ReadSlotContents
    <3>2. pc[c] = "access_slot" /\ pc' = [pc EXCEPT ![c] = "unlock_ok"]
          /\ UNCHANGED <<sent, popmsg_list>> /\ c \notin Producers
      BY <2>6, ThreadAssumption DEF ReadSlot, Goto, harnessVars
    <3>3. pushed' = pushed
      BY <2>1, <3>2 DEF pushed, Inv, TypeOK
    <3>4. popped' = popped
      BY <2>1, <3>1, <3>2 DEF popped, Inv, TypeOK
    <3>5. QED
      BY <3>1, <3>3, <3>4
  <2>7. CASE UNCHANGED vars
    BY <2>7 DEF vars, contents, Held, WritePending, pushed, popped
  <2>8. QED
    BY <2>1, <2>2, <2>3, <2>4, <2>5, <2>6, <2>7 DEF Next, Push, Pop, Joined
<1>3. QED
  BY <1>1, <1>2, Invariance, PTL DEF Spec, RefinesBoundedQueue, Abstract!Spec

-------------------------------------------------------------------------------
(* Refusals below the wrap of the indices.                                  *)

\* Below the wrap a difference of indices is a difference.
LEMMA PlainSub ==
  /\ \A i \in Index : i \in Nat /\ i < IndexModulus
  /\ \A x, y \in Index : y <= x => Sub(x, y) = x - y
  /\ kCapacity \in Nat /\ kMask \in Nat /\ kMask = kCapacity - 1 /\ IndexModulus \in Nat
  BY CapacityAssumption, ModulusAssumption DEF Index, Sub, kMask

\* A test whose messages are fewer than the values of an index never wraps one.
LEMMA ClaimLimit ==
  ASSUME IsFiniteSet(Producers), Cardinality(Producers) * MAX_PUSH_MSG_COUNT < IndexModulus
  PROVE  \A S \in SUBSET Messages :
            IsFiniteSet(S) /\ Cardinality(S) \in Nat /\ Cardinality(S) < IndexModulus
<1>1. /\ IsFiniteSet(1..MAX_PUSH_MSG_COUNT)
      /\ Cardinality(1..MAX_PUSH_MSG_COUNT) = MAX_PUSH_MSG_COUNT
  <2>1. /\ IsFiniteSet(1..MAX_PUSH_MSG_COUNT)
        /\ Cardinality(1..MAX_PUSH_MSG_COUNT) =
             IF 1 > MAX_PUSH_MSG_COUNT THEN 0 ELSE MAX_PUSH_MSG_COUNT - 1 + 1
    BY QuotaAssumption, FS_Interval
  <2>2. QED
    BY <2>1, QuotaAssumption
<1>2. /\ IsFiniteSet(Messages)
      /\ Cardinality(Messages) = Cardinality(Producers) * MAX_PUSH_MSG_COUNT
  BY <1>1, FS_Product DEF Messages
<1>3. ASSUME NEW S \in SUBSET Messages
      PROVE  IsFiniteSet(S) /\ Cardinality(S) \in Nat /\ Cardinality(S) < IndexModulus
  <2>1. IsFiniteSet(S) /\ Cardinality(S) <= Cardinality(Messages)
    BY <1>2, <1>3, FS_Subset
  <2>2. Cardinality(S) \in Nat /\ Cardinality(Messages) \in Nat
    BY <1>2, <2>1, FS_CardinalityType
  <2>3. QED
    BY <1>2, <2>1, <2>2, ModulusAssumption
<1>4. QED
  BY <1>3

\* A step that moves neither index, and claims nothing, leaves the count alone.
LEMMA CountKept ==
  ASSUME IndicesCounted, UNCHANGED <<head, tail>>, Claimed' = Claimed
  PROVE  IndicesCounted'
  BY DEF IndicesCounted

\* A push that returns moves its message from the pc to the count.
LEMMA ClaimMoves ==
  ASSUME TypeOK, NEW p \in Producers,
         pc[p] = "unlock_ok", pc'[p] \notin {"access_slot", "unlock_ok"},
         sent' = [sent EXCEPT ![p] = sent[p] + 1],
         \A q \in Producers \ {p} : pc'[q] = pc[q]
  PROVE  Claimed' = Claimed
<1>1. sent'[p] = sent[p] + 1 /\ sent[p] \in Nat
  BY DEF TypeOK
<1>2. \A q \in Producers \ {p} : sent'[q] = sent[q] /\ sent[q] \in Nat
  BY DEF TypeOK
<1>3. ASSUME NEW m \in Messages  PROVE m \in Claimed' <=> m \in Claimed
  <2>1. m[1] \in Producers /\ m[2] \in Nat
    BY DEF Messages
  <2>2. CASE m[1] = p
    BY <1>1, <2>1, <2>2 DEF Claimed, Messages
  <2>3. CASE m[1] # p
    BY <1>2, <2>1, <2>3 DEF Claimed, Messages
  <2>4. QED
    BY <2>2, <2>3
<1>4. QED
  BY <1>3 DEF Claimed, Messages

\* The store of head counts one message more, and is no wrap.
LEMMA ClaimCounted ==
  ASSUME TypeOK, QuotaLeft, IndicesCounted, NEW p \in Producers,
         pc[p] = "store_index", pc' = [pc EXCEPT ![p] = "access_slot"],
         head' = Inc(head), sent' = sent,
         IsFiniteSet(Producers), Cardinality(Producers) * MAX_PUSH_MSG_COUNT < IndexModulus
  PROVE  Cardinality(Claimed') = head + 1 /\ head' = head + 1 /\ head \in Nat
<1>1. sent[p] \in 0..MAX_PUSH_MSG_COUNT /\ sent[p] < MAX_PUSH_MSG_COUNT
  BY DEF TypeOK, QuotaLeft
<1>2. <<p, sent[p] + 1>> \in Messages \ Claimed
  <2>1. sent[p] + 1 \in 1..MAX_PUSH_MSG_COUNT /\ ~(sent[p] + 1 <= sent[p] + 0)
    BY <1>1, QuotaAssumption
  <2>2. QED
    BY <2>1 DEF Messages, Claimed
<1>3. Claimed' = Claimed \cup {<<p, sent[p] + 1>>}
  BY <1>1, <1>2 DEF Claimed, Messages, TypeOK
<1>4. /\ IsFiniteSet(Claimed) /\ Cardinality(Claimed) \in Nat
      /\ Cardinality(Claimed') < IndexModulus
  <2>1. Claimed \in SUBSET Messages /\ Claimed' \in SUBSET Messages
    BY <1>2, <1>3 DEF Claimed
  <2>2. QED
    BY <2>1, ClaimLimit
<1>5. Cardinality(Claimed') = head + 1
  BY <1>2, <1>3, <1>4, FS_AddElement DEF IndicesCounted
<1>6. QED
  BY <1>4, <1>5, ModulusAssumption DEF IndicesCounted, Index, Inc

\* Nothing is claimed before the first call.
LEMMA InitCount ==
  ASSUME NEW started, InitWith(started),
         \A p \in Producers : pc[p] \notin {"access_slot", "unlock_ok"}
  PROVE  IndicesCounted
<1>1. \A p \in Producers : sent[p] = 0
  BY DEF InitWith
<1>2. \A m \in Messages : m[1] \in Producers /\ ~(m[2] <= 0 + 0)
  BY QuotaAssumption DEF Messages
<1>3. Claimed = {}
  BY <1>1, <1>2 DEF Claimed
<1>4. QED
  BY <1>3, FS_EmptySet DEF InitWith, IndicesCounted

\* Below the wrap the store of head counts its message, the store of tail finds one
\* left, and what refuses a call stays so until its thread gives the lock back.
LEMMA RefusalStep ==
  ASSUME RefusalInv, [Next]_vars, FuncTypes \subseteq ExclusiveTypes,
         IsFiniteSet(Producers), Cardinality(Producers) * MAX_PUSH_MSG_COUNT < IndexModulus
  PROVE  IndicesCounted' /\ RefusalCurrent'
<1> USE DEF RefusalInv, Inv
<1>d. Producers \cap Consumers = {}
  BY ThreadAssumption
<1>e. Entry \notin CriticalPCs
  BY QuotaAssumption DEF TypeOK, Entry, CriticalPCs, ExclusiveTypes, AllFuncTypes
\* Steps outside the stores of the indices.
<1>1. ASSUME NEW th \in Threads,
             \/ Acquire(th) \/ LoadHead(th) \/ UnlockFail(th)
             \/ th \in Consumers /\ (ReadSlot(th) \/ ReturnPop(th) \/ LoadTail(th))
             \/ th \in Producers /\ (LoadTail(th) \/ WriteSlot(th) \/ ReturnPush(th))
      PROVE  IndicesCounted' /\ RefusalCurrent'
  <2>1. UNCHANGED <<head, tail>>
    BY <1>1 DEF Acquire, LockCAS, LockCASFails, WaitUnlocked, LockXchg, TestUnlocked, SetLocked,
                MutexLock, AcquireUnchanged, LoadHead, LoadTail, UnlockFail, WriteSlot,
                ReturnPush, ReadSlot, ReturnPop
  <2>2. \A other \in Threads \ {th} : pc'[other] = pc[other]
    BY <1>1 DEF Acquire, LockCAS, LockCASFails, WaitUnlocked, LockXchg, TestUnlocked, SetLocked,
                MutexLock, LoadHead, LoadTail, UnlockFail, WriteSlot, ReturnPush, ReadSlot,
                ReturnPop, Goto, TypeOK
  <2>3. Claimed' = Claimed
    <3>1. CASE th \in Producers /\ ReturnPush(th)
      <4>1. /\ pc[th] = "unlock_ok" /\ pc'[th] \notin {"access_slot", "unlock_ok"}
            /\ sent' = [sent EXCEPT ![th] = sent[th] + 1]
        BY <1>1, <1>e, <3>1 DEF ReturnPush, Goto, CriticalPCs, TypeOK
      <4>2. QED
        BY <2>2, <3>1, <4>1, ClaimMoves
    <3>2. CASE ~(th \in Producers /\ ReturnPush(th))
      <4>1. sent' = sent
        BY <1>1, <3>2 DEF Acquire, LockCAS, LockCASFails, WaitUnlocked, LockXchg, TestUnlocked,
              SetLocked, MutexLock, AcquireUnchanged, LoadHead, LoadTail, UnlockFail, WriteSlot,
              ReadSlot, ReturnPop, harnessVars
      <4>2. th \in Producers => (pc'[th] \in {"access_slot", "unlock_ok"}
                                   <=> pc[th] \in {"access_slot", "unlock_ok"})
        BY <1>1, <1>d, <1>e, <3>2
           DEF Acquire, LockCAS, LockCASFails, WaitUnlocked, LockXchg, TestUnlocked, SetLocked,
               MutexLock, LoadHead, LoadTail, UnlockFail, WriteSlot, Goto, CriticalPCs, TypeOK
      <4>3. \A p \in Producers : pc'[p] \in {"access_slot", "unlock_ok"}
                                   <=> pc[p] \in {"access_slot", "unlock_ok"}
        BY <2>2, <4>2
      <4>4. QED
        BY <4>1, <4>3 DEF Claimed, Messages
    <3>3. QED
      BY <3>1, <3>2
  <2>4. IndicesCounted'
    BY <2>1, <2>3, CountKept
  <2>5. pc'[th] = "unlock_fail" =>
          IF th \in Producers THEN QueueFull(head, tail) ELSE QueueEmpty(head, tail)
    <3>1. CASE LoadTail(th)
      BY <3>1 DEF LoadTail, Goto, TypeOK, LocalsCurrent
    <3>2. CASE ~LoadTail(th)
      BY <1>1, <1>e, <3>2
         DEF Acquire, LockCAS, LockCASFails, WaitUnlocked, LockXchg, TestUnlocked, SetLocked,
             MutexLock, LoadHead, UnlockFail, WriteSlot, ReturnPush, ReadSlot, ReturnPop, Goto,
             CriticalPCs, TypeOK
    <3>3. QED
      BY <3>1, <3>2
  <2>6. RefusalCurrent'
    BY <2>1, <2>2, <2>5 DEF RefusalCurrent, QueueFull, QueueEmpty
  <2>7. QED
    BY <2>4, <2>6
<1>2. ASSUME NEW p \in Producers, StoreHead(p)  PROVE IndicesCounted' /\ RefusalCurrent'
  <2>1. /\ pc[p] = "store_index" /\ pc' = [pc EXCEPT ![p] = "access_slot"]
        /\ head' = Inc(head) /\ tail' = tail /\ sent' = sent
        /\ \A th \in Threads \ {p} : ~InCritical(th)
    BY <1>2, StoreHeadContents DEF StoreHead, Goto, harnessVars
  <2>2. Cardinality(Claimed') = head + 1 /\ head' = head + 1 /\ head \in Nat
    BY <2>1, ClaimCounted
  <2>3. tail \in Nat /\ tail <= head
    BY PlainSub DEF TypeOK, IndicesCounted
  <2>4. IndicesCounted'
    BY <2>1, <2>2, <2>3 DEF IndicesCounted
  <2>5. RefusalCurrent'
    BY <2>1 DEF RefusalCurrent, InCritical, CriticalPCs, TypeOK
  <2>6. QED
    BY <2>4, <2>5
<1>3. ASSUME NEW c \in Consumers, StoreTail(c)  PROVE IndicesCounted' /\ RefusalCurrent'
  <2>1. /\ pc[c] = "store_index" /\ pc' = [pc EXCEPT ![c] = "access_slot"]
        /\ tail' = Inc(tail) /\ head' = head /\ sent' = sent
        /\ \A th \in Threads \ {c} : ~InCritical(th)
    BY <1>3, StoreTailContents DEF StoreTail, Goto, harnessVars
  <2>2. ~QueueEmpty(head, tail)
    BY <1>d, <2>1 DEF LocalsCurrent
  <2>3. Claimed' = Claimed
    BY <1>d, <2>1 DEF Claimed, Messages, TypeOK
  <2>4. tail' = tail + 1 /\ tail + 1 <= head
    BY <2>1, <2>2, ModulusAssumption DEF TypeOK, Index, Inc, QueueEmpty, IndicesCounted
  <2>5. IndicesCounted'
    BY <2>1, <2>3, <2>4 DEF IndicesCounted
  <2>6. RefusalCurrent'
    BY <2>1 DEF RefusalCurrent, InCritical, CriticalPCs, TypeOK
  <2>7. QED
    BY <2>5, <2>6
<1>4. CASE UNCHANGED vars
  BY <1>4 DEF vars, IndicesCounted, Claimed, RefusalCurrent, QueueFull, QueueEmpty
<1>5. QED
  BY <1>1, <1>2, <1>3, <1>4 DEF Next, Push, Pop, Joined

\* Below the wrap a push of these pairs answers -1 only to a full ring, a pop NULL
\* only to an empty one, and no ring is ever both (RingQueue.h:471 makes one of it at
\* the wrap).
THEOREM Refusals ==
  ASSUME FuncTypes \subseteq ExclusiveTypes,
         IsFiniteSet(Producers), Cardinality(Producers) * MAX_PUSH_MSG_COUNT < IndexModulus
  PROVE  Spec => []RefusalsSound
<1>1. Init => RefusalInv
  <2>1. SUFFICES ASSUME Init  PROVE RefusalInv
    OBVIOUS
  <2>2. \A th \in Threads : pc[th] \notin CriticalPCs
    BY <2>1, QuotaAssumption DEF Init, InitWith, Entry, AllFuncTypes, ExclusiveTypes, CriticalPCs
  <2>3. IndicesCounted
    BY <2>1, <2>2, InitCount DEF Init, CriticalPCs
  <2>4. RefusalCurrent
    BY <2>2 DEF RefusalCurrent, CriticalPCs
  <2>5. QED
    BY <2>1, <2>3, <2>4, InitInv DEF RefusalInv
<1>2. RefusalInv /\ [Next]_vars => RefusalInv'
  BY RefusalStep, TypeStep, LockStep, BodyStep, MessagesStep DEF RefusalInv, Inv
<1>3. ASSUME RefusalInv  PROVE RefusalsSound
  <2>1. /\ head \in Nat /\ tail \in Nat /\ tail <= head /\ head \in Index /\ tail \in Index
        /\ Sub(head, tail) \in Nat /\ (Sub(head, tail) = 0 <=> head = tail)
        /\ Sub(head, tail) <= kCapacity /\ kMask \in Nat /\ kMask = kCapacity - 1
    <3>1. /\ head \in Index /\ tail \in Index /\ tail <= head
          /\ Sub(head, tail) <= kCapacity
      BY <1>3 DEF RefusalInv, Inv, TypeOK, IndicesCounted, OccupancyBound
    <3>2. Sub(head, tail) \in Index /\ (Sub(head, tail) = 0 <=> head = tail)
      BY <3>1, SubType
    <3>3. \A i \in Index : i \in Nat
      BY ModulusAssumption DEF Index
    <3>4. QED
      BY <3>1, <3>2, <3>3, CapacityAssumption DEF kMask
  <2>2. QueueEmpty(head, tail) => head = tail
    BY <2>1 DEF QueueEmpty
  <2>3. QueueFull(head, tail) => Sub(head, tail) = kCapacity
    BY <2>1, CapacityAssumption DEF QueueFull
  <2>4. NotWedged
    BY <2>1, <2>2 DEF NotWedged, QueueFull
  <2>5. ASSUME NEW th \in Threads, pc[th] = "unlock_fail"
        PROVE  IF th \in Producers THEN Len(contents) = kCapacity ELSE contents = << >>
    <3>1. ~WritePending
      BY <1>3, <2>5 DEF RefusalInv, Inv, MutualExclusion, InCritical, CriticalPCs, WritePending
    <3>2. Held = Sub(head, tail) /\ Held \in Nat
      BY <1>3, <2>1, <3>1, HeldType DEF RefusalInv, Inv
    <3>3. contents \in Seq(Messages) /\ Len(contents) = Held
      BY <1>3, <3>2, ContentsType DEF RefusalInv, Inv, MessagesHeld
    <3>4. CASE th \in Producers
      BY <1>3, <2>3, <2>5, <3>2, <3>3, <3>4 DEF RefusalInv, RefusalCurrent
    <3>5. CASE th \notin Producers
      <4>1. head = tail
        BY <1>3, <2>2, <2>5, <3>5 DEF RefusalInv, RefusalCurrent
      <4>2. Len(contents) = 0
        BY <2>1, <3>2, <3>3, <4>1
      <4>3. QED
        BY <3>3, <3>5, <4>2, EmptySeq
    <3>6. QED
      BY <3>4, <3>5
  <2>6. QED
    BY <1>3, <2>4, <2>5 DEF RefusalsSound, HonestRefusals, RefusalInv, Inv
<1>4. QED
  BY <1>1, <1>2, <1>3, PTL DEF Spec

-------------------------------------------------------------------------------
(* A producer and a consumer alone.                                         *)

\* The steps of the two keep what each knows of the other's index.
LEMMA PairStep ==
  ASSUME NEW p \in Producers, NEW c \in Consumers, PairInv(p, c), [Next]_vars,
         IsFiniteSet(Producers), Cardinality(Producers) * MAX_PUSH_MSG_COUNT < IndexModulus
  PROVE  PairInv(p, c)'
<1> USE DEF PairInv
<1>d. p \notin Consumers /\ c \notin Producers /\ p # c
  BY ThreadAssumption
<1>e. Entry \in {"cas", "xchg", "test", "lock"}
  BY QuotaAssumption DEF TypeOK, Entry, AllFuncTypes
<1>t. TypeOK' /\ QuotaLeft'
  BY TypeStep
<1>n. /\ head \in Index /\ tail \in Index /\ tail <= head /\ h[p] \in Index /\ h[c] \in Index
      /\ head \in Nat /\ tail \in Nat /\ h[p] \in Nat /\ h[c] \in Nat
      /\ kCapacity \in Nat /\ kMask \in Nat /\ kMask = kCapacity - 1
  <2>1. /\ head \in Index /\ tail \in Index /\ tail <= head
        /\ h[p] \in Index /\ h[c] \in Index
    BY DEF TypeOK, IndicesCounted
  <2>2. QED
    BY <2>1, PlainSub
\* Steps that move no index and read none: the thread is then not between its reads
\* and its store.
<1>1. ASSUME NEW th \in {p, c},
             \/ Acquire(th) \/ UnlockFail(th)
             \/ th = p /\ (WriteSlot(th) \/ ReturnPush(th))
             \/ th = c /\ (ReadSlot(th) \/ ReturnPop(th))
      PROVE  PairInv(p, c)'
  <2>1. UNCHANGED <<head, tail>>
    BY <1>1 DEF Acquire, LockCAS, LockCASFails, WaitUnlocked, LockXchg, TestUnlocked, SetLocked,
                MutexLock, AcquireUnchanged, UnlockFail, WriteSlot, ReturnPush, ReadSlot, ReturnPop
  <2>2. \A other \in Threads \ {th} : UNCHANGED <<pc[other], h[other], t[other]>>
    BY <1>1 DEF Acquire, LockCAS, LockCASFails, WaitUnlocked, LockXchg, TestUnlocked, SetLocked,
                MutexLock, AcquireUnchanged, UnlockFail, WriteSlot, ReturnPush, ReadSlot, ReturnPop,
                ClearLocals, localVars, Goto, TypeOK
  <2>3. pc'[th] \notin {"load_tail", "store_index"}
    BY <1>1, <1>e DEF Acquire, LockCAS, LockCASFails, WaitUnlocked, LockXchg, TestUnlocked,
                SetLocked, MutexLock, UnlockFail, WriteSlot, ReturnPush, ReadSlot, ReturnPop,
                Goto, TypeOK
  <2>4. Claimed' = Claimed
    <3>1. CASE th = p /\ ReturnPush(th)
      <4>1. /\ pc[th] = "unlock_ok" /\ pc'[th] \notin {"access_slot", "unlock_ok"}
            /\ sent' = [sent EXCEPT ![th] = sent[th] + 1]
        BY <1>1, <1>e, <3>1 DEF ReturnPush, Goto, TypeOK
      <4>2. QED
        BY <2>2, <3>1, <4>1, ClaimMoves
    <3>2. CASE ~(th = p /\ ReturnPush(th))
      <4>1. sent' = sent
        BY <1>1, <3>2 DEF Acquire, LockCAS, LockCASFails, WaitUnlocked, LockXchg, TestUnlocked,
              SetLocked, MutexLock, AcquireUnchanged, UnlockFail, WriteSlot, ReadSlot, ReturnPop,
              harnessVars
      <4>2. th = p => (pc'[th] \in {"access_slot", "unlock_ok"}
                         <=> pc[th] \in {"access_slot", "unlock_ok"})
        BY <1>1, <1>d, <1>e, <3>2
           DEF Acquire, LockCAS, LockCASFails, WaitUnlocked, LockXchg, TestUnlocked, SetLocked,
               MutexLock, UnlockFail, WriteSlot, Goto, TypeOK
      <4>3. \A q \in Producers : pc'[q] \in {"access_slot", "unlock_ok"}
                                   <=> pc[q] \in {"access_slot", "unlock_ok"}
        BY <1>d, <2>2, <4>2
      <4>4. QED
        BY <4>1, <4>3 DEF Claimed, Messages
    <3>3. QED
      BY <3>1, <3>2
  <2>5. IndicesCounted'
    BY <2>1, <2>4, CountKept
  <2>6. \A other \in Threads \ {p, c} : pc'[other] = "done"
    BY <1>1, <2>2
  <2>7. QED
    BY <1>1, <1>t, <2>1, <2>2, <2>3, <2>5, <2>6
<1>2. ASSUME NEW th \in {p, c}, LoadHead(th) \/ LoadTail(th)  PROVE PairInv(p, c)'
  <2>1. /\ UNCHANGED <<head, tail, sent>>
        /\ \A other \in Threads \ {th} : UNCHANGED <<pc[other], h[other], t[other]>>
        /\ pc[th] \notin {"access_slot", "unlock_ok"}
        /\ pc'[th] \notin {"access_slot", "unlock_ok"}
    BY <1>2 DEF LoadHead, LoadTail, Goto, harnessVars, TypeOK
  <2>2. Claimed' = Claimed
    <3>1. \A q \in Producers : pc'[q] \in {"access_slot", "unlock_ok"}
                                 <=> pc[q] \in {"access_slot", "unlock_ok"}
      BY <1>d, <2>1
    <3>2. QED
      BY <2>1, <3>1 DEF Claimed, Messages
  <2>3. IndicesCounted'
    BY <2>1, <2>2, CountKept
  <2>4. CASE LoadHead(th)
    <3>1. pc'[th] = "load_tail" /\ h'[th] = head
      BY <2>4 DEF LoadHead, Goto, TypeOK
    <3>2. QED
      BY <1>n, <1>t, <1>2, <2>1, <2>3, <3>1
  <2>5. CASE LoadTail(th) /\ th = p
    <3>1. /\ pc[p] = "load_tail" /\ h' = h /\ h[p] = head
          /\ pc'[p] = IF QueueFull(h[p], tail) THEN "unlock_fail" ELSE "store_index"
      BY <2>5 DEF LoadTail, Goto, TypeOK
    <3>2. pc'[p] = "store_index" => head < tail + kCapacity
      BY <1>n, <3>1, PlainSub DEF QueueFull
    <3>3. QED
      BY <1>n, <1>t, <1>d, <2>1, <2>3, <2>5, <3>1, <3>2
  <2>6. CASE LoadTail(th) /\ th = c
    <3>1. /\ pc[c] = "load_tail" /\ h' = h /\ t'[c] = tail
          /\ tail <= h[c] /\ h[c] <= head
          /\ pc'[c] = IF QueueEmpty(h[c], tail) THEN "unlock_fail" ELSE "store_index"
      BY <1>d, <2>6 DEF LoadTail, Goto, TypeOK
    <3>2. pc'[c] = "store_index" => tail < head
      BY <1>n, <3>1 DEF QueueEmpty
    <3>3. QED
      BY <1>n, <1>t, <1>d, <2>1, <2>3, <2>6, <3>1, <3>2
  <2>7. QED
    BY <1>2, <2>4, <2>5, <2>6
<1>3. CASE StoreHead(p)
  <2>1. /\ pc[p] = "store_index" /\ pc' = [pc EXCEPT ![p] = "access_slot"]
        /\ head' = Inc(head) /\ tail' = tail /\ sent' = sent /\ UNCHANGED <<h, t>>
        /\ head < tail + kCapacity
    BY <1>3 DEF StoreHead, Goto, localVars, harnessVars
  <2>2. /\ Cardinality(Claimed') = head + 1 /\ head' = head + 1
    BY <2>1, ClaimCounted
  <2>3. IndicesCounted'
    BY <1>n, <2>1, <2>2 DEF IndicesCounted
  <2>4. QED
    BY <1>n, <1>d, <1>t, <2>1, <2>2, <2>3 DEF TypeOK
<1>4. CASE StoreTail(c)
  <2>1. /\ pc[c] = "store_index" /\ pc' = [pc EXCEPT ![c] = "access_slot"]
        /\ tail' = Inc(tail) /\ head' = head /\ sent' = sent /\ UNCHANGED <<h, t>>
        /\ tail < head
    BY <1>4 DEF StoreTail, Goto, localVars, harnessVars
  <2>2. Claimed' = Claimed
    BY <1>d, <2>1 DEF Claimed, Messages, TypeOK
  <2>3. tail' = tail + 1
    BY <1>n, <2>1, ModulusAssumption DEF Index, Inc
  <2>4. IndicesCounted'
    BY <1>n, <2>1, <2>2, <2>3 DEF IndicesCounted
  <2>5. QED
    BY <1>n, <1>d, <1>t, <2>1, <2>3, <2>4 DEF TypeOK
<1>5. CASE UNCHANGED vars
  BY <1>5, <1>t DEF vars, IndicesCounted, Claimed
<1>6. ASSUME NEW th \in Threads \ {p, c}
      PROVE  /\ ~Acquire(th) /\ ~LoadHead(th) /\ ~LoadTail(th) /\ ~StoreHead(th) /\ ~StoreTail(th)
             /\ ~WriteSlot(th) /\ ~ReadSlot(th) /\ ~ReturnPush(th) /\ ~ReturnPop(th)
             /\ ~UnlockFail(th)
  BY <1>6 DEF Acquire, LockCAS, LockCASFails, WaitUnlocked, LockXchg, TestUnlocked, SetLocked,
              MutexLock, LoadHead, LoadTail, StoreHead, StoreTail, WriteSlot, ReadSlot, ReturnPush,
              ReturnPop, UnlockFail
<1>7. ASSUME NEW q \in Producers, Push(q)  PROVE PairInv(p, c)'
  <2>1. q = p
    BY <1>d, <1>6, <1>7 DEF Push
  <2>2. QED
    BY <1>1, <1>2, <1>3, <1>7, <2>1 DEF Push
<1>8. ASSUME NEW q \in Consumers, Pop(q)  PROVE PairInv(p, c)'
  <2>1. q = c
    BY <1>d, <1>6, <1>8 DEF Pop
  <2>2. QED
    BY <1>1, <1>2, <1>4, <1>8, <2>1 DEF Pop
<1>9. QED
  BY <1>5, <1>7, <1>8 DEF Next, Joined

\* A producer and a consumer alone keep the ring in bounds and never wedge it, even on
\* spin8 and spin9, which admit both to the queue at once (RingQueue.h:991-1156): so far
\* as the indices go they need no lock below the wrap.
THEOREM PairRefusals ==
  ASSUME NEW p \in Producers, NEW c \in Consumers,
         FuncTypes \cap ExclusiveTypes = {},
         IsFiniteSet(Producers), Cardinality(Producers) * MAX_PUSH_MSG_COUNT < IndexModulus
  PROVE  InitWith({p, c}) /\ [][Next]_vars => []RefusalsSound
<1>1. InitWith({p, c}) => PairInv(p, c)
  <2>1. SUFFICES ASSUME InitWith({p, c})  PROVE PairInv(p, c)
    OBVIOUS
  <2>2. Entry \in {"cas", "xchg", "test", "lock"}
    BY <2>1, QuotaAssumption DEF InitWith, Entry, AllFuncTypes
  <2>3. TypeOK
    BY <2>1, <2>2, IndexType, QuotaAssumption DEF InitWith, TypeOK, PCs
  <2>4. QuotaLeft
    BY <2>1, QuotaAssumption DEF InitWith, QuotaLeft
  <2>5. \A th \in Threads : pc[th] \in {Entry, "done"}
    BY <2>1 DEF InitWith
  <2>6. \A th \in Threads \ {p, c} : pc[th] = "done"
    BY <2>1 DEF InitWith
  <2>7. IndicesCounted
    BY <2>1, <2>2, <2>5, InitCount
  <2>8. head <= tail + kCapacity
    BY <2>1, PlainSub DEF InitWith
  <2>9. QED
    BY <2>2, <2>3, <2>4, <2>5, <2>6, <2>7, <2>8 DEF PairInv
<1>2. PairInv(p, c) /\ [Next]_vars => PairInv(p, c)'
  BY PairStep
<1>3. ASSUME PairInv(p, c)  PROVE RefusalsSound
  <2>1. head \in Index /\ tail \in Index /\ tail <= head /\ head <= tail + kCapacity
    BY <1>3 DEF PairInv, TypeOK, IndicesCounted
  <2>2. Sub(head, tail) = head - tail
    BY <2>1, PlainSub
  <2>3. OccupancyBound /\ NotWedged
    BY <2>1, <2>2, PlainSub DEF OccupancyBound, NotWedged, QueueFull, QueueEmpty
  <2>4. funcType \notin ExclusiveTypes
    BY <1>3 DEF PairInv, TypeOK
  <2>5. QED
    BY <2>3, <2>4 DEF RefusalsSound
<1>4. QED
  BY <1>1, <1>2, <1>3, PTL
===============================================================================
