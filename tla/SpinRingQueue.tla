---------------------------- MODULE SpinRingQueue ----------------------------
(***************************************************************************)
(* RingQueueBase (include/RingQueue/RingQueue.h) under the lock of one of  *)
(* its spin_push/spin_pop, spin1_, spin2_, spin3_, spin8_/spin9_ and       *)
(* mutex_push/mutex_pop pairs, driven by the producer and consumer threads *)
(* of src/RingQueue/main.cpp.  Every access to the shared words head,      *)
(* tail, queue[i] and spin_mutex.locked is a step of its own.              *)
(***************************************************************************)
EXTENDS RingIndex, FiniteSets, Sequences

CONSTANTS
  Producers,           \* the PUSH_CNT threads of RingQueue_push_task
  Consumers,           \* the POP_CNT threads of RingQueue_pop_task
  MAX_PUSH_MSG_COUNT,  \* messages each producer pushes
  MAX_POP_MSG_COUNT,   \* messages each consumer pops before it returns
  FuncTypes,           \* the push/pop pairs a run chooses from
  NULL                 \* the NULL pointer, also "nobody" for queue_mutex

AllFuncTypes == {"spin", "spin1", "spin2", "spin3", "spin8", "spin9", "mutex"}

\* The pairs whose lock word is taken by an atomic that reports the old value.
\* spin8 and spin9 test the word, then overwrite it without looking.
ExclusiveTypes == AllFuncTypes \ {"spin8", "spin9"}

Threads == Producers \cup Consumers

ASSUME ThreadAssumption ==
  /\ Producers \cap Consumers = {}
  /\ NULL \notin Threads
  /\ \A p \in Producers, i \in 1..MAX_PUSH_MSG_COUNT : NULL # <<p, i>>

ASSUME QuotaAssumption ==
  /\ MAX_PUSH_MSG_COUNT \in Nat \ {0}
  /\ MAX_POP_MSG_COUNT \in Nat \ {0}
  /\ FuncTypes \subseteq AllFuncTypes

VARIABLES
  funcType,     \* thread_arg->funcType, the same for every thread of a test
  head, tail,   \* core.info.head, core.info.tail
  queue,        \* core.queue
  locked,       \* spin_mutex.locked
  queue_mutex,  \* owner of the pthread mutex, NULL when free
  pc,           \* where each thread is in its push or pop
  h, t,         \* each thread's locals "head" and "tail"
  item,         \* each consumer's local "item"
  sent,         \* "i" of each producer's loop: messages pushed
  popmsg_list   \* the messages each consumer recorded

lockVars == <<locked, queue_mutex>>
localVars == <<h, t, item>>
harnessVars == <<sent, popmsg_list>>
vars == <<funcType, head, tail, queue, locked, queue_mutex, pc, h, t, item,
          sent, popmsg_list>>

Messages == Producers \X (1..MAX_PUSH_MSG_COUNT)

\* The pcs at which a thread has passed its lock and not yet released it.
CriticalPCs == {"load_head", "load_tail", "store_index", "access_slot",
                "unlock_ok", "unlock_fail"}
PCs == {"cas", "xchg", "wait", "test", "set", "lock", "done"} \cup CriticalPCs

\* First step of a push or pop of the chosen pair.
Entry == CASE funcType = "spin" -> "cas"
           [] funcType \in {"spin1", "spin2", "spin3"} -> "xchg"
           [] funcType \in {"spin8", "spin9"} -> "test"
           [] funcType = "mutex" -> "lock"

\* The threads of "started" are created; the others count as joined.
InitWith(started) ==
  /\ funcType \in FuncTypes
  /\ head = 0 /\ tail = 0
  /\ queue = [s \in SlotIds |-> NULL]
  /\ locked = 0 /\ queue_mutex = NULL
  /\ pc = [th \in Threads |-> IF th \in started THEN Entry ELSE "done"]
  /\ h = [th \in Threads |-> 0]
  /\ t = [th \in Threads |-> 0]
  /\ item = [c \in Consumers |-> NULL]
  /\ sent = [p \in Producers |-> 0]
  /\ popmsg_list = [c \in Consumers |-> << >>]

Init == InitWith(Threads)

-------------------------------------------------------------------------------
(* Taking the lock.  A spin that fails and retries the same instruction    *)
(* changes nothing and is a stuttering step.                               *)

Goto(th, where) == pc' = [pc EXCEPT ![th] = where]

AcquireUnchanged ==
  UNCHANGED <<funcType, head, tail, queue, localVars, harnessVars>>

\* Mutant: the comparand and the new value of the CAS swapped.
LockCASSwapped(th) ==
  /\ pc[th] = "cas"
  /\ locked' = 0
  /\ Goto(th, IF locked = 0 THEN "load_head" ELSE "cas")
  /\ UNCHANGED queue_mutex /\ AcquireUnchanged

\* while (jimi_val_compare_and_swap32(&locked, 0U, 1U) != 0U) ...
LockCAS(th) ==
  /\ pc[th] = "cas" /\ locked = 0
  /\ locked' = 1
  /\ Goto(th, "load_head")
  /\ UNCHANGED queue_mutex /\ AcquireUnchanged

\* spin3 goes back to reading the word when its CAS fails.
LockCASFails(th) ==
  /\ pc[th] = "cas" /\ locked # 0 /\ funcType = "spin3"
  /\ Goto(th, "wait")
  /\ UNCHANGED lockVars /\ AcquireUnchanged

\* spin3: while (spin_mutex.locked != 0U), left once the word is seen clear
WaitUnlocked(th) ==
  /\ pc[th] = "wait" /\ locked = 0
  /\ Goto(th, "cas")
  /\ UNCHANGED lockVars /\ AcquireUnchanged

\* Mutant: the old value of the exchange is not looked at.
LockXchgBlind(th) ==
  /\ pc[th] = "xchg"
  /\ locked' = 1
  /\ Goto(th, "load_head")
  /\ UNCHANGED queue_mutex /\ AcquireUnchanged

\* spin1, spin2, spin3: the first try is an exchange
LockXchg(th) ==
  /\ pc[th] = "xchg"
  /\ locked' = 1
  /\ Goto(th, IF locked = 0 THEN "load_head"
              ELSE IF funcType = "spin3" THEN "wait" ELSE "cas")
  /\ UNCHANGED queue_mutex /\ AcquireUnchanged

\* spin8, spin9: while (spin_mutex.locked != 0) ...
TestUnlocked(th) ==
  /\ pc[th] = "test" /\ locked = 0
  /\ Goto(th, "set")
  /\ UNCHANGED lockVars /\ AcquireUnchanged

\* spin8, spin9: jimi_lock_test_and_set32(&locked, 1U), result ignored
SetLocked(th) ==
  /\ pc[th] = "set"
  /\ locked' = 1
  /\ Goto(th, "load_head")
  /\ UNCHANGED queue_mutex /\ AcquireUnchanged

\* pthread_mutex_lock
MutexLock(th) ==
  /\ pc[th] = "lock" /\ queue_mutex = NULL
  /\ queue_mutex' = th
  /\ Goto(th, "load_head")
  /\ UNCHANGED locked /\ AcquireUnchanged

-------------------------------------------------------------------------------
(* The body of a push or pop.                                              *)

\* Mutants: one message too many, and an emptiness check without the comparison
\* of tail and head.
QueueFullLate(hd, tl) == Sub(hd, tl) > kMask + 1
QueueEmptyUnordered(hd, tl) == tl = hd \/ Sub(hd, tl) > kMask

QueueFull(hd, tl) == Sub(hd, tl) > kMask
QueueEmpty(hd, tl) == tl = hd \/ (tl > hd /\ Sub(hd, tl) > kMask)

LoadHead(th) ==
  /\ pc[th] = "load_head"
  /\ h' = [h EXCEPT ![th] = head]
  /\ Goto(th, "load_tail")
  /\ UNCHANGED <<funcType, head, tail, queue, lockVars, t, item, harnessVars>>

\* tail = core.info.tail, then the early return or the rest of the body
LoadTail(th) ==
  /\ pc[th] = "load_tail"
  /\ t' = [t EXCEPT ![th] = tail]
  /\ LET refused == IF th \in Producers THEN QueueFull(h[th], tail)
                                        ELSE QueueEmpty(h[th], tail)
     IN  Goto(th, IF refused THEN "unlock_fail" ELSE "store_index")
  /\ UNCHANGED <<funcType, head, tail, queue, lockVars, h, item, harnessVars>>

\* push: core.info.head = head + 1
StoreHead(p) ==
  /\ pc[p] = "store_index"
  /\ head' = Inc(h[p])
  /\ Goto(p, "access_slot")
  /\ UNCHANGED <<funcType, tail, queue, lockVars, localVars, harnessVars>>

\* pop: core.info.tail = tail + 1
StoreTail(c) ==
  /\ pc[c] = "store_index"
  /\ tail' = Inc(t[c])
  /\ Goto(c, "access_slot")
  /\ UNCHANGED <<funcType, head, queue, lockVars, localVars, harnessVars>>

\* Mutant: the slot after the claimed one.
WriteNextSlot(p) ==
  /\ pc[p] = "access_slot"
  /\ queue' = [queue EXCEPT ![Slot(Inc(h[p]))] = <<p, sent[p] + 1>>]
  /\ Goto(p, "unlock_ok")
  /\ UNCHANGED <<funcType, head, tail, lockVars, localVars, harnessVars>>

\* push: core.queue[head & kMask] = item
WriteSlot(p) ==
  /\ pc[p] = "access_slot"
  /\ queue' = [queue EXCEPT ![Slot(h[p])] = <<p, sent[p] + 1>>]
  /\ Goto(p, "unlock_ok")
  /\ UNCHANGED <<funcType, head, tail, lockVars, localVars, harnessVars>>

\* pop: item = core.queue[tail & kMask]
ReadSlot(c) ==
  /\ pc[c] = "access_slot"
  /\ item' = [item EXCEPT ![c] = queue[Slot(t[c])]]
  /\ Goto(c, "unlock_ok")
  /\ UNCHANGED <<funcType, head, tail, queue, lockVars, h, t, harnessVars>>

-------------------------------------------------------------------------------
(* Releasing the lock, returning, and the caller's loop up to its next call. *)

Release ==
  IF funcType = "mutex" THEN queue_mutex' = NULL /\ UNCHANGED locked
                        ELSE locked' = 0 /\ UNCHANGED queue_mutex

\* The locals of a call die with it.
ClearLocals(th) ==
  /\ h' = [h EXCEPT ![th] = 0]
  /\ t' = [t EXCEPT ![th] = 0]
  /\ item' = IF th \in Consumers THEN [item EXCEPT ![th] = NULL] ELSE item

\* Mutant: the early return forgets the lock.
FailLocked(th) ==
  /\ pc[th] = "unlock_fail"
  /\ ClearLocals(th)
  /\ Goto(th, Entry)
  /\ UNCHANGED <<funcType, head, tail, queue, lockVars, harnessVars>>

\* return -1 or return NULL: the caller counts a failure and calls again
UnlockFail(th) ==
  /\ pc[th] = "unlock_fail"
  /\ Release
  /\ ClearLocals(th)
  /\ Goto(th, Entry)
  /\ UNCHANGED <<funcType, head, tail, queue, harnessVars>>

\* spin2 releases by exchange and repeats (and prints) until the old value
\* is 1; every other pair just stores.
Released == funcType = "spin2" => locked = 1

\* return 0: RingQueue_push_task goes on to its next message
ReturnPush(p) ==
  /\ pc[p] = "unlock_ok" /\ Released
  /\ Release
  /\ ClearLocals(p)
  /\ sent' = [sent EXCEPT ![p] = sent[p] + 1]
  /\ Goto(p, IF sent[p] + 1 < MAX_PUSH_MSG_COUNT THEN Entry ELSE "done")
  /\ UNCHANGED <<funcType, head, tail, queue, popmsg_list>>

\* return item: RingQueue_pop_task records it unless it is NULL
ReturnPop(c) ==
  /\ pc[c] = "unlock_ok" /\ Released
  /\ Release
  /\ ClearLocals(c)
  /\ popmsg_list' = IF item[c] = NULL THEN popmsg_list
                    ELSE [popmsg_list EXCEPT ![c] = Append(popmsg_list[c], item[c])]
  /\ Goto(c, IF Len(popmsg_list'[c]) < MAX_POP_MSG_COUNT THEN Entry ELSE "done")
  /\ UNCHANGED <<funcType, head, tail, queue, sent>>

Acquire(th) ==
  \/ LockCAS(th) \/ LockCASFails(th) \/ WaitUnlocked(th) \/ LockXchg(th)
  \/ TestUnlocked(th) \/ SetLocked(th) \/ MutexLock(th)

Push(p) ==
  \/ Acquire(p) \/ LoadHead(p) \/ LoadTail(p) \/ StoreHead(p)
  \/ WriteSlot(p) \/ ReturnPush(p) \/ UnlockFail(p)

Pop(c) ==
  \/ Acquire(c) \/ LoadHead(c) \/ LoadTail(c) \/ StoreTail(c)
  \/ ReadSlot(c) \/ ReturnPop(c) \/ UnlockFail(c)

\* pthread_join returns for every thread.
Joined == (\A th \in Threads : pc[th] = "done") /\ UNCHANGED vars

Next == \/ \E p \in Producers : Push(p)
        \/ \E c \in Consumers : Pop(c)
        \/ Joined

Spec == Init /\ [][Next]_vars

\* The scheduler runs every thread that can take a step.
Fairness == /\ \A p \in Producers : WF_vars(Push(p))
            /\ \A c \in Consumers : WF_vars(Pop(c))

\* In addition no thread loses the race for the lock for ever.  The locks are
\* not fair: this is assumed of the machine, not guaranteed by the code.
LockRaceFair == \A th \in Threads : /\ SF_vars(LockCAS(th) \/ MutexLock(th))
                                    /\ SF_vars(WaitUnlocked(th))

-------------------------------------------------------------------------------
(* Properties.                                                             *)

\* Every variable stays within its type.
TypeOK ==
  /\ funcType \in FuncTypes
  /\ head \in Index /\ tail \in Index
  /\ queue \in [SlotIds -> Messages \cup {NULL}]
  /\ locked \in {0, 1} /\ queue_mutex \in Threads \cup {NULL}
  /\ pc \in [Threads -> PCs]
  /\ h \in [Threads -> Index] /\ t \in [Threads -> Index]
  /\ item \in [Consumers -> Messages \cup {NULL}]
  /\ sent \in [Producers -> 0..MAX_PUSH_MSG_COUNT]
  /\ popmsg_list \in [Consumers -> Seq(Messages)]

InCritical(th) == pc[th] \in CriticalPCs

\* Two threads are never between lock and unlock of the same queue, whichever
\* mix of exchange, CAS and reread the pair acquires with and however it
\* releases.
MutualExclusion ==
  \A a, b \in Threads : a # b => ~(InCritical(a) /\ InCritical(b))

\* The free-running indices never describe more messages than there are
\* slots, across any number of wraps of the 32-bit indices.
OccupancyBound == Sub(head, tail) <= kCapacity

\* A thread between lock and unlock owns the word it locked; the waiting pcs
\* belong to the pair the test runs.
LockOwned ==
  \A th \in Threads :
    /\ InCritical(th) => IF funcType = "mutex" THEN queue_mutex = th ELSE locked = 1
    /\ pc[th] \in {"cas", "xchg", "wait"} => funcType \in {"spin", "spin1", "spin2", "spin3"}
    /\ pc[th] = "lock" => funcType = "mutex"
    /\ pc[th] \notin {"test", "set"}

\* What a thread under the lock has read is still so, and its check of it too.
LocalsCurrent ==
  \A th \in Threads :
    /\ pc[th] \in {"load_tail", "store_index"} => h[th] = head
    /\ pc[th] = "store_index" =>
         /\ t[th] = tail
         /\ IF th \in Producers THEN ~QueueFull(head, tail) ELSE ~QueueEmpty(head, tail)
    /\ pc[th] = "access_slot" =>
         IF th \in Producers THEN head = Inc(h[th]) ELSE tail = Inc(t[th])

\* A producer still in its loop has a message left.
QuotaLeft == \A p \in Producers : pc[p] # "done" => sent[p] < MAX_PUSH_MSG_COUNT

\* A push holds the head it stored and its slot is not yet written.
WritePending == \E p \in Producers : pc[p] = "access_slot"

\* The messages between tail and head, without one whose slot is not written.
Held == Sub(head, tail) - IF WritePending THEN 1 ELSE 0
contents == [i \in 1..Held |-> queue[Slot(Offset(tail, i - 1))]]

\* Every slot that counts as full holds a message, and so do the slot and the item
\* of a pop on its way out: what it returns is never NULL.
MessagesHeld ==
  /\ WritePending => head # tail
  /\ \A i \in 1..Held : contents[i] \in Messages
  /\ \A c \in Consumers : /\ pc[c] = "access_slot" => queue[Slot(t[c])] \in Messages
                          /\ pc[c] = "unlock_ok" => item[c] \in Messages

\* The inductive invariant behind MutualExclusion, OccupancyBound and the refinement
\* of BoundedQueue: whoever is under the lock owns it and works on current copies of
\* the indices, and what lies between these is messages.
Inv == /\ TypeOK /\ QuotaLeft /\ LockOwned /\ MutualExclusion
       /\ LocalsCurrent /\ OccupancyBound /\ MessagesHeld

\* A push counts from the write of its slot, a pop from the store of tail.
pushed == [p \in Producers |-> IF pc[p] = "unlock_ok" THEN sent[p] + 1 ELSE sent[p]]
popped ==
  [c \in Consumers |->
     CASE pc[c] = "access_slot" -> Append(popmsg_list[c], queue[Slot(t[c])])
       [] pc[c] = "unlock_ok"   -> Append(popmsg_list[c], item[c])
       [] OTHER                 -> popmsg_list[c]]

Abstract == INSTANCE BoundedQueue WITH Capacity <- kCapacity

\* The locked ring is a bounded FIFO queue: every message pushed is popped at
\* most once, in the order of the pushes, and none is overwritten, invented
\* or read from a slot that holds a stale lap.
RefinesBoundedQueue == Abstract!Spec

\* spin_push returns -1 only when all kCapacity slots hold messages, and
\* spin_pop returns NULL only when none does.
HonestRefusals ==
  \A th \in Threads : pc[th] = "unlock_fail" =>
     IF th \in Producers THEN Len(contents) = kCapacity ELSE contents = << >>

\* The queue is never refused to producers and consumers at the same time:
\* were it, nobody could ever push or pop again.
NotWedged == ~(QueueFull(head, tail) /\ QueueEmpty(head, tail))

\* While the indices stay below their wrap no pair, not even spin8 and spin9 with
\* one thread at each end, gets into the state in which pushes and pops are refused
\* alike; and under the pairs that lock, spin_push returns -1 only when all slots
\* hold messages, and spin_pop returns NULL only when none does.
RefusalsSound ==
  /\ OccupancyBound /\ NotWedged
  /\ funcType \in ExclusiveTypes => HonestRefusals

\* The messages for which head has moved.
Claimed ==
  {m \in Messages :
     m[2] <= sent[m[1]] + IF pc[m[1]] \in {"access_slot", "unlock_ok"} THEN 1 ELSE 0}

\* Below their wrap head counts messages and tail does not pass it.
IndicesCounted == head = Cardinality(Claimed) /\ tail <= head

\* The ring a thread was refused by is still as it was when it read the indices.
RefusalCurrent ==
  \A th \in Threads : pc[th] = "unlock_fail" =>
     IF th \in Producers THEN QueueFull(head, tail) ELSE QueueEmpty(head, tail)

\* The inductive invariant behind RefusalsSound under the pairs that lock.
RefusalInv == Inv /\ IndicesCounted /\ RefusalCurrent

\* The one behind it for a producer and a consumer alone, who need no lock: each
\* index has one writer, and what the other thread does only helps.
PairInv(p, c) ==
  /\ TypeOK /\ QuotaLeft /\ IndicesCounted /\ head <= tail + kCapacity
  /\ \A th \in Threads \ {p, c} : pc[th] = "done"
  /\ pc[p] \in {"load_tail", "store_index"} => h[p] = head
  /\ pc[p] = "store_index" => head < tail + kCapacity
  /\ pc[c] = "load_tail" => tail <= h[c] /\ h[c] <= head
  /\ pc[c] = "store_index" => t[c] = tail /\ tail < head

\* The exchange that releases spin2's lock finds the word set, so the loop
\* around it never prints nor repeats.
ReleaseFindsLocked ==
  \A th \in Threads : (funcType = "spin2" /\ pc[th] = "unlock_ok") => locked = 1

\* Every thread finishes its quota, if none loses the race for the lock for ever:
\* all messages cross the queue.
AllDelivered == LockRaceFair => <>(\A th \in Threads : pc[th] = "done")
===============================================================================
