---------------------------- MODULE OldLockedRing ----------------------------
(***************************************************************************)
(* The pairs of include/RingQueue/DisruptorRingQueueOld.h that work on     *)
(* core.info under a lock: spin_push/spin_pop and mutex_push/mutex_pop.    *)
(* The words head and tail are 32 bits wide, but the locals they are       *)
(* copied to have sequence_type, 64 bits or 32 bits and signed, which      *)
(* changes what the two comparisons mean once head has wrapped.  That the  *)
(* lock words exclude is the subject of SpinRingQueue; here taking a free  *)
(* lock is one step.                                                       *)
(***************************************************************************)
EXTENDS RingIndex, Integers, Sequences, FiniteSets
LOCAL INSTANCE Functions

CONSTANTS
  Producers, Consumers,
  MAX_PUSH_MSG_COUNT, MAX_POP_MSG_COUNT,
  StartIndices,    \* where head and tail of the idle ring may be when a run begins
  SequenceTypes,   \* "int64_t" (USE_64BIT_SEQUENCE) or "int32_t"
  FuncTypes,       \* "spin" or "mutex"
  NULL

Threads == Producers \cup Consumers

OldAssumption ==
  /\ Producers \cap Consumers = {} /\ NULL \notin Threads
  /\ MAX_PUSH_MSG_COUNT \in Nat \ {0} /\ MAX_POP_MSG_COUNT \in Nat \ {0}
  /\ StartIndices \subseteq Index
  /\ SequenceTypes \subseteq {"int64_t", "int32_t"}
  /\ FuncTypes \subseteq {"spin", "mutex"}

VARIABLES
  funcType, sequence_type,   \* chosen once for the run
  head, tail, entries,
  spin_mutex, queue_mutex,   \* the thread that holds it, or NULL
  pc,
  h, t,                      \* each thread's locals head and tail
  sent, popped               \* what the callers have pushed and popped

config == <<funcType, sequence_type>>
harnessVars == <<sent, popped>>
vars == <<config, head, tail, entries, spin_mutex, queue_mutex, pc, h, t, harnessVars>>

Messages == Producers \X (1..MAX_PUSH_MSG_COUNT)

Init ==
  /\ funcType \in FuncTypes /\ sequence_type \in SequenceTypes
  /\ head \in StartIndices /\ tail = head
  /\ entries = [s \in SlotIds |-> NULL]
  /\ spin_mutex = NULL /\ queue_mutex = NULL
  /\ pc = [th \in Threads |-> "lock"]
  /\ h = [th \in Threads |-> 0] /\ t = [th \in Threads |-> 0]
  /\ sent = [p \in Producers |-> 0]
  /\ popped = [c \in Consumers |-> << >>]

Goto(th, where) == pc' = [pc EXCEPT ![th] = where]

\* head = core.info.head: an int32_t is negative in the upper half of the range
Local(word) ==
  IF sequence_type = "int64_t" \/ word < IndexModulus \div 2 THEN word ELSE word - IndexModulus

\* (head - tail) > kIndexMask: signed for int64_t, while an int32_t is converted
\* to the unsigned type of the mask
Exceeds(hd, tl) ==
  IF sequence_type = "int64_t" THEN hd - tl > kMask ELSE (hd - tl) % IndexModulus > kMask

\* Mutant: one message too many.
QueueFullLate(hd, tl) == Exceeds(hd, tl + 1)

QueueFull(hd, tl) == Exceeds(hd, tl)
QueueEmpty(hd, tl) == tl = hd \/ (tl > hd /\ Exceeds(hd, tl))

\* pthread_mutex_lock, or the exchange (then CAS) loop of spin_push and spin_pop
Lock(th) ==
  /\ pc[th] = "lock"
  /\ IF funcType = "mutex"
       THEN queue_mutex = NULL /\ queue_mutex' = th /\ UNCHANGED spin_mutex
       ELSE spin_mutex = NULL /\ spin_mutex' = th /\ UNCHANGED queue_mutex
  /\ Goto(th, "load")
  /\ UNCHANGED <<config, head, tail, entries, h, t, harnessVars>>

LoadIndices(th) ==
  /\ pc[th] = "load"
  /\ h' = [h EXCEPT ![th] = Local(head)]
  /\ t' = [t EXCEPT ![th] = Local(tail)]
  /\ Goto(th, "check")
  /\ UNCHANGED <<config, head, tail, entries, spin_mutex, queue_mutex, harnessVars>>

\* spin_mutex.locked = 0, pthread_mutex_unlock
Unlock(th) ==
  /\ IF funcType = "mutex" THEN queue_mutex' = NULL /\ UNCHANGED spin_mutex
                           ELSE spin_mutex' = NULL /\ UNCHANGED queue_mutex
  /\ h' = [h EXCEPT ![th] = 0]
  /\ t' = [t EXCEPT ![th] = 0]

\* The early return; the caller calls again.
Refuse(th) ==
  /\ pc[th] = "check"
  /\ IF th \in Producers THEN QueueFull(h[th], t[th]) ELSE QueueEmpty(h[th], t[th])
  /\ Unlock(th)
  /\ Goto(th, "lock")
  /\ UNCHANGED <<config, head, tail, entries, harnessVars>>

\* next = head + 1; core.info.head = next
AdvanceHead(p) ==
  /\ pc[p] = "check" /\ ~QueueFull(h[p], t[p])
  /\ head' = (h[p] + 1) % IndexModulus
  /\ Goto(p, "entry")
  /\ UNCHANGED <<config, tail, entries, spin_mutex, queue_mutex, h, t, harnessVars>>

WriteEntry(p) ==
  /\ pc[p] = "entry"
  /\ entries' = [entries EXCEPT ![h[p] % kCapacity] = <<p, sent[p] + 1>>]
  /\ sent' = [sent EXCEPT ![p] = sent[p] + 1]
  /\ Goto(p, "unlock")
  /\ UNCHANGED <<config, head, tail, spin_mutex, queue_mutex, h, t, popped>>

AdvanceTail(c) ==
  /\ pc[c] = "check" /\ ~QueueEmpty(h[c], t[c])
  /\ tail' = (t[c] + 1) % IndexModulus
  /\ Goto(c, "entry")
  /\ UNCHANGED <<config, head, entries, spin_mutex, queue_mutex, h, t, harnessVars>>

ReadEntry(c) ==
  /\ pc[c] = "entry"
  /\ popped' = [popped EXCEPT ![c] = Append(popped[c], entries[t[c] % kCapacity])]
  /\ Goto(c, "unlock")
  /\ UNCHANGED <<config, head, tail, entries, spin_mutex, queue_mutex, h, t, sent>>

\* The release and return 0; the caller goes on to its next message.
Return(th) ==
  /\ pc[th] = "unlock"
  /\ Unlock(th)
  /\ Goto(th, IF \/ th \in Producers /\ sent[th] < MAX_PUSH_MSG_COUNT
                 \/ th \in Consumers /\ Len(popped[th]) < MAX_POP_MSG_COUNT
              THEN "lock" ELSE "done")
  /\ UNCHANGED <<config, head, tail, entries, harnessVars>>

Step(th) == Lock(th) \/ LoadIndices(th) \/ Refuse(th) \/ Return(th)

PushSteps(p) == Step(p) \/ AdvanceHead(p) \/ WriteEntry(p)
PopSteps(c) == Step(c) \/ AdvanceTail(c) \/ ReadEntry(c)

spin_push(p) == funcType = "spin" /\ PushSteps(p)
spin_pop(c) == funcType = "spin" /\ PopSteps(c)
mutex_push(p) == funcType = "mutex" /\ PushSteps(p)
mutex_pop(c) == funcType = "mutex" /\ PopSteps(c)

Joined == (\A th \in Threads : pc[th] = "done") /\ UNCHANGED vars

Next == \/ \E p \in Producers : spin_push(p) \/ mutex_push(p)
        \/ \E c \in Consumers : spin_pop(c) \/ mutex_pop(c)
        \/ Joined

Spec == Init /\ [][Next]_vars

-------------------------------------------------------------------------------
(* Properties.                                                             *)

\* Every variable stays within its type.
TypeOK ==
  /\ head \in Index /\ tail \in Index
  /\ entries \in [SlotIds -> Messages \cup {NULL}]
  /\ spin_mutex \in Threads \cup {NULL} /\ queue_mutex \in Threads \cup {NULL}
  /\ pc \in [Threads -> {"lock", "load", "check", "entry", "unlock", "done"}]
  /\ h \in [Threads -> Int] /\ t \in [Threads -> Int]
  /\ sent \in [Producers -> 0..MAX_PUSH_MSG_COUNT]
  /\ popped \in [Consumers -> Seq(Messages)]

\* Messages put in and not taken out: no index tells it once head has wrapped.
Count == FoldFunction(+, 0, sent)
         - FoldFunction(LAMBDA list, n : Len(list) + n, 0, popped)

\* The words of the ring as of the last completed access to an entry.
LogicalHead ==
  IF \E p \in Producers : pc[p] = "entry"
    THEN LET p == CHOOSE p \in Producers : pc[p] = "entry" IN h[p] % IndexModulus
    ELSE head
LogicalTail ==
  IF \E c \in Consumers : pc[c] = "entry"
    THEN LET c == CHOOSE c \in Consumers : pc[c] = "entry" IN t[c] % IndexModulus
    ELSE tail

\* While the words stay below the sign change of the 32-bit local (and 2^32),
\* both pairs are a bounded FIFO queue with either type of local.
Abstract ==
  INSTANCE BoundedQueue WITH
    Capacity <- kCapacity, pushed <- sent,
    contents <- [i \in 1..Sub(LogicalHead, LogicalTail)
                   |-> entries[Slot(Offset(LogicalTail, i - 1))]]

\* Once head has wrapped to 0 and tail has not, head - tail is negative in 64
\* bits and no push is refused: the ring then takes more messages than it has
\* slots and overwrites the oldest.  Nothing else lets a push do so: not the
\* 32-bit locals, and no other position of the words.
OverrunAllowed ==
  (Count' > Count /\ Count' > kCapacity) => sequence_type = "int64_t" /\ head < tail

\* A pop is refused only by an empty ring, except with 32-bit locals across the
\* sign change: a ring that is full there answers "empty" to every pop and
\* "full" to every push.
RefusedForCause ==
  \A c \in Consumers :
    (pc[c] = "check" /\ QueueEmpty(h[c], t[c])) =>
       \/ Count = 0
       \/ /\ sequence_type = "int32_t" /\ Count = kCapacity
          /\ t[c] >= 0 /\ h[c] < 0
===============================================================================
