--------------------------- MODULE LockFreeRingQueue ---------------------------
(***************************************************************************)
(* The pairs without a lock: RingQueueBase::push/pop and push2/pop2        *)
(* (include/RingQueue/RingQueue.h) and q3_push/q3_pop of                   *)
(* DisruptorRingQueueOld.h.  An index is claimed by CAS and the slot is    *)
(* accessed after it, with nothing that tells the other side when.  The    *)
(* two families differ in the type the difference head - tail is computed  *)
(* in.  The threads are those of src/RingQueue/main.cpp                    *)
(* (FUNC_RINGQUEUE_PUSH), and observers that call sizes().                 *)
(***************************************************************************)
EXTENDS RingIndex, Integers, FiniteSets, Sequences

CONSTANTS
  Producers, Consumers,
  Observers,           \* threads that call sizes()
  MAX_PUSH_MSG_COUNT, MAX_POP_MSG_COUNT,
  NULL

Threads == Producers \cup Consumers \cup Observers

ASSUME ThreadAssumption ==
  /\ IsFiniteSet(Producers) /\ Producers \cap Consumers = {}
  /\ Observers \cap (Producers \cup Consumers) = {}
  /\ \A p \in Producers, i \in 1..MAX_PUSH_MSG_COUNT : NULL # <<p, i>>

ASSUME QuotaAssumption ==
  /\ MAX_PUSH_MSG_COUNT \in Nat \ {0}
  /\ MAX_POP_MSG_COUNT \in Nat \ {0}

\* A test starts on fresh indices and ends a ring's length short of their wrap, so
\* that an index older than another never seems to be ahead of it.
ASSUME LapAssumption == Cardinality(Producers) * MAX_PUSH_MSG_COUNT + kMask < IndexModulus

VARIABLES
  index_locals, \* "index_type": head and tail are copied to uint32_t locals;
                \* "sequence_type": to int64_t locals
  head, tail,   \* core.info.head, core.info.tail
  queue,        \* core.queue
  pc,           \* where each thread is in its call
  h, t,         \* each thread's locals "head" and "tail", 0 while not in use
  sent,         \* messages each producer has pushed
  popmsg_list,  \* messages each consumer recorded
  raced         \* a thread claimed a slot another was about to access (history)

testVars == <<index_locals, sent, popmsg_list>>
harnessVars == <<testVars, raced>>
vars == <<index_locals, head, tail, queue, pc, h, t, sent, popmsg_list, raced>>

Messages == Producers \X (1..MAX_PUSH_MSG_COUNT)

\* The threads of "started" are created; the others count as joined.
InitWith(started) ==
  /\ index_locals \in {"index_type", "sequence_type"}
  /\ head = 0 /\ tail = 0
  /\ queue = [s \in SlotIds |-> NULL]
  /\ pc = [th \in Threads |-> IF th \in started THEN "load_head" ELSE "done"]
  /\ h = [th \in Threads |-> 0]
  /\ t = [c \in Consumers |-> 0]
  /\ sent = [p \in Producers |-> 0]
  /\ popmsg_list = [c \in Consumers |-> << >>]
  /\ raced = FALSE

Init == InitWith(Threads)

Goto(th, where) == pc' = [pc EXCEPT ![th] = where]

\* head - tail in the type of the locals
Difference(hd, tl) == IF index_locals = "index_type" THEN Sub(hd, tl) ELSE hd - tl

\* Mutant: emptiness without the comparison of stale indices.
QueueEmptyUnordered(hd, tl) == tl = hd

QueueFull(hd, tl) == Difference(hd, tl) > kMask
QueueEmpty(hd, tl) == tl = hd \/ (tl > hd /\ Difference(hd, tl) > kMask)

\* Some thread is about to access the slot of an index.
Busy(index) ==
  \E th \in Threads :
    pc[th] = "access_slot" /\ Slot(IF th \in Producers THEN h[th] ELSE t[th]) = Slot(index)
Claim(index) == raced' = (raced \/ Busy(index))

\* head = core.info.head
LoadHead(th) ==
  /\ pc[th] = "load_head"
  /\ h' = [h EXCEPT ![th] = head]
  /\ Goto(th, "load_tail")
  /\ UNCHANGED <<head, tail, queue, t, harnessVars>>

\* tail = core.info.tail; return -1, and the caller calls again
PushLoadTail(p) ==
  /\ pc[p] = "load_tail"
  /\ IF QueueFull(h[p], tail)
       THEN Goto(p, "load_head") /\ h' = [h EXCEPT ![p] = 0]
       ELSE Goto(p, "cas") /\ UNCHANGED h
  /\ UNCHANGED <<head, tail, queue, t, harnessVars>>

\* return NULL, and the caller calls again
PopLoadTail(c) ==
  /\ pc[c] = "load_tail"
  /\ h' = [h EXCEPT ![c] = 0]
  /\ IF QueueEmpty(h[c], tail)
       THEN Goto(c, "load_head") /\ UNCHANGED t
       ELSE Goto(c, "cas") /\ t' = [t EXCEPT ![c] = tail]
  /\ UNCHANGED <<head, tail, queue, harnessVars>>

\* Mutants: a CAS that fails is tried again with the head loaded before; the index
\* is claimed by a plain store.
PushCASAgain(p) ==
  /\ pc[p] = "cas" /\ head = h[p]
  /\ head' = Inc(h[p]) /\ Claim(h[p])
  /\ Goto(p, "access_slot")
  /\ UNCHANGED <<tail, queue, h, t, testVars>>

PushStore(p) ==
  /\ pc[p] = "cas"
  /\ head' = Inc(h[p]) /\ Claim(h[p])
  /\ Goto(p, "access_slot")
  /\ UNCHANGED <<tail, queue, h, t, testVars>>

PushCAS(p) ==
  /\ pc[p] = "cas"
  /\ IF head = h[p]
       THEN head' = Inc(h[p]) /\ Claim(h[p]) /\ Goto(p, "access_slot") /\ UNCHANGED h
       ELSE Goto(p, "load_head") /\ h' = [h EXCEPT ![p] = 0] /\ UNCHANGED <<head, raced>>
  /\ UNCHANGED <<tail, queue, t, testVars>>

PopCAS(c) ==
  /\ pc[c] = "cas"
  /\ IF tail = t[c]
       THEN tail' = Inc(t[c]) /\ Claim(t[c]) /\ Goto(c, "access_slot") /\ UNCHANGED t
       ELSE Goto(c, "load_head") /\ t' = [t EXCEPT ![c] = 0] /\ UNCHANGED <<tail, raced>>
  /\ UNCHANGED <<head, queue, h, testVars>>

\* core.queue[head & kMask] = item; return 0
WriteSlot(p) ==
  /\ pc[p] = "access_slot"
  /\ queue' = [queue EXCEPT ![Slot(h[p])] = <<p, sent[p] + 1>>]
  /\ sent' = [sent EXCEPT ![p] = sent[p] + 1]
  /\ h' = [h EXCEPT ![p] = 0]
  /\ Goto(p, IF sent[p] + 1 < MAX_PUSH_MSG_COUNT THEN "load_head" ELSE "done")
  /\ UNCHANGED <<head, tail, t, index_locals, popmsg_list, raced>>

\* item = core.queue[tail & kMask]; return item, recorded unless it is NULL
ReadSlot(c) ==
  /\ pc[c] = "access_slot"
  /\ LET item == queue[Slot(t[c])]
     IN  popmsg_list' = IF item = NULL THEN popmsg_list
                        ELSE [popmsg_list EXCEPT ![c] = Append(popmsg_list[c], item)]
  /\ t' = [t EXCEPT ![c] = 0]
  /\ Goto(c, IF Len(popmsg_list'[c]) < MAX_POP_MSG_COUNT THEN "load_head" ELSE "done")
  /\ UNCHANGED <<head, tail, queue, h, index_locals, sent, raced>>

-------------------------------------------------------------------------------
(* sizes(): the two indices, one after the other.                          *)

ObserveTail(o) ==
  /\ pc[o] = "load_tail"
  /\ h' = [h EXCEPT ![o] = 0]
  /\ Goto(o, "load_head")
  /\ UNCHANGED <<head, tail, queue, t, harnessVars>>

\* Mutant: the difference of any two indices.
SizeUnchecked(hd, tl) == Sub(hd, tl)

\* What sizes returns; (size_type)-1 stands for -1.
SizeOf(hd, tl) == IF Sub(hd, tl) <= kMask THEN Sub(hd, tl) ELSE -1

Push(p) == LoadHead(p) \/ PushLoadTail(p) \/ PushCAS(p) \/ WriteSlot(p)
Pop(c) == LoadHead(c) \/ PopLoadTail(c) \/ PopCAS(c) \/ ReadSlot(c)
sizes(o) == LoadHead(o) \/ ObserveTail(o)

\* pthread_join returns for every thread.
Joined == (\A th \in Producers \cup Consumers : pc[th] = "done") /\ UNCHANGED vars

Next == \/ \E p \in Producers : Push(p)
        \/ \E c \in Consumers : Pop(c)
        \/ \E o \in Observers : sizes(o)
        \/ Joined

Spec == Init /\ [][Next]_vars

\* The scheduler runs every thread that can take a step.
Fairness == /\ \A p \in Producers : WF_vars(Push(p))
            /\ \A c \in Consumers : WF_vars(Pop(c))

-------------------------------------------------------------------------------
(* Properties.                                                             *)

\* Every variable stays within its type.
TypeOK ==
  /\ index_locals \in {"index_type", "sequence_type"}
  /\ head \in Index /\ tail \in Index
  /\ queue \in [SlotIds -> Messages \cup {NULL}]
  /\ pc \in [Threads -> {"load_head", "load_tail", "cas", "access_slot", "done"}]
  /\ \A o \in Observers : pc[o] \in {"load_head", "load_tail", "done"}
  /\ h \in [Threads -> Index] /\ t \in [Consumers -> Index]
  /\ sent \in [Producers -> 0..MAX_PUSH_MSG_COUNT]
  /\ popmsg_list \in [Consumers -> Seq(Messages)] /\ raced \in BOOLEAN

\* A producer still in its loop has a message left.
QuotaLeft == \A p \in Producers : pc[p] # "done" => sent[p] < MAX_PUSH_MSG_COUNT

\* With 64-bit locals the order of the indices needs a consumer without company.
LocalsSafe ==
  index_locals = "sequence_type" =>
    \A c, d \in Consumers : (pc[c] # "done" /\ pc[d] # "done") => c = d

\* Although head and tail are read at two moments and moved by threads whose
\* checks are older still, the queue never counts more messages than slots and
\* tail never overtakes head.
OccupancyBound == tail <= head /\ head - tail <= kCapacity

Claimed == {m \in Messages : m[2] <= sent[m[1]] + IF pc[m[1]] = "access_slot" THEN 1 ELSE 0}

\* head counts the messages an index has been claimed for.
ClaimsCounted == head = Cardinality(Claimed)

\* What a thread has read bounds what it may do, however old it is.
Sound(th) ==
  /\ pc[th] = "load_tail" => h[th] <= head
  /\ th \in Producers => /\ pc[th] = "cas" => h[th] < tail + kCapacity
                         /\ pc[th] = "access_slot" => h[th] < head
  /\ th \in Consumers =>
       /\ pc[th] = "load_tail" /\ index_locals = "sequence_type" => tail <= h[th]
       /\ pc[th] = "cas" => t[th] < head
       /\ pc[th] = "access_slot" => t[th] < tail
LocalsSound == \A th \in Threads : Sound(th)

\* An index is handed to one producer and to one consumer.
ClaimsUnique ==
  \A a, b \in Threads : (a # b /\ pc[a] = "access_slot" /\ pc[b] = "access_slot") =>
     /\ (a \in Producers /\ b \in Producers) => h[a] # h[b]
     /\ (a \in Consumers /\ b \in Consumers) => t[a] # t[b]

\* The indices counted between tail and head and those claimed by a pop that has yet
\* to read; the live ones among them are written.
Window == {i \in Index : tail <= i /\ i < head}
Reading == {t[c] : c \in {d \in Consumers : pc[d] = "access_slot"}}
InUse == Window \cup Reading
Unwritten == {h[p] : p \in {q \in Producers : pc[q] = "access_slot"}}
Live == InUse \ Unwritten

Pushed(m) == m \in Messages /\ m[2] <= sent[m[1]]
Recorded(m) == \E c \in Consumers : \E i \in DOMAIN popmsg_list[c] : popmsg_list[c][i] = m

\* No message is recorded twice, and none that was not pushed.
RecordedOnce ==
  /\ \A c, d \in Consumers : \A i \in DOMAIN popmsg_list[c], j \in DOMAIN popmsg_list[d] :
        popmsg_list[c][i] = popmsg_list[d][j] => c = d /\ i = j
  /\ \A c \in Consumers : \A i \in DOMAIN popmsg_list[c] : Pushed(popmsg_list[c][i])

\* While no two threads have met at a slot, every message pushed is recorded or at one
\* live index, and no slot serves two indices.
MessagesKept ==
  ~raced =>
    /\ \A i, j \in InUse : i # j => Slot(i) # Slot(j)
    /\ \A i \in Unwritten : tail <= i
    /\ \A i \in Live : Pushed(queue[Slot(i)]) /\ ~Recorded(queue[Slot(i)])
    /\ \A i, j \in Live : queue[Slot(i)] = queue[Slot(j)] => i = j
    /\ \A m \in Messages : Pushed(m) => Recorded(m) \/ \E i \in Live : queue[Slot(i)] = m
    /\ RecordedOnce

\* The indices stay in order, every claim is somebody's alone, and nothing is lost
\* but by a race for a slot.
Inv == /\ TypeOK /\ QuotaLeft /\ LocalsSafe /\ OccupancyBound /\ ClaimsCounted
       /\ LocalsSound /\ ClaimsUnique /\ MessagesKept

\* Unless two threads met at a slot (nothing tells a pop that the push which
\* claimed its slot has written it), pop_list_verify is content: no message is
\* recorded twice, none is made up, and none is missing once the
\* queue is empty.
VerifiedUnlessRaced ==
  ~raced =>
    /\ RecordedOnce
    /\ (head = tail /\ \A th \in Threads : pc[th] # "access_slot")
          => \A m \in Messages : Pushed(m) => Recorded(m)

\* push answers -1 to a queue with room, and pop answers NULL to one with
\* messages, only when another thread has moved the index since this one loaded
\* it: a thread alone is never refused without cause.  The size told by sizes is
\* never more than what the queue holds when it returns, and sizes gives up only
\* on a full queue or on indices that moved between its two loads.
AnswersForCause ==
  [][\A th \in Threads : (pc[th] = "load_tail" /\ pc'[th] = "load_head") =>
       CASE th \in Producers -> Sub(head, tail) = kCapacity \/ head # h[th]
         [] th \in Consumers -> head = tail \/ head # h[th]
         [] th \in Observers ->
              /\ SizeOf(h[th], tail) <= Sub(head, tail)
              /\ SizeOf(h[th], tail) = -1 => Sub(head, tail) = kCapacity \/ head # h[th]]_vars

\* Producers always finish: a CAS that fails means another's succeeded, and the
\* consumers, whatever their slots held, keep moving tail.
ProducersFinish == <>(\A p \in Producers : pc[p] = "done")

===============================================================================
