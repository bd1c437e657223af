------------------------------- MODULE MqQueue -------------------------------
(***************************************************************************)
(* The queue of src/RingQueue/mq.c: queue_push claims an index by CAS on   *)
(* tail and then fills its slot; queue_pop empties the slot at head by CAS *)
(* and then advances head by a plain increment.  A slot that holds NULL is *)
(* free.  Every access to a shared word is a step of its own.  The builds  *)
(* are those with the CAS of queue_pop; clang, Apple and FreeBSD compile   *)
(* it out (the mutant PopNoCAS).                                           *)
(***************************************************************************)
EXTENDS RingIndex, FiniteSets, Sequences

CONSTANTS
  Producers, Consumers,
  MessagesEach,  \* messages a producer pushes: a bound
  StartIndex,    \* head and tail when observation starts, the queue idle
  NULL

Threads == Producers \cup Consumers

\* Fewer pushes than the index has values, so that a CAS of tail that finds the
\* value it loaded finds it unmoved.
MqAssumption ==
  /\ Producers \cap Consumers = {}
  /\ MessagesEach \in Nat \ {0} /\ StartIndex \in Index
  /\ Cardinality(Producers) * MessagesEach < IndexModulus
  /\ \A p \in Producers, i \in 1..MessagesEach : NULL # <<p, i>>

VARIABLES
  head, tail, q,   \* of struct queue
  pc,              \* where each thread is in its push or pop
  l_head, l_tail,  \* each thread's locals
  m,               \* each consumer's local
  sent,            \* messages each producer has pushed
  got,             \* messages each consumer has been given
  lapped           \* whether a pop took a slot that head had left

locals == <<l_head, l_tail, m>>
vars == <<head, tail, q, pc, l_head, l_tail, m, sent, got, lapped>>

Messages == Producers \X (1..MessagesEach)

\* queue_create
Init ==
  /\ head = StartIndex /\ tail = StartIndex
  /\ q = [s \in SlotIds |-> NULL]
  /\ pc = [t \in Threads |-> "start"]
  /\ l_head = [t \in Threads |-> StartIndex]
  /\ l_tail = [t \in Threads |-> StartIndex]
  /\ m = [c \in Consumers |-> NULL]
  /\ sent = [p \in Producers |-> 0]
  /\ got = [c \in Consumers |-> << >>]
  /\ lapped = FALSE

Goto(t, where) == pc' = [pc EXCEPT ![t] = where]

-------------------------------------------------------------------------------
(* queue_push                                                              *)

\* head + QSZ == tail
Full(hd, tl) == Sub(tl, hd) = kCapacity

PushLoadTail(p) ==
  /\ pc[p] = "start" /\ sent[p] < MessagesEach
  /\ l_tail' = [l_tail EXCEPT ![p] = tail]
  /\ Goto(p, "load_head")
  /\ UNCHANGED <<head, tail, q, l_head, m, sent, got, lapped>>

\* Returns NULL when full; the caller tries again.
PushLoadHead(p) ==
  /\ pc[p] = "load_head"
  /\ l_head' = [l_head EXCEPT ![p] = head]
  /\ Goto(p, IF Full(head, l_tail[p]) THEN "start" ELSE "cas")
  /\ UNCHANGED <<head, tail, q, l_tail, m, sent, got, lapped>>

PushCAS(p) ==
  /\ pc[p] = "cas"
  /\ IF tail = l_tail[p] THEN tail' = Inc(tail) /\ Goto(p, "write")
                         ELSE UNCHANGED tail /\ Goto(p, "start")
  /\ UNCHANGED <<head, q, locals, sent, got, lapped>>

PushWrite(p) ==
  /\ pc[p] = "write"
  /\ q' = [q EXCEPT ![Slot(l_tail[p])] = <<p, sent[p] + 1>>]
  /\ sent' = [sent EXCEPT ![p] = sent[p] + 1]
  /\ Goto(p, "start")
  /\ UNCHANGED <<head, tail, locals, got, lapped>>

-------------------------------------------------------------------------------
(* queue_pop                                                               *)

PopLoadHead(c) ==
  /\ pc[c] = "start"
  /\ l_head' = [l_head EXCEPT ![c] = head]
  /\ Goto(c, "load_tail")
  /\ UNCHANGED <<head, tail, q, l_tail, m, sent, got, lapped>>

\* Returns NULL when empty; the caller tries again.
PopLoadTail(c) ==
  /\ pc[c] = "load_tail"
  /\ Goto(c, IF l_head[c] = tail THEN "start" ELSE "load_slot")
  /\ UNCHANGED <<head, tail, q, locals, sent, got, lapped>>

\* Returns NULL when the slot is claimed by a push that has not filled it, or
\* emptied by a pop that has not advanced head.
PopLoadSlot(c) ==
  /\ pc[c] = "load_slot"
  /\ m' = [m EXCEPT ![c] = q[Slot(l_head[c])]]
  /\ Goto(c, IF m'[c] = NULL THEN "start" ELSE "cas")
  /\ UNCHANGED <<head, tail, q, l_head, l_tail, sent, got, lapped>>

\* Mutant: the message is taken as it was read, as in the clang build.
PopNoCAS(c) ==
  /\ pc[c] = "cas"
  /\ Goto(c, "load_inc")
  /\ UNCHANGED <<head, tail, q, locals, sent, got, lapped>>

PopCAS(c) ==
  /\ pc[c] = "cas"
  /\ IF q[Slot(l_head[c])] = m[c]
     THEN /\ q' = [q EXCEPT ![Slot(l_head[c])] = NULL]
          /\ lapped' = (lapped \/ head # l_head[c])
          /\ Goto(c, "load_inc")
     ELSE Goto(c, "start") /\ UNCHANGED <<q, lapped>>
  /\ UNCHANGED <<head, tail, locals, sent, got>>

\* q->head ++: a load ...
PopLoadInc(c) ==
  /\ pc[c] = "load_inc"
  /\ l_head' = [l_head EXCEPT ![c] = head]
  /\ Goto(c, "store_inc")
  /\ UNCHANGED <<head, tail, q, l_tail, m, sent, got, lapped>>

\* ... and a store; return m.
PopStoreInc(c) ==
  /\ pc[c] = "store_inc"
  /\ head' = Inc(l_head[c])
  /\ got' = [got EXCEPT ![c] = Append(got[c], m[c])]
  /\ Goto(c, "start")
  /\ UNCHANGED <<tail, q, locals, sent, lapped>>

-------------------------------------------------------------------------------

Push(p) == PushLoadTail(p) \/ PushLoadHead(p) \/ PushCAS(p) \/ PushWrite(p)

Pop(c) == \/ PopLoadHead(c) \/ PopLoadTail(c) \/ PopLoadSlot(c)
          \/ PopCAS(c) \/ PopLoadInc(c) \/ PopStoreInc(c)

Next == (\E p \in Producers : Push(p)) \/ (\E c \in Consumers : Pop(c))

Spec == Init /\ [][Next]_vars

-------------------------------------------------------------------------------
(* Properties                                                              *)

\* What a consumer holds between its CAS and its return counts as popped, what
\* a producer has claimed a place for counts as pushed.
Taken(c) == pc[c] \in {"load_inc", "store_inc"}
popped == [c \in Consumers |-> IF Taken(c) THEN Append(got[c], m[c]) ELSE got[c]]
pushed == [p \in Producers |-> IF pc[p] = "write" THEN sent[p] + 1 ELSE sent[p]]

\* The message of a place that is claimed, whether or not its slot is filled.
At(i) ==
  IF \E p \in Producers : pc[p] = "write" /\ l_tail[p] = i
  THEN LET p == CHOOSE p \in Producers : pc[p] = "write" /\ l_tail[p] = i
       IN  <<p, sent[p] + 1>>
  ELSE q[Slot(i)]

contents ==
  LET first == IF \E c \in Consumers : Taken(c) THEN Inc(head) ELSE head
  IN  [i \in 1..Sub(tail, first) |-> At(Offset(first, i - 1))]

Given == UNION {{popped[c][i] : i \in DOMAIN popped[c]} : c \in Consumers}
Held == {contents[i] : i \in DOMAIN contents}
Claimed == {msg \in Messages : msg[2] <= pushed[msg[1]]}

\* Every variable stays within its type.
TypeOK ==
  /\ head \in Index /\ tail \in Index /\ q \in [SlotIds -> Messages \cup {NULL}]
  /\ l_head \in [Threads -> Index] /\ l_tail \in [Threads -> Index]
  /\ m \in [Consumers -> Messages \cup {NULL}]
  /\ sent \in [Producers -> 0..MessagesEach]
  /\ got \in [Consumers -> Seq(Messages)] /\ lapped \in BOOLEAN

\* No message is given to two pops, also when a pop takes a slot that head left
\* a lap ago: the CAS of the slot decides, not head.
PoppedOnce ==
  \A c, d \in Consumers : \A i \in DOMAIN popped[c], j \in DOMAIN popped[d] :
    popped[c][i] = popped[d][j] => c = d /\ i = j

\* While no pop has taken a slot a lap late, what is pushed is popped or waiting
\* between head and tail: the plain increment of head is enough, because the
\* next pop finds an empty slot until it is done.
NothingLost ==
  ~lapped => /\ Given \cup Held = Claimed
             /\ Given \cap Held = {}
             /\ Sub(tail, head) <= kCapacity

\* The queue stops for good, each push refused as full and each pop finding an
\* empty slot at head, only after a pop was a whole lap late: it took a younger
\* message and advanced head past an older one.
Wedged ==
  /\ Full(head, tail) /\ q[Slot(head)] = NULL
  /\ \A t \in Threads : pc[t] = "start"
WedgedOnlyIfLapped == Wedged => lapped

\* With one consumer the queue is a FIFO of QSZ messages.
Abstract == INSTANCE BoundedQueue WITH Capacity <- kCapacity

\* Every message has been popped.
Finished == Given = Messages
===============================================================================
