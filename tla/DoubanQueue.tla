----------------------------- MODULE DoubanQueue -----------------------------
(***************************************************************************)
(* The lock-free queue of include/RingQueue/q3.h: a push claims an index   *)
(* by CAS on p.head, fills its slot and publishes by moving p.tail, in the *)
(* order of the claims; a pop does the same with c.head and c.tail.  The   *)
(* threads are those of src/RingQueue/main.cpp (FUNC_DOUBAN_Q3H).  Every   *)
(* access to a shared word is a step of its own.                           *)
(***************************************************************************)
EXTENDS RingIndex, FiniteSets, Sequences

CONSTANTS
  Producers, Consumers,
  MAX_PUSH_MSG_COUNT, MAX_POP_MSG_COUNT,
  StartIndex,  \* value of the four indices when observation starts: 0 for a
               \* queue fresh from qinit, else one idle after earlier traffic
  NULL,
  STALE        \* a pointer left in its slot by that earlier traffic

Threads == Producers \cup Consumers

ASSUME ThreadAssumption ==
  /\ IsFiniteSet(Producers) /\ Producers \cap Consumers = {}
  /\ NULL # STALE
  /\ \A p \in Producers, i \in 1..MAX_PUSH_MSG_COUNT :
        NULL # <<p, i>> /\ STALE # <<p, i>>

ASSUME QuotaAssumption ==
  /\ MAX_PUSH_MSG_COUNT \in Nat \ {0}
  /\ MAX_POP_MSG_COUNT \in Nat \ {0}
  /\ StartIndex \in Index

\* The counts of a test stay below one lap of the indices, so that a CAS which
\* finds the index it loaded finds it unmoved (2^32 pushes would have to pass a
\* stalled thread to break this).
ASSUME LapAssumption ==
  Cardinality(Producers) * MAX_PUSH_MSG_COUNT < IndexModulus

VARIABLES
  p_head, p_tail,  \* q->p.head, q->p.tail
  c_head, c_tail,  \* q->c.head, q->c.tail
  msgs,            \* q->msgs
  pc,              \* where each thread is in its push or pop
  h,               \* each thread's local "head"
  ret,             \* each consumer's local "ret"
  sent,            \* messages each producer has pushed
  popmsg_list      \* messages each consumer recorded

pushVars == <<p_head, p_tail>>
popVars == <<c_head, c_tail>>
harnessVars == <<sent, popmsg_list>>
vars == <<p_head, p_tail, c_head, c_tail, msgs, pc, h, ret, sent, popmsg_list>>

Messages == Producers \X (1..MAX_PUSH_MSG_COUNT)
Pointers == Messages \cup {NULL, STALE}

\* Between the CAS that claims an index and the return.
ClaimPCs == {"access_slot", "await_turn", "publish"}
PCs == {"load_head", "load_tail", "cas", "done"} \cup ClaimPCs

\* qinit callocs the slots; a slot passed earlier keeps its old pointer.
Init ==
  /\ p_head = StartIndex /\ p_tail = StartIndex
  /\ c_head = StartIndex /\ c_tail = StartIndex
  /\ msgs = [s \in SlotIds |-> IF s < StartIndex THEN STALE ELSE NULL]
  /\ pc = [th \in Threads |-> "load_head"]
  /\ h = [th \in Threads |-> StartIndex]
  /\ ret = [c \in Consumers |-> NULL]
  /\ sent = [p \in Producers |-> 0]
  /\ popmsg_list = [c \in Consumers |-> << >>]

Goto(th, where) == pc' = [pc EXCEPT ![th] = where]

-------------------------------------------------------------------------------
(* push                                                                    *)

\* Mutant: refuses a push with one slot to spare.
QueueFullEarly(hd, tl) == Sub(hd, tl) >= kMask - 1

\* mask + tail - head < 1U: the queue holds at most mask messages
QueueFull(hd, tl) == Sub(hd, tl) = kMask

PushLoadHead(p) ==
  /\ pc[p] = "load_head"
  /\ h' = [h EXCEPT ![p] = p_head]
  /\ Goto(p, "load_tail")
  /\ UNCHANGED <<pushVars, popVars, msgs, ret, harnessVars>>

\* tail = q->c.tail, and return -1 when full: the caller tries again
PushLoadTail(p) ==
  /\ pc[p] = "load_tail"
  /\ Goto(p, IF QueueFull(h[p], c_tail) THEN "load_head" ELSE "cas")
  /\ UNCHANGED <<pushVars, popVars, msgs, h, ret, harnessVars>>

\* Mutant: an index claimed by a plain store.
PushClaimBlind(p) ==
  /\ pc[p] = "cas"
  /\ p_head' = Inc(h[p])
  /\ Goto(p, "access_slot")
  /\ UNCHANGED <<p_tail, popVars, msgs, h, ret, harnessVars>>

PushCAS(p) ==
  /\ pc[p] = "cas"
  /\ IF p_head = h[p]
       THEN p_head' = Inc(h[p]) /\ Goto(p, "access_slot")
       ELSE Goto(p, "load_head") /\ UNCHANGED p_head
  /\ UNCHANGED <<p_tail, popVars, msgs, h, ret, harnessVars>>

WriteSlot(p) ==
  /\ pc[p] = "access_slot"
  /\ msgs' = [msgs EXCEPT ![Slot(h[p])] = <<p, sent[p] + 1>>]
  /\ Goto(p, "await_turn")
  /\ UNCHANGED <<pushVars, popVars, h, ret, harnessVars>>

\* Mutant: publishes out of turn.
PushSkipTurn(p) ==
  /\ pc[p] = "await_turn"
  /\ Goto(p, "publish")
  /\ UNCHANGED <<pushVars, popVars, msgs, h, ret, harnessVars>>

\* while (q->p.tail != head)
PushAwaitTurn(p) ==
  /\ pc[p] = "await_turn" /\ p_tail = h[p]
  /\ Goto(p, "publish")
  /\ UNCHANGED <<pushVars, popVars, msgs, h, ret, harnessVars>>

\* Mutant: publishes every claimed index instead of its own.
PushPublishHead(p) ==
  /\ pc[p] = "publish"
  /\ p_tail' = p_head
  /\ sent' = [sent EXCEPT ![p] = sent[p] + 1]
  /\ Goto(p, IF sent[p] + 1 < MAX_PUSH_MSG_COUNT THEN "load_head" ELSE "done")
  /\ UNCHANGED <<p_head, popVars, msgs, h, ret, popmsg_list>>

\* q->p.tail = next; return 0, and the caller goes on to its next message
PushPublish(p) ==
  /\ pc[p] = "publish"
  /\ p_tail' = Inc(h[p])
  /\ sent' = [sent EXCEPT ![p] = sent[p] + 1]
  /\ Goto(p, IF sent[p] + 1 < MAX_PUSH_MSG_COUNT THEN "load_head" ELSE "done")
  /\ UNCHANGED <<p_head, popVars, msgs, h, ret, popmsg_list>>

-------------------------------------------------------------------------------
(* pop                                                                     *)

\* tail - head < 1U
QueueEmpty(hd, tl) == hd = tl

PopLoadHead(c) ==
  /\ pc[c] = "load_head"
  /\ h' = [h EXCEPT ![c] = c_head]
  /\ Goto(c, "load_tail")
  /\ UNCHANGED <<pushVars, popVars, msgs, ret, harnessVars>>

\* tail = q->p.tail, and return NULL when empty: the caller tries again
PopLoadTail(c) ==
  /\ pc[c] = "load_tail"
  /\ Goto(c, IF QueueEmpty(h[c], p_tail) THEN "load_head" ELSE "cas")
  /\ UNCHANGED <<pushVars, popVars, msgs, h, ret, harnessVars>>

PopCAS(c) ==
  /\ pc[c] = "cas"
  /\ IF c_head = h[c]
       THEN c_head' = Inc(h[c]) /\ Goto(c, "access_slot")
       ELSE Goto(c, "load_head") /\ UNCHANGED c_head
  /\ UNCHANGED <<pushVars, c_tail, msgs, h, ret, harnessVars>>

ReadSlot(c) ==
  /\ pc[c] = "access_slot"
  /\ ret' = [ret EXCEPT ![c] = msgs[Slot(h[c])]]
  /\ Goto(c, "await_turn")
  /\ UNCHANGED <<pushVars, popVars, msgs, h, harnessVars>>

\* Mutant: frees its slot, and the slots before it, out of turn.
PopSkipTurn(c) ==
  /\ pc[c] = "await_turn"
  /\ Goto(c, "publish")
  /\ UNCHANGED <<pushVars, popVars, msgs, h, ret, harnessVars>>

\* while (q->c.tail != head)
PopAwaitTurn(c) ==
  /\ pc[c] = "await_turn" /\ c_tail = h[c]
  /\ Goto(c, "publish")
  /\ UNCHANGED <<pushVars, popVars, msgs, h, ret, harnessVars>>

\* q->c.tail = next; return ret, which the caller records unless it is NULL
PopPublish(c) ==
  /\ pc[c] = "publish"
  /\ c_tail' = Inc(h[c])
  /\ popmsg_list' = IF ret[c] = NULL THEN popmsg_list
                    ELSE [popmsg_list EXCEPT ![c] = Append(popmsg_list[c], ret[c])]
  /\ ret' = [ret EXCEPT ![c] = NULL]
  /\ Goto(c, IF Len(popmsg_list'[c]) < MAX_POP_MSG_COUNT THEN "load_head" ELSE "done")
  /\ UNCHANGED <<pushVars, c_head, msgs, h, sent>>

Push(p) == \/ PushLoadHead(p) \/ PushLoadTail(p) \/ PushCAS(p)
           \/ WriteSlot(p) \/ PushAwaitTurn(p) \/ PushPublish(p)

Pop(c) == \/ PopLoadHead(c) \/ PopLoadTail(c) \/ PopCAS(c)
          \/ ReadSlot(c) \/ PopAwaitTurn(c) \/ PopPublish(c)

\* pthread_join returns for every thread.
Joined == (\A th \in Threads : pc[th] = "done") /\ UNCHANGED vars

Next == \/ \E p \in Producers : Push(p)
        \/ \E c \in Consumers : Pop(c)
        \/ Joined

Spec == Init /\ [][Next]_vars

-------------------------------------------------------------------------------
(* Properties.                                                             *)

\* Every variable stays within its type.
TypeOK ==
  /\ p_head \in Index /\ p_tail \in Index /\ c_head \in Index /\ c_tail \in Index
  /\ msgs \in [SlotIds -> Pointers]
  /\ pc \in [Threads -> PCs]
  /\ h \in [Threads -> Index]
  /\ ret \in [Consumers -> Pointers]
  /\ sent \in [Producers -> 0..MAX_PUSH_MSG_COUNT]
  /\ popmsg_list \in [Consumers -> Seq(Pointers)]

\* A producer still in its loop has a message left.
QuotaLeft == \A p \in Producers : pc[p] # "done" => sent[p] < MAX_PUSH_MSG_COUNT

\* How many indices come before i, counted from the start of observation.
Passed(i) == Sub(i, StartIndex)

\* The four indices never overtake each other: consumed, claimed for reading,
\* published, claimed for writing, and one free slot.
IndexOrder ==
  /\ Passed(c_tail) <= Passed(c_head) /\ Passed(c_head) <= Passed(p_tail)
  /\ Passed(p_tail) <= Passed(p_head) /\ Passed(p_head) <= Passed(c_tail) + kMask

Claims(th) == pc[th] \in ClaimPCs

\* The messages for which an index has been claimed are as many as p.head has
\* passed: no index is claimed twice or for nothing.
Claimed == {m \in Messages : m[2] <= sent[m[1]] + IF Claims(m[1]) THEN 1 ELSE 0}
ClaimsCounted == Passed(p_head) = Cardinality(Claimed)

\* What a thread concludes from the indices it has read is still so, however old
\* they are; an index it has claimed lies between its side's tail and head.
PushSound(p) ==
  /\ pc[p] \in {"load_tail", "cas"} => sent[p] <= Passed(h[p]) /\ Passed(h[p]) <= Passed(p_head)
  /\ pc[p] = "cas" => Passed(h[p]) < Passed(c_tail) + kMask
  /\ Claims(p) => Passed(p_tail) <= Passed(h[p]) /\ Passed(h[p]) < Passed(p_head)
  /\ pc[p] = "publish" => h[p] = p_tail
PopSound(c) ==
  /\ pc[c] \in {"load_tail", "cas"} => Passed(h[c]) <= Passed(c_head)
  /\ pc[c] = "cas" => Passed(h[c]) < Passed(p_tail)
  /\ Claims(c) => Passed(c_tail) <= Passed(h[c]) /\ Passed(h[c]) < Passed(c_head)
  /\ pc[c] = "publish" => h[c] = c_tail
HeadsSound == /\ \A p \in Producers : PushSound(p)
              /\ \A c \in Consumers : PopSound(c)

\* No index is claimed by two producers, nor by two consumers.
SameSide(a, b) == {a, b} \subseteq Producers \/ {a, b} \subseteq Consumers
ClaimsApart ==
  \A a, b \in Threads : (a # b /\ SameSide(a, b) /\ Claims(a) /\ Claims(b)) => h[a] # h[b]

\* What is published and not claimed is messages; a claimed slot, once written, holds
\* its producer's until it is published, and a pop gets away with a message.
SlotsFilled ==
  /\ \A i \in Index : (Passed(c_head) <= Passed(i) /\ Passed(i) < Passed(p_tail))
                        => msgs[Slot(i)] \in Messages
  /\ \A p \in Producers :
       pc[p] \in {"await_turn", "publish"} => msgs[Slot(h[p])] = <<p, sent[p] + 1>>
  /\ \A c \in Consumers : /\ pc[c] = "access_slot" => msgs[Slot(h[c])] \in Messages
                          /\ pc[c] \in {"await_turn", "publish"} => ret[c] \in Messages

\* The inductive invariant behind NoSlotRace, RefinesBoundedQueue and HonestRefusals.
Inv == /\ TypeOK /\ QuotaLeft /\ IndexOrder /\ ClaimsCounted /\ HeadsSound
       /\ ClaimsApart /\ SlotsFilled

\* Two threads are never at the same slot of msgs, so neither a push overwrites
\* what a pop is about to read nor do two of a kind share a slot.
NoSlotRace ==
  \A a, b \in Threads :
    (a # b /\ pc[a] = "access_slot" /\ pc[b] = "access_slot") => Slot(h[a]) # Slot(h[b])

\* The published messages no pop has claimed.
contents == [i \in 1..Sub(p_tail, c_head) |-> msgs[Slot(Offset(c_head, i - 1))]]

\* A push counts when it publishes, a pop when its CAS claims an index.
popped ==
  [c \in Consumers |->
     CASE pc[c] = "access_slot" -> Append(popmsg_list[c], msgs[Slot(h[c])])
       [] pc[c] \in {"await_turn", "publish"} -> Append(popmsg_list[c], ret[c])
       [] OTHER -> popmsg_list[c]]

Abstract == INSTANCE BoundedQueue WITH Capacity <- kMask, pushed <- sent

\* q3.h is a FIFO queue of at most mask messages, each popped once, in order of
\* publication, though no two of its steps are protected by a lock.
RefinesBoundedQueue == Abstract!Spec

\* pop returns NULL only at a moment when no published message is unclaimed,
\* and push returns -1 only when mask indices are claimed and not yet freed,
\* however stale the head the thread compared.
HonestRefusals ==
  [][/\ \A c \in Consumers : (pc[c] = "load_tail" /\ pc'[c] = "load_head") => contents = << >>
     /\ \A p \in Producers : (pc[p] = "load_tail" /\ pc'[p] = "load_head")
                                => Sub(p_head, c_tail) = kMask]_vars

\* Every message has crossed the queue.
Finished == \A th \in Threads : pc[th] = "done"
===============================================================================
