---------------------------- MODULE SingleRingQueue ----------------------------
(***************************************************************************)
(* include/RingQueue/SingleRingQueue.h: a ring for one producer and one    *)
(* consumer, without any atomic read-modify-write: each side owns one      *)
(* index and only reads the other's.  The two threads are                  *)
(* single_push_task and single_pop_task of src/RingQueue/main.cpp.  Every  *)
(* access to a shared word is a step of its own; compiler barriers and x86 *)
(* keep the stores in program order, which is what is modelled.            *)
(***************************************************************************)
EXTENDS RingIndex, Sequences

CONSTANTS
  MAX_MSG_COUNT,  \* messages of a test
  NULL            \* the contents of an entry zeroed by init

QuotaAssumption == MAX_MSG_COUNT \in Nat \ {0}

VARIABLES
  headSequence, tailSequence,
  entries,
  pc,           \* where the "push" and the "pop" thread are in their call
  head, tail,   \* the locals of push and of pop; 0 while not in use
  pushed,       \* i of single_push_task: messages pushed
  record_list   \* the messages single_pop_task recorded

vars == <<headSequence, tailSequence, entries, pc, head, tail, pushed, record_list>>

Messages == 1..MAX_MSG_COUNT
Threads == {"push", "pop"}

Init ==
  /\ headSequence = 0 /\ tailSequence = 0
  /\ entries = [s \in SlotIds |-> NULL]
  /\ pc = [th \in Threads |-> "load_head"]
  /\ head = [th \in Threads |-> 0]
  /\ tail = [th \in Threads |-> 0]
  /\ pushed = 0
  /\ record_list = << >>

Goto(th, where) == pc' = [pc EXCEPT ![th] = where]
DropLocals(th) == head' = [head EXCEPT ![th] = 0] /\ tail' = [tail EXCEPT ![th] = 0]

\* Mutant: a pop that never looks.
QueueEmptyNever(hd, tl) == FALSE

QueueFull(hd, tl) == Sub(hd, tl) > kMask
QueueEmpty(hd, tl) == tl = hd \/ (tl > hd /\ Sub(hd, tl) > kMask)

LoadHead(th) ==
  /\ pc[th] = "load_head"
  /\ head' = [head EXCEPT ![th] = headSequence]
  /\ Goto(th, "load_tail")
  /\ UNCHANGED <<headSequence, tailSequence, entries, tail, pushed, record_list>>

\* The early return lets the task call again.
LoadTail(th) ==
  /\ pc[th] = "load_tail"
  /\ LET refused == IF th = "push" THEN QueueFull(head[th], tailSequence)
                                   ELSE QueueEmpty(head[th], tailSequence)
     IN  IF refused
           THEN Goto(th, "load_head") /\ DropLocals(th)
           ELSE /\ Goto(th, "entry")
                /\ tail' = [tail EXCEPT ![th] = tailSequence]
                /\ UNCHANGED head
  /\ UNCHANGED <<headSequence, tailSequence, entries, pushed, record_list>>

WriteEntry ==
  /\ pc["push"] = "entry"
  /\ entries' = [entries EXCEPT ![Slot(head["push"])] = pushed + 1]
  /\ Goto("push", "set_order")
  /\ UNCHANGED <<headSequence, tailSequence, head, tail, pushed, record_list>>

\* headSequence.setOrder(next); return 0
SetHead ==
  /\ pc["push"] = "set_order"
  /\ headSequence' = Inc(head["push"])
  /\ DropLocals("push")
  /\ pushed' = pushed + 1
  /\ Goto("push", IF pushed' < MAX_MSG_COUNT THEN "load_head" ELSE "done")
  /\ UNCHANGED <<tailSequence, entries, record_list>>

\* entry = entries[tail & kMask], which the task will record
ReadEntry ==
  /\ pc["pop"] = "entry"
  /\ record_list' = Append(record_list, entries[Slot(tail["pop"])])
  /\ Goto("pop", "set_order")
  /\ UNCHANGED <<headSequence, tailSequence, entries, head, tail, pushed>>

\* Mutant: the slot is given back before it is read.
SetTailEarly ==
  /\ pc["pop"] \in {"entry", "set_order"}
  /\ IF pc["pop"] = "entry"
       THEN /\ tailSequence' = Inc(tail["pop"])
            /\ Goto("pop", "set_order")
            /\ UNCHANGED <<record_list, head, tail>>
       ELSE /\ record_list' = Append(record_list, entries[Slot(tail["pop"])])
            /\ DropLocals("pop")
            /\ Goto("pop", IF Len(record_list') < MAX_MSG_COUNT THEN "load_head" ELSE "done")
            /\ UNCHANGED tailSequence
  /\ UNCHANGED <<headSequence, entries, pushed>>

\* tailSequence.setOrder(next); return 0
SetTail ==
  /\ pc["pop"] = "set_order"
  /\ tailSequence' = Inc(tail["pop"])
  /\ DropLocals("pop")
  /\ Goto("pop", IF Len(record_list) < MAX_MSG_COUNT THEN "load_head" ELSE "done")
  /\ UNCHANGED <<headSequence, entries, pushed, record_list>>

push == LoadHead("push") \/ LoadTail("push") \/ WriteEntry \/ SetHead
pop == LoadHead("pop") \/ LoadTail("pop") \/ ReadEntry \/ SetTail

\* pthread_join returns for both threads.
Joined == (\A th \in Threads : pc[th] = "done") /\ UNCHANGED vars

Next == push \/ pop \/ Joined

Spec == Init /\ [][Next]_vars

-------------------------------------------------------------------------------
(* Properties.                                                             *)

\* Every variable stays within its type.
TypeOK ==
  /\ headSequence \in Index /\ tailSequence \in Index
  /\ entries \in [SlotIds -> Messages \cup {NULL}]
  /\ pc \in [Threads -> {"load_head", "load_tail", "entry", "set_order", "done"}]
  /\ head \in [Threads -> Index] /\ tail \in [Threads -> Index]
  /\ pushed \in 0..MAX_MSG_COUNT
  /\ record_list \in Seq(Messages)

\* Producer and consumer are never at one slot: what the consumer copies is not
\* being overwritten by the next lap, though neither sees the other's locals.
NoSlotRace ==
  (pc["push"] = "entry" /\ pc["pop"] = "entry")
     => Slot(head["push"]) # Slot(tail["pop"])

\* What the consumer has not given back: from the read of its entry on, the
\* message at tail is already recorded.
contents ==
  LET taken == IF pc["pop"] = "set_order" THEN 1 ELSE 0
  IN  [i \in 1..(Sub(headSequence, tailSequence) - taken) |->
         <<"push", entries[Slot(Offset(tailSequence, taken + i - 1))]>>]

popped == [c \in {"pop"} |-> [i \in 1..Len(record_list) |-> <<"push", record_list[i]>>]]

\* The queue as a bounded FIFO: a message is in it from the store of head to the
\* read of its entry.
Abstract == INSTANCE BoundedQueue
  WITH Producers <- {"push"}, Consumers <- {"pop"}, Capacity <- kCapacity,
       pushed <- [p \in {"push"} |-> pushed]

\* Every message has crossed the queue.
Finished == \A th \in Threads : pc[th] = "done"
===============================================================================
