---------------------------- MODULE SerialRingQueue ----------------------------
(***************************************************************************)
(* include/RingQueue/SerialRingQueue.h, the ring for a single thread, in   *)
(* the loop of SerialRingQueue_Test (src/RingQueue/main.cpp): rounds of at *)
(* most max_step pushes, then as many pops, whatever the calls return.     *)
(* With one thread a call is one step.                                     *)
(***************************************************************************)
EXTENDS RingIndex, Sequences

CONSTANTS
  QSIZE,         \* the size asked for; kCapacity is rounded up from it
  MAX_MSG_CNT,   \* messages of the test
  MAX_STEP,      \* 16 in the code
  NULL           \* the contents of an entry zeroed by init

SizeAssumption ==
  /\ QSIZE \in Nat \ {0} /\ QSIZE <= kCapacity
  /\ MAX_MSG_CNT \in Nat \ {0} /\ MAX_STEP \in Nat \ {0}

Lesser(a, b) == IF a < b THEN a ELSE b

\* JIMI_MIN(16, QSIZE)
max_step == Lesser(MAX_STEP, QSIZE)

VARIABLES
  headSequence, tailSequence, entries,
  remain,        \* messages of the rounds not begun
  i,             \* calls left in this half of the round
  pushing,       \* TRUE in the first half
  step,          \* calls of each half
  push_cnt,      \* pushes that succeeded; pushEvent points at the next message
  popEventList   \* the messages recorded

vars == <<headSequence, tailSequence, entries, remain, i, pushing, step, push_cnt,
          popEventList>>

Messages == 1..MAX_MSG_CNT

Init ==
  /\ headSequence = 0 /\ tailSequence = 0
  /\ entries = [s \in SlotIds |-> NULL]
  /\ remain = MAX_MSG_CNT - Lesser(max_step, MAX_MSG_CNT)
  /\ step = Lesser(max_step, MAX_MSG_CNT)
  /\ i = step
  /\ pushing = TRUE
  /\ push_cnt = 0
  /\ popEventList = << >>

QueueFull == Sub(headSequence, tailSequence) > kMask
QueueEmpty ==
  \/ tailSequence = headSequence
  \/ tailSequence > headSequence /\ Sub(headSequence, tailSequence) > kMask

\* The for loops and the while loop around them.
NextCall ==
  IF i > 1 THEN i' = i - 1 /\ UNCHANGED <<pushing, step, remain>>
  ELSE IF pushing THEN pushing' = FALSE /\ i' = step /\ UNCHANGED <<step, remain>>
  ELSE /\ pushing' = TRUE
       /\ step' = Lesser(max_step, remain)
       /\ i' = step'
       /\ remain' = remain - step'

push ==
  /\ pushing /\ i > 0
  /\ IF QueueFull
       THEN UNCHANGED <<headSequence, entries, push_cnt>>
       ELSE /\ entries' = [entries EXCEPT ![Slot(headSequence)] = push_cnt + 1]
            /\ headSequence' = Inc(headSequence)
            /\ push_cnt' = push_cnt + 1
  /\ NextCall
  /\ UNCHANGED <<tailSequence, popEventList>>

pop ==
  /\ ~pushing
  /\ IF QueueEmpty
       THEN UNCHANGED <<tailSequence, popEventList>>
       ELSE /\ popEventList' = Append(popEventList, entries[Slot(tailSequence)])
            /\ tailSequence' = Inc(tailSequence)
  /\ NextCall
  /\ UNCHANGED <<headSequence, entries, push_cnt>>

Finished == pushing /\ i = 0 /\ UNCHANGED vars

Next == push \/ pop \/ Finished

Spec == Init /\ [][Next]_vars

-------------------------------------------------------------------------------
(* Properties.                                                             *)

\* Every variable stays within its type.
TypeOK ==
  /\ headSequence \in Index /\ tailSequence \in Index
  /\ entries \in [SlotIds -> Messages \cup {NULL}]
  /\ remain \in 0..MAX_MSG_CNT /\ i \in 0..max_step /\ step \in 0..max_step
  /\ pushing \in BOOLEAN
  /\ push_cnt \in 0..MAX_MSG_CNT
  /\ popEventList \in Seq(Messages)

\* What disruptor_pop_list_verify is to find: the list is the messages in the
\* order of the pushes, without a gap, and after every round all of them,
\* although the test ignores calls that fail.
PopListCorrect ==
  /\ \A k \in 1..Len(popEventList) : popEventList[k] = k
  /\ pushing /\ i = step => Len(popEventList) = MAX_MSG_CNT - remain - step
===============================================================================
