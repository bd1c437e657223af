------------------------ MODULE DisruptorRingQueueOld ------------------------
(***************************************************************************)
(* include/RingQueue/DisruptorRingQueueOld.h: the first port of the        *)
(* disruptor.  Its push, pop and waitFor take the steps of                 *)
(* DisruptorRingQueue, whose actions are used here.  What differs is where *)
(* the slots live: DisruptorRingQueueOld allocates them and marks every    *)
(* flag -1; SmallDisruptorRingQueue has them inside the object, and its    *)
(* init_queue clears the entries but leaves the flags as the memory was.   *)
(* The pairs on core.info are in OldLockedRing and LockFreeRingQueue.      *)
(***************************************************************************)
EXTENDS DisruptorRingQueue

CONSTANT
  UnsetFlags  \* flags that memory nobody has written may hold: 0 in a static
              \* object, anything on the stack

ASSUME StorageAssumption == UnsetFlags \subseteq Int

VARIABLE
  kIsAllocOnHeap  \* TRUE for DisruptorRingQueueOld, FALSE for
                  \* SmallDisruptorRingQueue

varsOld == <<vars, kIsAllocOnHeap>>

\* The two init_queue: newBufferData[i] = -1, or nothing at all.
init_queue ==
  /\ entries = [s \in 0..kIndexMask |-> NULL]
  /\ \/ kIsAllocOnHeap /\ availableBuffer = [s \in 0..kIndexMask |-> -1]
     \/ ~kIsAllocOnHeap /\ availableBuffer \in [0..kIndexMask -> UnsetFlags]

InitOld == InitSequences /\ kIsAllocOnHeap \in BOOLEAN /\ init_queue

getMinimumSequence(p) == LoadGating(p) \/ LoadWorkForGate(p)
publish(p) == Publish(p)
getHighestPublishedSequence(c) == IsAvailable(c)
waitFor(c) == WaitForCursor(c) \/ getHighestPublishedSequence(c)

push(p) == \/ LoadCursor(p) \/ LoadCache(p) \/ getMinimumSequence(p) \/ StoreCache(p)
           \/ ClaimCursor(p) \/ WriteEntry(p) \/ publish(p)

\* SetMaxValue is the consumer's own last store, as in DisruptorRingQueue.
pop(c) == \/ LoadWork(c) \/ StoreGating(c) \/ ClaimWork(c) \/ waitFor(c)
          \/ ReadEntry(c) \/ SetMaxValue(c)

NextOld ==
  /\ \/ \E p \in Producers : push(p)
     \/ \E c \in Consumers : pop(c)
     \/ Joined
  /\ UNCHANGED kIsAllocOnHeap

SpecOld == InitOld /\ [][NextOld]_varsOld

-------------------------------------------------------------------------------
(* Properties.                                                             *)

\* sequence has been claimed by a producer that has not published it.
InFlight(sequence) == \E p \in Producers : Fills(p) /\ nextSequence(p) = sequence

\* With flags left at zero by static storage, only the first lap is misled: no
\* consumer copies an entry of a later lap before its producer has published it
\* (isAvailable compares laps, and a lap above 0 is only ever stored there by
\* setAvailable).
LaterLapsSound ==
  \A c \in Consumers :
    (pc[c] = "read_entry" /\ data[c].nextSequence >= kCapacity)
      => /\ data[c].nextSequence <= cursor
         /\ ~InFlight(data[c].nextSequence)

\* A ring whose flags init_queue marked passes disruptor_pop_list_verify: no
\* message is recorded twice or made up, and none is missing when every thread has
\* returned; and it gives one consumer the messages of one producer in their order.
PopListCorrectIfMarked == kIsAllocOnHeap => PopListCorrect /\ ProducerOrder
===============================================================================
