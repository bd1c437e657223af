------------------------- MODULE DisruptorRingQueueEx -------------------------
(***************************************************************************)
(* include/RingQueue/DisruptorRingQueueEx.h: DisruptorRingQueue with its   *)
(* slots spread over cache lines.  The protocol is that of                 *)
(* DisruptorRingQueue, whose actions are used for everything that does not *)
(* touch a slot; here `entries' and `availableBuffer' are the permuted     *)
(* arrays, and the four steps that access them are given anew.             *)
(* RingQueue_Test does not call start() on this queue; its constructor     *)
(* leaves it in the state that start() would produce.                      *)
(***************************************************************************)
EXTENDS DisruptorRingQueue

CONSTANTS
  kIndexLineSize,  \* flags on a cache line, a power of two
  kEntryLineSize,  \* entries on a cache line, a power of two
  MIN_BOXES        \* least number of lines: 8 in the code

ASSUME LineAssumption ==
  /\ kIndexLineSize \in Nat \ {0}
  /\ kEntryLineSize \in Nat \ {0}
  /\ MIN_BOXES \in Nat \ {0}

\* A power of two: no odd number but 1 divides it.
IsPow2(q) == \A d \in 2..q : q % d = 0 => d % 2 = 0

\* JIMI_ROUND_TO_POW2: the power of two from n up and below 2n
RoundToPow2(n) == CHOOSE q \in n..(2 * n - 1) : IsPow2(q)

\* JIMI_MAX(JIMI_ROUND_TO_POW2((kCapacity + line - 1) / line), MIN_BOXES)
Boxes(line) ==
  LET lines == RoundToPow2((kCapacity + line - 1) \div line)
  IN  IF lines > MIN_BOXES THEN lines ELSE MIN_BOXES

kIndexBoxes == Boxes(kIndexLineSize)
kEntryBoxes == Boxes(kEntryLineSize)

\* Mutant: every turn round the lines uses the first flag of the line.
newIndexFirst(index, boxes, line) == (index % boxes) * line

\* (index & (boxes - 1)) * line + (index / boxes)
newIndex(index, boxes, line) == (index % boxes) * line + (index \div boxes)

FlagSlot(seq) == newIndex(Slot(seq), kIndexBoxes, kIndexLineSize)
EntrySlot(seq) == newIndex(Slot(seq), kEntryBoxes, kEntryLineSize)

\* The constructor: the arrays are as long as their lines.
InitEx ==
  /\ InitSequences
  /\ entries = [i \in 0..(kEntryBoxes * kEntryLineSize - 1) |-> NULL]
  /\ availableBuffer = [i \in 0..(kIndexBoxes * kIndexLineSize - 1) |-> -1]

\* this->entries[newIndex].entry = entry
WriteEntryEx(p) ==
  /\ pc[p] = "write_entry"
  /\ entries' = [entries EXCEPT ![EntrySlot(nextSequence(p))] = <<p, sent[p] + 1>>]
  /\ Goto(p, "publish")
  /\ UNCHANGED <<cursor, workSequence, gatingSequences, gatingSequenceCache,
                 availableBuffer, current, gate, scan, popLocals, harnessVars>>

\* setAvailable, return 0, and the caller goes on to its next message
PublishEx(p) ==
  /\ pc[p] = "publish"
  /\ availableBuffer' =
       [availableBuffer EXCEPT ![FlagSlot(nextSequence(p))] = Lap(nextSequence(p))]
  /\ sent' = [sent EXCEPT ![p] = sent[p] + 1]
  /\ Goto(p, IF sent[p] + 1 < MAX_PUSH_MSG_COUNT THEN "load_cursor" ELSE "done")
  /\ UNCHANGED <<cursor, workSequence, gatingSequences, gatingSequenceCache,
                 entries, current, gate, scan, popLocals, popevent_list>>

\* Mutant: setAvailable and isAvailable disagree about the slot.
IsAvailableUnpermuted(c) ==
  /\ pc[c] = "is_available"
  /\ LET published == availableBuffer[Slot(scan[c])] = Lap(scan[c])
         highest == IF published THEN available[c] ELSE scan[c] - 1
         d == [data[c] EXCEPT !.cachedAvailableSequence = highest]
     IN  IF published /\ scan[c] < available[c]
           THEN /\ scan' = [scan EXCEPT ![c] = scan[c] + 1]
                /\ UNCHANGED <<pc, data, available>>
           ELSE /\ data' = [data EXCEPT ![c] = d]
                /\ scan' = [scan EXCEPT ![c] = 0]
                /\ available' = [available EXCEPT ![c] = INITIAL_CURSOR_VALUE]
                /\ Goto(c, ClaimedPC(d))
  /\ UNCHANGED <<shared, current, gate, harnessVars>>

\* One turn of getHighestPublishedSequence's loop, and waitFor's return.
IsAvailableEx(c) ==
  /\ pc[c] = "is_available"
  /\ LET published == availableBuffer[FlagSlot(scan[c])] = Lap(scan[c])
         highest == IF published THEN available[c] ELSE scan[c] - 1
         d == [data[c] EXCEPT !.cachedAvailableSequence = highest]
     IN  IF published /\ scan[c] < available[c]
           THEN /\ scan' = [scan EXCEPT ![c] = scan[c] + 1]
                /\ UNCHANGED <<pc, data, available>>
           ELSE /\ data' = [data EXCEPT ![c] = d]
                /\ scan' = [scan EXCEPT ![c] = 0]
                /\ available' = [available EXCEPT ![c] = INITIAL_CURSOR_VALUE]
                /\ Goto(c, ClaimedPC(d))
  /\ UNCHANGED <<shared, current, gate, harnessVars>>

\* entry = this->entries[newIndex].entry; return 0; the caller records it
ReadEntryEx(c) ==
  /\ pc[c] = "read_entry"
  /\ popevent_list' = [popevent_list EXCEPT
       ![c] = Append(popevent_list[c], entries[EntrySlot(data[c].nextSequence)])]
  /\ Goto(c, IF Len(popevent_list[c]) + 1 < MAX_POP_MSG_COUNT
               THEN "load_work" ELSE "set_max")
  /\ UNCHANGED <<shared, current, gate, scan, popLocals, sent>>

PushEx(p) ==
  \/ LoadCursor(p) \/ LoadCache(p) \/ LoadGating(p) \/ LoadWorkForGate(p)
  \/ StoreCache(p) \/ ClaimCursor(p) \/ WriteEntryEx(p) \/ PublishEx(p)

PopEx(c) ==
  \/ LoadWork(c) \/ StoreGating(c) \/ ClaimWork(c) \/ WaitForCursor(c)
  \/ IsAvailableEx(c) \/ ReadEntryEx(c) \/ SetMaxValue(c)

NextEx == \/ \E p \in Producers : PushEx(p)
          \/ \E c \in Consumers : PopEx(c)
          \/ Joined

SpecEx == InitEx /\ [][NextEx]_vars

\* The scheduler runs every thread that can take a step.
SpecExFair == SpecEx /\ \A p \in Producers : WF_vars(PushEx(p))
                     /\ \A c \in Consumers : WF_vars(PopEx(c))

-------------------------------------------------------------------------------
(* Properties.                                                             *)

Ring == INSTANCE DisruptorRingQueue
  WITH entries <- [s \in 0..kIndexMask |-> entries[EntrySlot(s)]],
       availableBuffer <- [s \in 0..kIndexMask |-> availableBuffer[FlagSlot(s)]]

\* With the permutation undone, every step is a step of DisruptorRingQueue: no
\* sequence is published, overwritten or read through the place of another.
RefinesRing == Ring!Spec

===============================================================================
