----------------------- MODULE DisruptorRingQueueProofs -----------------------
(***************************************************************************)
(* Proofs about DisruptorRingQueue, and about DisruptorRingQueueOld and    *)
(* SmallDisruptorRingQueue, which take the same steps, for every number of *)
(* producers and consumers, capacity and quota: first what is overwritten  *)
(* has been read, then what is read has been published, then what is       *)
(* recorded is every message once.                                         *)
(***************************************************************************)
EXTENDS DisruptorRingQueueOld, FiniteSetTheorems, TLAPS

USE DEF Threads

\* The slot and the lap of a sequence.
LEMMA SlotType == ASSUME NEW n \in Nat PROVE Slot(n) \in 0..kIndexMask /\ Lap(n) \in Int
  BY SizeAssumption DEF Slot, Lap, kIndexMask

\* A sequence is an integer from -1 up, and the constants among them.
LEMMA SequenceType ==
  /\ \A n : n \in Sequence <=> n \in Int /\ n >= -1
  /\ MAX_VALUE \in Sequence /\ INITIAL_CURSOR_VALUE \in Sequence
  BY SizeAssumption DEF Sequence, INITIAL_CURSOR_VALUE

\* Consumers are numbered from 0.
LEMMA ConsumerType ==
  /\ 0 \in Consumers
  /\ \A c \in Consumers : c \in Nat /\ (c + 1 < kConsumers => c + 1 \in Consumers)
  BY ThreadAssumption DEF Consumers

\* A comparison picks one of the two.
LEMMA LesserType ==
  ASSUME NEW x \in Sequence, NEW y \in Sequence
  PROVE  Lesser(x, y) \in Sequence /\ Lesser(x, y) <= x /\ Lesser(x, y) <= y
  BY SequenceType DEF Lesser

\* Every step of a producer keeps every variable in its type.
LEMMA PushType ==
  ASSUME Inv, NEW p \in Producers, Push(p)
  PROVE  TypeOK'
<1>t. TypeOK /\ p \notin Consumers
  BY ThreadAssumption DEF Inv
<1> USE <1>t, ConsumerType DEF Goto, popLocals, harnessVars, shared
<1>1. CASE LoadCursor(p)
  BY <1>1 DEF LoadCursor, TypeOK, ProducerPCs
<1>2. CASE LoadCache(p)
  <2>1. gate' \in [Producers -> Sequence]
    BY <1>2 DEF LoadCache, TypeOK
  <2>2. PICK where \in {"load_gating", "cas"} : pc' = [pc EXCEPT ![p] = where]
    BY <1>2 DEF LoadCache
  <2>3. UNCHANGED <<shared, current, scan, popLocals, harnessVars>> /\ pc[p] = "load_cache"
    BY <1>2 DEF LoadCache
  <2>4. QED
    BY <2>1, <2>2, <2>3 DEF TypeOK, ProducerPCs
<1>3. CASE LoadGating(p)
  <2>1. gate' \in [Producers -> Sequence]
    BY <1>3, LesserType DEF LoadGating, TypeOK
  <2>2. UNCHANGED <<shared, current, popLocals, harnessVars>> /\ pc[p] = "load_gating"
    BY <1>3 DEF LoadGating
  <2>3. CASE scan' = [scan EXCEPT ![p] = scan[p] + 1] /\ UNCHANGED pc /\ scan[p] + 1 < kConsumers
    <3>1. scan[p] \in Consumers
      BY <2>2 DEF TypeOK
    <3>2. scan[p] + 1 \in Consumers /\ scan[p] + 1 \in Nat
      BY <2>3, <3>1
    <3>3. QED
      BY <2>1, <2>2, <2>3, <3>2 DEF TypeOK, ProducerPCs
  <2>4. CASE scan' = [scan EXCEPT ![p] = 0] /\ pc' = [pc EXCEPT ![p] = "load_work"]
    BY <2>1, <2>2, <2>4 DEF TypeOK, ProducerPCs
  <2>5. QED
    BY <1>3, <2>3, <2>4 DEF LoadGating
<1>4. CASE LoadWorkForGate(p)
  <2>1. gate' \in [Producers -> Sequence]
    BY <1>4, LesserType DEF LoadWorkForGate, TypeOK
  <2>2. PICK where \in {"load_cursor", "store_cache"} : pc' = [pc EXCEPT ![p] = where]
    BY <1>4 DEF LoadWorkForGate
  <2>3. UNCHANGED <<shared, current, scan, popLocals, harnessVars>> /\ pc[p] = "load_work"
    BY <1>4 DEF LoadWorkForGate
  <2>4. QED
    BY <2>1, <2>2, <2>3 DEF TypeOK, ProducerPCs
<1>5. CASE StoreCache(p)
  BY <1>5 DEF StoreCache, TypeOK, ProducerPCs
<1>6. CASE ClaimCursor(p)
  <2>0. current[p] \in Sequence /\ cursor \in Sequence
    BY DEF TypeOK
  <2>1. cursor' \in Sequence
    BY <1>6, <2>0, SequenceType DEF ClaimCursor, nextSequence
  <2>2. PICK where \in {"write_entry", "load_cursor"} : pc' = [pc EXCEPT ![p] = where]
    BY <1>6 DEF ClaimCursor
  <2>3. QED
    BY <1>6, <2>1, <2>2 DEF ClaimCursor, TypeOK, ProducerPCs
<1>7. CASE WriteEntry(p)
  <2>0. sent[p] \in 0..MAX_PUSH_MSG_COUNT /\ sent[p] < MAX_PUSH_MSG_COUNT
    BY <1>7 DEF WriteEntry, TypeOK
  <2>1. <<p, sent[p] + 1>> \in Messages
    BY <2>0, SizeAssumption DEF Messages
  <2>2. QED
    BY <1>7, <2>1 DEF WriteEntry, TypeOK, ProducerPCs
<1>8. CASE Publish(p)
  <2>0. /\ current[p] \in Sequence
        /\ sent[p] \in 0..MAX_PUSH_MSG_COUNT /\ sent[p] < MAX_PUSH_MSG_COUNT
    BY <1>8 DEF Publish, TypeOK
  <2>n. nextSequence(p) \in Nat
    BY <2>0, SequenceType DEF nextSequence
  <2>1. Lap(nextSequence(p)) \in Int
    BY <2>n, SlotType
  <2>2. availableBuffer' \in [0..kIndexMask -> Int]
    BY <1>8, <2>1 DEF Publish, TypeOK
  <2>3. /\ sent[p] + 1 \in 0..MAX_PUSH_MSG_COUNT
        /\ sent' = [sent EXCEPT ![p] = sent[p] + 1]
    BY <1>8, <2>0, SizeAssumption DEF Publish
  <2>4. PICK where \in {"load_cursor", "done"} :
          /\ pc' = [pc EXCEPT ![p] = where]
          /\ where = "load_cursor" => sent[p] + 1 < MAX_PUSH_MSG_COUNT
    BY <1>8 DEF Publish
  <2>5. \A q \in Producers : pc'[q] # "done" => sent'[q] < MAX_PUSH_MSG_COUNT
    BY <2>3, <2>4 DEF TypeOK
  <2>6. QED
    BY <1>8, <2>2, <2>3, <2>4, <2>5 DEF Publish, TypeOK, ProducerPCs
<1>9. QED
  BY <1>1, <1>2, <1>3, <1>4, <1>5, <1>6, <1>7, <1>8, <1>t DEF Push

\* Every step of a consumer keeps every variable in its type.
LEMMA PopType ==
  ASSUME Inv, NEW c \in Consumers, Pop(c)
  PROVE  TypeOK'
<1>t. TypeOK /\ GatingHonest /\ c \notin Producers
  BY ThreadAssumption DEF Inv
<1> USE <1>t, SequenceType DEF Goto, popLocals, harnessVars, shared
<1>1. CASE LoadWork(c)
  <2>0. /\ workSequence + 1 \in Sequence
        /\ data \in [Consumers -> [nextSequence : Sequence, cachedAvailableSequence : Sequence]]
    <3>1. workSequence \in Sequence /\ workSequence + 1 \in Int
      BY DEF TypeOK
    <3>2. QED
      BY <3>1 DEF TypeOK
  <2>1. data' \in [Consumers -> [nextSequence : Sequence, cachedAvailableSequence : Sequence]]
    BY <1>1, <2>0 DEF LoadWork
  <2>2. QED
    BY <1>1, <2>1 DEF LoadWork, TypeOK, ConsumerPCs
<1>2. CASE StoreGating(c)
  BY <1>2 DEF StoreGating, TypeOK, ConsumerPCs
<1>3. CASE ClaimWork(c)
  <2>1. workSequence' \in Sequence
    BY <1>3 DEF ClaimWork, TypeOK
  <2>2. PICK where \in ConsumerPCs : pc' = [pc EXCEPT ![c] = where]
    BY <1>3 DEF ClaimWork, ClaimedPC, ConsumerPCs
  <2>3. QED
    BY <1>3, <2>1, <2>2 DEF ClaimWork, TypeOK
<1>4. CASE WaitForCursor(c)
  <2>1. data[c].nextSequence \in Nat
    BY <1>4 DEF WaitForCursor, TypeOK, GatingHonest, ReportHonest, Claims
  <2>2. scan' \in [Threads -> Nat] /\ \A p \in Producers : scan'[p] = scan[p]
    BY <1>4, <2>1 DEF WaitForCursor, TypeOK
  <2>3. QED
    BY <1>4, <2>2 DEF WaitForCursor, TypeOK, ConsumerPCs
<1>5. CASE IsAvailable(c)
  <2>0. /\ scan[c] - 1 \in Sequence /\ available[c] \in Sequence
        /\ data \in [Consumers -> [nextSequence : Sequence, cachedAvailableSequence : Sequence]]
    <3>1. scan[c] \in Nat
      BY DEF TypeOK
    <3>2. scan[c] - 1 \in Sequence
      BY <3>1
    <3>3. QED
      BY <3>2 DEF TypeOK
  <2>1. data' \in [Consumers -> [nextSequence : Sequence, cachedAvailableSequence : Sequence]]
    BY <1>5, <2>0 DEF IsAvailable
  <2>2. available' \in [Consumers -> Sequence]
    BY <1>5 DEF IsAvailable, TypeOK
  <2>s. scan \in [Threads -> Nat]
    BY DEF TypeOK
  <2>3. scan' \in [Threads -> Nat] /\ \A p \in Producers : scan'[p] = scan[p]
    BY <1>5, <2>s DEF IsAvailable
  <2>4. PICK where \in ConsumerPCs : pc' = [pc EXCEPT ![c] = where]
    <3>1. CASE UNCHANGED pc
      BY <3>1 DEF TypeOK
    <3>2. CASE ~UNCHANGED pc
      BY <1>5, <3>2 DEF IsAvailable, ClaimedPC, ConsumerPCs
    <3>3. QED
      BY <3>1, <3>2
  <2>5. UNCHANGED <<shared, current, gate, harnessVars>>
    BY <1>5 DEF IsAvailable
  <2>6. QED
    BY <2>1, <2>2, <2>3, <2>4, <2>5 DEF TypeOK
<1>6. CASE ReadEntry(c)
  <2>1. data[c].nextSequence \in Nat
    BY <1>6 DEF ReadEntry, TypeOK, GatingHonest, ReportHonest, Claims
  <2>2. entries[Slot(data[c].nextSequence)] \in Messages \cup {NULL}
    BY <2>1, SlotType DEF TypeOK
  <2>p. popevent_list \in [Consumers -> Seq(Messages \cup {NULL})]
    BY DEF TypeOK
  <2>3. popevent_list' \in [Consumers -> Seq(Messages \cup {NULL})]
    BY <1>6, <2>2, <2>p DEF ReadEntry
  <2>4. PICK where \in {"load_work", "set_max"} : pc' = [pc EXCEPT ![c] = where]
    BY <1>6 DEF ReadEntry
  <2>5. QED
    BY <1>6, <2>3, <2>4 DEF ReadEntry, TypeOK, ConsumerPCs
<1>7. CASE SetMaxValue(c)
  BY <1>7 DEF SetMaxValue, TypeOK, ConsumerPCs
<1>8. QED
  BY <1>1, <1>2, <1>3, <1>4, <1>5, <1>6, <1>7 DEF Pop

\* A producer's step leaves the consumers, and what they have claimed and
\* reported, alone.
LEMMA PushFrame ==
  ASSUME TypeOK, NEW p \in Producers, Push(p)
  PROVE  /\ UNCHANGED <<workSequence, gatingSequences, data>>
         /\ \A c \in Consumers : UNCHANGED <<pc[c], current[c]>>
         /\ \A q \in Producers \ {p} : UNCHANGED <<pc[q], current[q], gate[q], scan[q]>>
<1>1. p \notin Consumers
  BY ThreadAssumption
<1>2. QED
  BY <1>1 DEF Push, LoadCursor, LoadCache, LoadGating, LoadWorkForGate, StoreCache, ClaimCursor,
              WriteEntry, Publish, Goto, TypeOK, shared, popLocals, harnessVars

\* A consumer's step leaves the producers and the other consumers alone.
LEMMA PopFrame ==
  ASSUME TypeOK, NEW c \in Consumers, Pop(c)
  PROVE  /\ UNCHANGED <<cursor, gatingSequenceCache, gate>>
         /\ \A p \in Producers : UNCHANGED <<pc[p], current[p], scan[p]>>
         /\ \A d \in Consumers \ {c} :
              UNCHANGED <<pc[d], current[d], data[d], gatingSequences[d]>>
<1>1. c \notin Producers
  BY ThreadAssumption
<1>2. QED
  BY <1>1 DEF Pop, LoadWork, StoreGating, ClaimWork, WaitForCursor, IsAvailable, ReadEntry,
              SetMaxValue, Goto, TypeOK, shared, popLocals, harnessVars

\* A consumer's own report stays honest, it never takes a report back before it
\* has finished, workSequence only grows, and what it newly claims is the next.
LEMMA PopReport ==
  ASSUME TypeOK, GatingHonest, NEW c \in Consumers, Pop(c)
  PROVE  /\ ReportHonest(c)'
         /\ workSequence' >= workSequence
         /\ pc'[c] \in {"set_max", "done"} \/ gatingSequences'[c] >= gatingSequences[c]
         /\ pc[c] \in {"set_max", "done"} => pc'[c] \in {"set_max", "done"}
         /\ Claims(c)' => \/ Claims(c) /\ data'[c].nextSequence = data[c].nextSequence
                          \/ data'[c].nextSequence = workSequence + 1
<1>t. /\ workSequence \in Int /\ gatingSequences[c] \in Int /\ current[c] \in Int
      /\ data[c].nextSequence \in Int /\ ReportHonest(c)
  BY SequenceType DEF TypeOK, GatingHonest
<1> USE <1>t DEF ReportHonest, Claims, Goto, popLocals, harnessVars, shared
<1>1. CASE LoadWork(c)
  BY <1>1 DEF LoadWork, TypeOK
<1>2. CASE StoreGating(c)
  BY <1>2 DEF StoreGating, TypeOK
<1>3. CASE ClaimWork(c)
  BY <1>3 DEF ClaimWork, ClaimedPC, TypeOK
<1>4. CASE WaitForCursor(c)
  BY <1>4 DEF WaitForCursor, TypeOK
<1>5. CASE IsAvailable(c)
  <2>0. data \in [Consumers -> [nextSequence : Sequence, cachedAvailableSequence : Sequence]]
    BY DEF TypeOK
  <2>1. /\ UNCHANGED <<shared, current>> /\ pc[c] = "is_available"
        /\ data'[c].nextSequence = data[c].nextSequence
    BY <1>5, <2>0 DEF IsAvailable
  <2>2. pc'[c] \in {"is_available", "read_entry", "wait"}
    BY <1>5, <2>1 DEF IsAvailable, ClaimedPC, TypeOK
  <2>3. QED
    BY <2>1, <2>2
<1>6. CASE ReadEntry(c)
  BY <1>6 DEF ReadEntry, TypeOK
<1>7. CASE SetMaxValue(c)
  BY <1>7 DEF SetMaxValue, TypeOK
<1>8. QED
  BY <1>1, <1>2, <1>3, <1>4, <1>5, <1>6, <1>7 DEF Pop

\* A consumer's step keeps workSequence a sequence.
LEMMA PopWork ==
  ASSUME TypeOK, NEW c \in Consumers, Pop(c)
  PROVE  workSequence' \in Sequence
  BY DEF Pop, LoadWork, StoreGating, ClaimWork, WaitForCursor, IsAvailable, ReadEntry, SetMaxValue,
         TypeOK, shared

\* What has been consumed stays consumed, whichever thread moves: a claim that a
\* consumer adds lies beyond workSequence.
LEMMA PushConsumed ==
  ASSUME TypeOK, NEW p \in Producers, Push(p)
  PROVE  \A b \in Int : Consumed(b) => Consumed(b)'
  BY PushFrame DEF Consumed, Claims

LEMMA PopConsumed ==
  ASSUME TypeOK, GatingHonest, NEW c \in Consumers, Pop(c)
  PROVE  \A b \in Int : Consumed(b) => Consumed(b)'
<1> SUFFICES ASSUME NEW b \in Int, Consumed(b)  PROVE Consumed(b)'
  OBVIOUS
<1>0. workSequence \in Int /\ workSequence' >= workSequence /\ workSequence' \in Int
  BY SequenceType, PopReport, PopWork DEF TypeOK
<1>1. b <= workSequence'
  BY <1>0 DEF Consumed
<1>2. ASSUME NEW d \in Consumers, Claims(d)'  PROVE data'[d].nextSequence > b
  <2>1. CASE d = c
    BY <1>2, <1>0, <2>1, PopReport DEF Consumed
  <2>2. CASE d # c
    BY <1>2, <2>2, PopFrame DEF Consumed, Claims
  <2>3. QED
    BY <2>1, <2>2
<1>3. QED
  BY <1>1, <1>2 DEF Consumed

\* A producer's step keeps the minimum it collects below the reports.
LEMMA PushMinimum ==
  ASSUME Inv, NEW p \in Producers, Push(p)
  PROVE  MinimumHonest'
<1>t. TypeOK /\ MinimumHonest /\ p \notin Consumers
  BY ThreadAssumption DEF Inv
<1> SUFFICES ASSUME NEW q \in Producers, NEW c \in Consumers,
                    pc'[q] = "load_work" \/ (pc'[q] = "load_gating" /\ c < scan'[q]),
                    pc'[c] \notin {"set_max", "done"}
             PROVE  gate'[q] <= gatingSequences'[c]
  BY DEF MinimumHonest
<1>c. UNCHANGED <<gatingSequences, pc[c]>>
  BY <1>t, PushFrame
<1>1. CASE q # p
  BY <1>1, <1>c, <1>t, PushFrame DEF MinimumHonest
<1>2. CASE q = p
  <2>0. /\ gate[p] \in Int /\ scan[p] \in Nat /\ c \in Nat
        /\ \A d \in Consumers : gatingSequences[d] \in Sequence /\ gatingSequences[d] \in Int
        /\ gate[p] \in Sequence
        /\ gate \in [Producers -> Sequence] /\ scan \in [Threads -> Nat]
        /\ pc \in [Threads -> ProducerPCs \cup ConsumerPCs]
        /\ pc[p] \in ProducerPCs
        /\ IF pc[p] = "load_gating" THEN scan[p] \in Consumers ELSE scan[p] = 0
    BY <1>t, SequenceType, ConsumerType DEF TypeOK
  <2>1. CASE LoadCache(p)
    BY <1>2, <2>0, <2>1 DEF LoadCache, Goto
  <2>2. CASE LoadGating(p)
    <3>1. /\ pc[p] = "load_gating" /\ scan[p] \in Consumers
          /\ gate'[p] = Lesser(gatingSequences[scan[p]], gate[p])
      BY <2>0, <2>2 DEF LoadGating
    <3>2. /\ gate'[p] <= gate[p] /\ gate'[p] <= gatingSequences[scan[p]]
          /\ gate'[p] \in Int
      BY <2>0, <3>1, LesserType, SequenceType
    <3>3. c <= scan[p]
      BY <1>2, <2>0, <2>2, <3>1, ThreadAssumption DEF LoadGating, Goto, Consumers
    <3>4. CASE c < scan[p]
      BY <1>c, <1>2, <1>t, <2>0, <3>1, <3>2, <3>4 DEF MinimumHonest
    <3>5. CASE c = scan[p]
      BY <1>c, <1>2, <3>2, <3>5
    <3>6. QED
      BY <2>0, <3>3, <3>4, <3>5
  <2>3. CASE ~LoadCache(p) /\ ~LoadGating(p)
    <3>1. pc'[p] \notin {"load_work", "load_gating"}
      BY <2>0, <2>3 DEF Push, LoadCursor, LoadWorkForGate, StoreCache, ClaimCursor, WriteEntry,
                        Publish, Goto
    <3>2. QED
      BY <1>2, <3>1
  <2>4. QED
    BY <2>1, <2>2, <2>3
<1>3. QED
  BY <1>1, <1>2

\* A producer's step keeps the shared minimum behind what has been consumed: a
\* consumer that claimed after its report was read claimed what follows it.
LEMMA PushGate ==
  ASSUME Inv, NEW p \in Producers, Push(p)
  PROVE  GateSound'
<1>t. TypeOK /\ GatingHonest /\ MinimumHonest /\ GateSound /\ p \notin Consumers
  BY ThreadAssumption DEF Inv
<1>0. /\ gatingSequenceCache \in Int /\ workSequence \in Int /\ workSequence \in Sequence
      /\ gate \in [Producers -> Sequence] /\ \A q \in Producers : gate[q] \in Int
      /\ \A c \in Consumers : gatingSequences[c] \in Int
      /\ pc \in [Threads -> ProducerPCs \cup ConsumerPCs]
  BY <1>t, SequenceType DEF TypeOK
<1>f. /\ \A q \in Producers \ {p} : UNCHANGED <<pc[q], gate[q]>>
      /\ \A b \in Int : Consumed(b) => Consumed(b)'
  BY <1>t, PushFrame, PushConsumed
<1> SUFFICES /\ \A b \in Int : b = gatingSequenceCache' => Consumed(b)'
             /\ \A q \in Producers, b \in Int :
                  pc'[q] = "store_cache" /\ b = gate'[q] => Consumed(b)'
  <2>1. gatingSequenceCache' \in Int /\ \A q \in Producers : gate'[q] \in Int
    BY PushType, SequenceType DEF TypeOK
  <2>2. QED
    BY <2>1 DEF GateSound, Consumed
<1>1. CASE LoadWorkForGate(p)
  <2>1. /\ gatingSequenceCache' = gatingSequenceCache /\ pc[p] = "load_work"
        /\ gate'[p] = Lesser(workSequence, gate[p])
    BY <1>0, <1>1 DEF LoadWorkForGate, shared
  <2>2. gate'[p] \in Int /\ gate'[p] <= workSequence /\ gate'[p] <= gate[p]
    BY <1>0, <2>1, LesserType, SequenceType
  <2>3. ASSUME NEW c \in Consumers, Claims(c)  PROVE data[c].nextSequence > gate'[p]
    <3>1. gate[p] <= gatingSequences[c] /\ data[c].nextSequence = gatingSequences[c] + 1
      BY <1>t, <2>1, <2>3 DEF GatingHonest, ReportHonest, MinimumHonest, Claims
    <3>2. QED
      BY <1>0, <2>2, <3>1
  <2>4. \A b \in Int : b = gate'[p] => Consumed(b)
    BY <2>2, <2>3 DEF Consumed
  <2>5. QED
    BY <1>0, <1>f, <1>t, <2>1, <2>4 DEF GateSound
<1>2. CASE StoreCache(p)
  <2>1. gatingSequenceCache' = gate[p] /\ pc[p] = "store_cache" /\ pc'[p] # "store_cache"
    BY <1>0, <1>2 DEF StoreCache, Goto
  <2>2. QED
    BY <1>0, <1>f, <1>t, <2>1 DEF GateSound
<1>3. CASE ~LoadWorkForGate(p) /\ ~StoreCache(p)
  <2>1. gatingSequenceCache' = gatingSequenceCache /\ pc'[p] # "store_cache"
    BY <1>0, <1>3 DEF Push, LoadCursor, LoadCache, LoadGating, ClaimCursor, WriteEntry, Publish,
                      Goto, shared
  <2>2. QED
    BY <1>0, <1>f, <1>t, <2>1 DEF GateSound
<1>4. QED
  BY <1>1, <1>2, <1>3

\* A producer passes the gate only by what has been consumed, and keeps its
\* sequence until it has written.
LEMMA PushPassed ==
  ASSUME Inv, NEW p \in Producers, Push(p)
  PROVE  PassedGate'
<1>t. TypeOK /\ GateSound /\ PassedGate /\ p \notin Consumers
  BY ThreadAssumption DEF Inv
<1>0. /\ gatingSequenceCache \in Int /\ \A q \in Producers : wrapPoint(q) \in Int
      /\ workSequence \in Int /\ \A c \in Consumers : data[c].nextSequence \in Int
      /\ pc \in [Threads -> ProducerPCs \cup ConsumerPCs]
  <2>1. /\ gatingSequenceCache \in Int /\ workSequence \in Int
        /\ pc \in [Threads -> ProducerPCs \cup ConsumerPCs]
        /\ \A q \in Producers : current[q] \in Int
    BY <1>t, SequenceType DEF TypeOK
  <2>2. \A c \in Consumers : data[c].nextSequence \in Int
    BY <1>t, SequenceType DEF TypeOK
  <2>3. \A q \in Producers : wrapPoint(q) \in Int
    BY <2>1, SizeAssumption DEF wrapPoint, kIndexMask
  <2>4. QED
    BY <2>1, <2>2, <2>3
<1>f. /\ \A q \in Producers \ {p} : UNCHANGED <<pc[q], current[q]>>
      /\ \A b \in Int : Consumed(b) => Consumed(b)'
  BY <1>t, PushFrame, PushConsumed
<1> SUFFICES ASSUME NEW q \in Producers, pc'[q] \in {"cas", "write_entry"}
             PROVE  current'[q] = current[q] /\ Consumed(wrapPoint(q))
  BY <1>0, <1>f DEF PassedGate, Consumed, wrapPoint
<1>1. CASE q # p
  BY <1>1, <1>f, <1>t DEF PassedGate
<1>2. CASE q = p /\ LoadCache(p)
  <2>1. current'[p] = current[p] /\ wrapPoint(p) <= gatingSequenceCache
    BY <1>0, <1>2 DEF LoadCache, Goto
  <2>2. QED
    BY <1>0, <1>2, <1>t, <2>1 DEF GateSound, Consumed
<1>3. CASE q = p /\ ~LoadCache(p)
  <2>1. pc[p] \in {"cas", "write_entry"} /\ current'[p] = current[p]
    BY <1>0, <1>3 DEF Push, LoadCursor, LoadGating, LoadWorkForGate, StoreCache, ClaimCursor,
                      WriteEntry, Publish, Goto
  <2>2. QED
    BY <1>3, <1>t, <2>1 DEF PassedGate
<1>4. QED
  BY <1>1, <1>2, <1>3

\* Two producers never hold one sequence: the one that wins the compare-and-swap
\* found cursor where it had read it, and every sequence held is behind cursor.
LEMMA PushClaims ==
  ASSUME Inv, NEW p \in Producers, Push(p)
  PROVE  ClaimsUnique'
<1>t. TypeOK /\ ClaimsUnique /\ p \notin Consumers
  BY ThreadAssumption DEF Inv
<1>0. /\ cursor \in Int /\ current \in [Threads -> Sequence]
      /\ \A q \in Producers : current[q] \in Int
      /\ pc \in [Threads -> ProducerPCs \cup ConsumerPCs]
  BY <1>t, SequenceType DEF TypeOK
<1>1. \A a, b \in Consumers : (a # b /\ Claims(a)' /\ Claims(b)')
        => data'[a].nextSequence # data'[b].nextSequence
  BY <1>t, PushFrame DEF ClaimsUnique, Claims
<1>f. \A q \in Producers \ {p} : UNCHANGED <<pc[q], current[q]>>
  BY <1>t, PushFrame
<1>2. CASE ClaimCursor(p) /\ cursor = current[p]
  <2>1. cursor' = current[p] + 1 /\ current'[p] = current[p]
    BY <1>2 DEF ClaimCursor, nextSequence
  <2>2. ASSUME NEW q \in Producers, q # p, Fills(q)'  PROVE current'[q] < current'[p]
    <3>1. current[q] + 1 <= cursor /\ current'[q] = current[q]
      BY <1>f, <1>t, <2>2 DEF ClaimsUnique, Fills, nextSequence
    <3>2. QED
      BY <1>0, <1>2, <2>1, <3>1
  <2>3. \A q \in Producers : Fills(q)' => current'[q] + 1 <= cursor'
    BY <1>0, <1>2, <1>f, <2>1, <2>2
  <2>4. \A a, b \in Producers : (a # b /\ Fills(a)' /\ Fills(b)') => current'[a] # current'[b]
    <3>1. \A q \in Producers : current'[q] \in Int
      BY <1>0, <1>f, <2>1
    <3>2. \A a, b \in Producers \ {p} :
            (a # b /\ Fills(a)' /\ Fills(b)') => current'[a] # current'[b]
      BY <1>f, <1>t DEF ClaimsUnique, Fills
    <3>3. QED
      BY <2>2, <3>1, <3>2
  <2>5. QED
    BY <1>1, <2>3, <2>4 DEF ClaimsUnique, nextSequence
<1>3. CASE ~(ClaimCursor(p) /\ cursor = current[p])
  <2>1. /\ cursor' = cursor
        /\ Fills(p)' => Fills(p) /\ current'[p] = current[p]
    BY <1>0, <1>3 DEF Push, LoadCursor, LoadCache, LoadGating, LoadWorkForGate, StoreCache,
                      ClaimCursor, WriteEntry, Publish, Goto, shared, Fills
  <2>2. \A q \in Producers : Fills(q)' => Fills(q) /\ current'[q] = current[q]
    BY <1>f, <2>1 DEF Fills
  <2>3. QED
    BY <1>1, <1>t, <2>1, <2>2 DEF ClaimsUnique, nextSequence
<1>4. QED
  BY <1>2, <1>3

\* Every step of a producer keeps the invariant.
LEMMA PushInv ==
  ASSUME Inv, NEW p \in Producers, Push(p)
  PROVE  Inv'
<1>1. GatingHonest'
  BY PushFrame DEF Inv, GatingHonest, ReportHonest, Claims
<1>2. QED
  BY <1>1, PushType, PushMinimum, PushGate, PushPassed, PushClaims DEF Inv

\* Every step of a consumer keeps the invariant.
LEMMA PopInv ==
  ASSUME Inv, NEW c \in Consumers, Pop(c)
  PROVE  Inv'
<1>t. /\ TypeOK /\ GatingHonest /\ MinimumHonest /\ GateSound /\ PassedGate /\ ClaimsUnique
      /\ c \notin Producers
  BY ThreadAssumption DEF Inv
<1>0. /\ workSequence \in Int /\ workSequence' \in Int /\ workSequence' >= workSequence
      /\ gatingSequenceCache \in Int
      /\ \A p \in Producers : gate[p] \in Int /\ wrapPoint(p) \in Int
      /\ \A d \in Consumers : /\ gatingSequences[d] \in Int /\ data[d].nextSequence \in Int
                              /\ current[d] \in Int
  <2>1. workSequence' \in Int /\ workSequence' >= workSequence
    BY <1>t, SequenceType, PopWork, PopReport
  <2>2. \A d \in Consumers : data[d].nextSequence \in Int
    BY <1>t, SequenceType DEF TypeOK
  <2>3. \A th \in Threads : current[th] \in Int
    BY <1>t, SequenceType DEF TypeOK
  <2>4. \A p \in Producers : wrapPoint(p) \in Int
    BY <2>3, SizeAssumption DEF wrapPoint, kIndexMask
  <2>5. /\ workSequence \in Int /\ gatingSequenceCache \in Int
        /\ \A p \in Producers : gate[p] \in Int
        /\ \A d \in Consumers : gatingSequences[d] \in Int
    BY <1>t, SequenceType DEF TypeOK
  <2>6. QED
    BY <2>1, <2>2, <2>3, <2>4, <2>5
<1>f. /\ UNCHANGED <<cursor, gatingSequenceCache, gate>>
      /\ \A p \in Producers : UNCHANGED <<pc[p], current[p], scan[p]>>
      /\ \A d \in Consumers \ {c} : UNCHANGED <<pc[d], current[d], data[d], gatingSequences[d]>>
  BY <1>t, PopFrame
<1>b. \A b \in Int : Consumed(b) => Consumed(b)'
  BY <1>t, PopConsumed
<1>1. TypeOK'
  BY PopType
<1>2. GatingHonest'
  <2>1. ReportHonest(c)'
    BY <1>t, PopReport
  <2>2. ASSUME NEW d \in Consumers \ {c}  PROVE ReportHonest(d)'
    BY <1>0, <1>f, <1>t, <2>2 DEF GatingHonest, ReportHonest, Claims
  <2>3. QED
    BY <2>1, <2>2 DEF GatingHonest
<1>3. MinimumHonest'
  <2> SUFFICES ASSUME NEW p \in Producers, NEW d \in Consumers,
                      pc[p] = "load_work" \/ (pc[p] = "load_gating" /\ d < scan[p]),
                      pc'[d] \notin {"set_max", "done"}
               PROVE  gate[p] <= gatingSequences'[d]
    BY <1>f DEF MinimumHonest
  <2>1. CASE d = c
    <3>1. gate[p] <= gatingSequences[c] /\ gatingSequences'[c] >= gatingSequences[c]
      BY <1>t, <2>1, PopReport DEF MinimumHonest
    <3>2. gatingSequences'[c] \in Int
      BY <1>1, SequenceType DEF TypeOK
    <3>3. QED
      BY <1>0, <2>1, <3>1, <3>2
  <2>2. CASE d # c
    BY <1>f, <1>t, <2>2 DEF MinimumHonest
  <2>3. QED
    BY <2>1, <2>2
<1>4. GateSound'
  BY <1>0, <1>b, <1>f, <1>t DEF GateSound, Consumed
<1>5. PassedGate'
  BY <1>0, <1>b, <1>f, <1>t DEF PassedGate, Consumed, wrapPoint
<1>6. ClaimsUnique'
  <2>1. ASSUME NEW d \in Consumers \ {c}, Claims(d)', Claims(c)'
        PROVE  data'[d].nextSequence # data'[c].nextSequence
    <3>1. Claims(d) /\ data'[d].nextSequence = data[d].nextSequence
      BY <1>f, <2>1 DEF Claims
    <3>2. data[d].nextSequence <= workSequence
      BY <1>t, <3>1 DEF GatingHonest, ReportHonest
    <3>3. CASE Claims(c) /\ data'[c].nextSequence = data[c].nextSequence
      BY <1>t, <3>1, <3>3 DEF ClaimsUnique
    <3>4. CASE data'[c].nextSequence = workSequence + 1
      BY <1>0, <3>1, <3>2, <3>4
    <3>5. QED
      BY <1>t, <2>1, <3>3, <3>4, PopReport
  <2>2. \A a, b \in Consumers \ {c} : (a # b /\ Claims(a)' /\ Claims(b)')
          => data'[a].nextSequence # data'[b].nextSequence
    BY <1>f, <1>t DEF ClaimsUnique, Claims
  <2>3. /\ \A p \in Producers : Fills(p)' => nextSequence(p)' <= cursor'
        /\ \A a, b \in Producers : (a # b /\ Fills(a)' /\ Fills(b)') => current'[a] # current'[b]
    BY <1>f, <1>t DEF ClaimsUnique, Fills, nextSequence
  <2>4. QED
    BY <2>1, <2>2, <2>3 DEF ClaimsUnique
<1>7. QED
  BY <1>1, <1>2, <1>3, <1>4, <1>5, <1>6 DEF Inv

\* The invariant holds before the first call, whatever the flags are.
LEMMA InitInv ==
  ASSUME InitSequences,
         entries = [s \in 0..kIndexMask |-> NULL],
         availableBuffer \in [0..kIndexMask -> Int]
  PROVE  Inv
<1> USE ThreadAssumption, SizeAssumption, SequenceType, ConsumerType
<1>0. /\ \A th \in Threads : pc[th] = IF th \in Producers THEN "load_cursor" ELSE "load_work"
      /\ \A c \in Consumers : c \notin Producers
  BY DEF InitSequences
<1>1. TypeOK
  <2>1. pc \in [Threads -> ProducerPCs \cup ConsumerPCs]
    BY DEF InitSequences, ProducerPCs, ConsumerPCs
  <2>2. /\ \A p \in Producers : pc[p] \in ProducerPCs
        /\ \A c \in Consumers : pc[c] \in ConsumerPCs
    BY <1>0 DEF ProducerPCs, ConsumerPCs
  <2>3. QED
    BY <1>0, <2>1, <2>2 DEF InitSequences, TypeOK
<1>2. GatingHonest /\ MinimumHonest
  BY <1>0 DEF InitSequences, GatingHonest, ReportHonest, Claims, MinimumHonest, INITIAL_CURSOR_VALUE
<1>3. GateSound /\ PassedGate /\ ClaimsUnique
  BY <1>0 DEF InitSequences, GateSound, Consumed, PassedGate, ClaimsUnique, Claims, Fills,
              INITIAL_CURSOR_VALUE
<1>4. QED
  BY <1>1, <1>2, <1>3 DEF Inv

\* A step of the system, or none, keeps the invariant.
LEMMA NextInv == Inv /\ [Next]_vars => Inv'
<1> SUFFICES ASSUME Inv, [Next]_vars  PROVE Inv'
  OBVIOUS
<1>1. CASE UNCHANGED vars
  <2>1. TypeOK' /\ GatingHonest' /\ MinimumHonest'
    BY <1>1 DEF vars, Inv, TypeOK, GatingHonest, ReportHonest, MinimumHonest, Claims
  <2>2. GateSound' /\ PassedGate' /\ ClaimsUnique'
    BY <1>1 DEF vars, Inv, GateSound, Consumed, PassedGate, ClaimsUnique, Claims, Fills,
                wrapPoint, nextSequence
  <2>3. QED
    BY <2>1, <2>2 DEF Inv
<1>2. CASE \E p \in Producers : Push(p)
  BY <1>2, PushInv
<1>3. CASE \E c \in Consumers : Pop(c)
  BY <1>3, PopInv
<1>4. QED
  BY <1>1, <1>2, <1>3 DEF Next, Joined

\* The invariant is always true of DisruptorRingQueue: the gating minimum, read one
\* word at a time and cached by racing producers, never runs ahead of a consumer,
\* and no sequence is claimed twice.
THEOREM Invariance == Spec => []Inv
<1>1. Init => Inv
  BY InitInv DEF Init
<1>2. QED
  BY <1>1, NextInv, PTL DEF Spec

\* So it is of the first port, with its slots on the heap or in the object.
THEOREM InvarianceOld == SpecOld => []Inv
<1>1. InitOld => Inv
  <2> SUFFICES ASSUME InitOld  PROVE Inv
    OBVIOUS
  <2>1. availableBuffer \in [0..kIndexMask -> Int]
    <3>1. CASE availableBuffer = [s \in 0..kIndexMask |-> -1]
      BY <3>1
    <3>2. CASE availableBuffer \in [0..kIndexMask -> UnsetFlags]
      BY <3>2, StorageAssumption
    <3>3. QED
      BY <3>1, <3>2 DEF InitOld, init_queue
  <2>2. QED
    BY <2>1, InitInv DEF InitOld, init_queue
<1>2. [NextOld]_varsOld => [Next]_vars
  BY DEF NextOld, Next, varsOld, push, pop, Push, Pop, getMinimumSequence, publish, waitFor,
         getHighestPublishedSequence
<1>3. QED
  BY <1>1, <1>2, NextInv, PTL DEF SpecOld

\* The invariant forbids an overwrite: what let the producer pass is wrapPoint, and
\* that is one lap before the sequence it writes.
LEMMA InvForbidsOverwrite == Inv => NoOverwrite
<1> SUFFICES ASSUME Inv, NEW p \in Producers, pc[p] = "write_entry"
             PROVE  Consumed(nextSequence(p) - kCapacity)
  BY DEF NoOverwrite
<1>1. current[p] \in Int
  BY SequenceType DEF Inv, TypeOK
<1>2. nextSequence(p) - kCapacity = wrapPoint(p)
  BY <1>1, SizeAssumption DEF nextSequence, wrapPoint, kIndexMask
<1>3. QED
  BY <1>2 DEF Inv, PassedGate

\* No producer ever overwrites an entry whose message is still to be copied out.
THEOREM Overwrite == Spec => []NoOverwrite
  BY Invariance, InvForbidsOverwrite, PTL

\* Nor does a producer of the first port.
THEOREM OverwriteOld == SpecOld => []NoOverwrite
  BY InvarianceOld, InvForbidsOverwrite, PTL

-------------------------------------------------------------------------------
(* What a consumer reads has been published.  The flags of the sequences     *)
(* below first may mislead: first is 0 when init_queue has marked every      *)
(* flag, kCapacity when memory held zeroes.                                  *)

\* The producer of sequence has stored its flag.
Published(sequence) == sequence <= cursor /\ ~InFlight(sequence)

\* A flag that holds the lap of a sequence was stored for that sequence.
FlagsSound(first) ==
  \A s \in Nat : s >= first /\ availableBuffer[Slot(s)] = Lap(s) => Published(s)

\* Every sequence from the one consumer c holds, or held last, up to bound is there.
SeenBelow(c, bound, first) ==
  \A s \in Nat : s >= first /\ data[c].nextSequence <= s /\ s < bound => Published(s)

\* What a consumer takes for published is: what its scan has passed, and what
\* its cached bound still covers of the sequences it has yet to claim.
KnowsSound(c, first) ==
  /\ pc[c] = "load_work" => data[c].nextSequence <= workSequence
  /\ SeenBelow(c, data[c].cachedAvailableSequence + 1, first)
  /\ pc[c] = "is_available" => /\ data[c].nextSequence <= scan[c] /\ scan[c] <= available[c]
                               /\ SeenBelow(c, scan[c], first)
  /\ pc[c] = "read_entry" => data[c].nextSequence <= data[c].cachedAvailableSequence

\* The inductive invariant behind ReadsPublished and LaterLapsSound.
FlagInv(first) ==
  Inv /\ FlagsSound(first) /\ \A c \in Consumers : KnowsSound(c, first)

\* No consumer copies an entry before its producer has published it.
ReadsPublished ==
  \A c \in Consumers : pc[c] = "read_entry" => Published(data[c].nextSequence)

\* Two sequences of one slot and one lap are the same; the laps count from 0.
LEMMA SlotAndLap ==
  /\ \A m, n \in Nat : Slot(m) = Slot(n) /\ Lap(m) = Lap(n) => m = n
  /\ \A n \in Nat : Lap(n) \in Nat /\ (n >= kCapacity => Lap(n) >= 1)
<1> USE SizeAssumption
<1>1. ASSUME NEW n \in Nat  PROVE n = kCapacity * (n \div kCapacity) + (n % kCapacity)
  OBVIOUS
<1>2. ASSUME NEW n \in Nat  PROVE Lap(n) \in Nat /\ (n >= kCapacity => Lap(n) >= 1)
  BY <1>2 DEF Lap
<1>3. QED
  BY <1>1, <1>2 DEF Slot, Lap

\* What has been published stays so: a producer only claims beyond cursor.
LEMMA PushPublished ==
  ASSUME Inv, NEW p \in Producers, Push(p)
  PROVE  \A s \in Int : Published(s) => Published(s)'
<1>0. /\ cursor \in Int /\ current \in [Threads -> Sequence]
      /\ \A q \in Producers : current[q] \in Int
      /\ pc \in [Threads -> ProducerPCs \cup ConsumerPCs]
  BY SequenceType DEF Inv, TypeOK
<1>f. \A q \in Producers \ {p} : UNCHANGED <<pc[q], current[q]>>
  BY PushFrame DEF Inv
<1> SUFFICES ASSUME NEW s \in Int, Published(s)  PROVE Published(s)'
  OBVIOUS
<1>1. ASSUME NEW q \in Producers, q # p, Fills(q)'  PROVE nextSequence(q)' # s
  BY <1>1, <1>f DEF Published, InFlight, Fills, nextSequence
<1>2. cursor' \in Int /\ cursor' >= cursor /\ (Fills(p)' => nextSequence(p)' # s)
  <2>1. CASE ClaimCursor(p) /\ cursor = current[p]
    BY <1>0, <2>1 DEF ClaimCursor, Published, nextSequence
  <2>2. CASE ~(ClaimCursor(p) /\ cursor = current[p])
    <3>1. /\ cursor' = cursor
          /\ Fills(p)' => Fills(p) /\ current'[p] = current[p]
      BY <1>0, <2>2 DEF Push, LoadCursor, LoadCache, LoadGating, LoadWorkForGate, StoreCache,
                        ClaimCursor, WriteEntry, Publish, Goto, shared, Fills
    <3>2. QED
      BY <1>0, <3>1 DEF Published, InFlight, nextSequence
  <2>3. QED
    BY <2>1, <2>2
<1>3. QED
  BY <1>0, <1>1, <1>2 DEF Published, InFlight

\* A consumer's step does not concern it.
LEMMA PopPublished ==
  ASSUME TypeOK, NEW c \in Consumers, Pop(c)
  PROVE  \A s \in Int : Published(s) => Published(s)'
  BY PopFrame DEF Published, InFlight, Fills, nextSequence

\* A producer stores a flag for the sequence it holds alone, and for no other.
LEMMA PushFlags ==
  ASSUME NEW first \in Nat, FlagInv(first), NEW p \in Producers, Push(p)
  PROVE  FlagsSound(first)'
<1>t. Inv /\ TypeOK /\ ClaimsUnique /\ FlagsSound(first)
  BY DEF FlagInv, Inv
<1>0. /\ availableBuffer \in [0..kIndexMask -> Int] /\ current[p] \in Int /\ current[p] >= -1
      /\ pc \in [Threads -> ProducerPCs \cup ConsumerPCs]
  BY <1>t, SequenceType DEF TypeOK
<1> SUFFICES ASSUME NEW s \in Nat, s >= first, availableBuffer'[Slot(s)] = Lap(s)
             PROVE  Published(s)'
  BY DEF FlagsSound
<1>1. CASE availableBuffer'[Slot(s)] = availableBuffer[Slot(s)]
  <2>1. Published(s)
    BY <1>1, <1>t DEF FlagsSound
  <2>2. QED
    BY <1>t, <2>1, PushPublished
<1>2. CASE availableBuffer'[Slot(s)] # availableBuffer[Slot(s)]
  <2>1. Publish(p)
    BY <1>2 DEF Push, LoadCursor, LoadCache, LoadGating, LoadWorkForGate, StoreCache, ClaimCursor,
                WriteEntry, shared
  <2>2. nextSequence(p) \in Nat
    BY <1>0 DEF nextSequence
  <2>3. Slot(s) \in 0..kIndexMask /\ Slot(nextSequence(p)) \in 0..kIndexMask
    BY <2>2, SlotType
  <2>4. Slot(s) = Slot(nextSequence(p)) /\ Lap(s) = Lap(nextSequence(p))
    BY <1>0, <1>2, <2>1, <2>3 DEF Publish
  <2>5. s = nextSequence(p)
    BY <2>2, <2>4, SlotAndLap
  <2>6. /\ cursor' = cursor /\ current' = current /\ ~Fills(p)' /\ Fills(p)
        /\ \A q \in Producers \ {p} : Fills(q)' => Fills(q)
    BY <1>0, <2>1 DEF Publish, Goto, Fills
  <2>7. s <= cursor
    BY <1>t, <2>5, <2>6 DEF ClaimsUnique
  <2>8. ASSUME NEW q \in Producers, Fills(q)'  PROVE nextSequence(q)' # s
    <3>1. q # p /\ current[q] # current[p] /\ current[q] \in Int
      BY <1>t, <2>6, <2>8, SequenceType DEF ClaimsUnique, TypeOK
    <3>2. QED
      BY <1>0, <2>5, <2>6, <3>1 DEF nextSequence
  <2>9. QED
    BY <2>6, <2>7, <2>8 DEF Published, InFlight
<1>3. QED
  BY <1>1, <1>2

\* Every step of a producer keeps what the consumers know sound.
LEMMA PushFlagInv ==
  ASSUME NEW first \in Nat, FlagInv(first), NEW p \in Producers, Push(p)
  PROVE  FlagInv(first)'
<1>t. Inv /\ TypeOK
  BY DEF FlagInv, Inv
<1>1. UNCHANGED available /\ \A c \in Consumers : UNCHANGED scan[c]
  <2>1. p \notin Consumers
    BY ThreadAssumption
  <2>2. QED
    BY <1>t, <2>1 DEF Push, LoadCursor, LoadCache, LoadGating, LoadWorkForGate, StoreCache,
                      ClaimCursor, WriteEntry, Publish, TypeOK, popLocals
<1>2. ASSUME NEW c \in Consumers  PROVE KnowsSound(c, first)'
  BY <1>1, <1>t, PushFrame, PushPublished DEF FlagInv, KnowsSound, SeenBelow
<1>3. QED
  BY <1>2, <1>t, PushInv, PushFlags DEF FlagInv

\* A consumer's own step keeps what it knows sound: a scan passes a sequence
\* whose flag it has seen, and what it claims next is no sequence below.
LEMMA PopKnows ==
  ASSUME NEW first \in Nat, FlagInv(first), NEW c \in Consumers, Pop(c)
  PROVE  KnowsSound(c, first)'
<1>t. /\ Inv /\ TypeOK /\ ReportHonest(c) /\ KnowsSound(c, first) /\ FlagsSound(first)
  BY DEF FlagInv, Inv, GatingHonest
<1>0. /\ data \in [Consumers -> [nextSequence : Sequence, cachedAvailableSequence : Sequence]]
      /\ pc \in [Threads -> ProducerPCs \cup ConsumerPCs]
      /\ scan \in [Threads -> Nat] /\ available \in [Consumers -> Sequence]
      /\ workSequence \in Int /\ current[c] \in Int /\ cursor \in Int
  BY <1>t, SequenceType DEF TypeOK
<1>i. /\ data[c].nextSequence \in Int /\ data[c].cachedAvailableSequence \in Int
      /\ scan[c] \in Nat /\ available[c] \in Int
  BY <1>0, SequenceType
<1>p. \A s \in Int : Published(s) => Published(s)'
  BY <1>t, PopPublished
<1> USE DEF Goto
<1>1. CASE LoadWork(c)
  <2>1. /\ data'[c].nextSequence = workSequence + 1 /\ pc'[c] = "store_gating"
        /\ data'[c].cachedAvailableSequence = data[c].cachedAvailableSequence
        /\ data[c].nextSequence <= workSequence
    BY <1>0, <1>1, <1>t DEF LoadWork, KnowsSound
  <2>2. QED
    BY <1>0, <1>i, <1>p, <1>t, <2>1 DEF KnowsSound, SeenBelow
<1>2. CASE StoreGating(c) \/ ClaimWork(c) \/ ReadEntry(c) \/ SetMaxValue(c)
  <2>1. data' = data /\ pc'[c] # "is_available"
    BY <1>0, <1>2 DEF StoreGating, ClaimWork, ClaimedPC, ReadEntry, SetMaxValue, popLocals
  <2>2. pc'[c] = "read_entry" => data[c].nextSequence <= data[c].cachedAvailableSequence
    BY <1>0, <1>2, <1>i DEF StoreGating, ClaimWork, ClaimedPC, ReadEntry, SetMaxValue
  <2>3. pc'[c] = "load_work" => data[c].nextSequence <= workSequence'
    BY <1>0, <1>2, <1>i, <1>t DEF StoreGating, ClaimWork, ClaimedPC, ReadEntry, SetMaxValue,
                                  shared, ReportHonest, Claims
  <2>4. QED
    BY <1>i, <1>p, <1>t, <2>1, <2>2, <2>3 DEF KnowsSound, SeenBelow
<1>3. CASE WaitForCursor(c)
  <2>1. /\ data' = data /\ pc'[c] = "is_available" /\ scan'[c] = data[c].nextSequence
        /\ available'[c] = cursor /\ cursor >= data[c].nextSequence
    BY <1>0, <1>3 DEF WaitForCursor
  <2>2. QED
    BY <1>0, <1>i, <1>p, <1>t, <2>1 DEF KnowsSound, SeenBelow
<1>4. CASE IsAvailable(c)
  <2>p. pc[c] = "is_available"
    BY <1>4 DEF IsAvailable
  <2>1. CASE availableBuffer[Slot(scan[c])] = Lap(scan[c]) /\ scan[c] < available[c]
    <3>1. /\ data' = data /\ pc' = pc /\ scan'[c] = scan[c] + 1 /\ available' = available
      BY <1>0, <1>4, <2>1 DEF IsAvailable
    <3>2. scan[c] >= first => Published(scan[c])
      BY <1>i, <1>t, <2>1 DEF FlagsSound
    <3>3. QED
      BY <1>i, <1>p, <1>t, <2>1, <2>p, <3>1, <3>2 DEF KnowsSound, SeenBelow
  <2>2. CASE ~(availableBuffer[Slot(scan[c])] = Lap(scan[c]) /\ scan[c] < available[c])
    <3> DEFINE highest == IF availableBuffer[Slot(scan[c])] = Lap(scan[c])
                            THEN available[c] ELSE scan[c] - 1
    <3>1. /\ data'[c].nextSequence = data[c].nextSequence
          /\ data'[c].cachedAvailableSequence = highest
          /\ pc'[c] = IF highest >= data[c].nextSequence THEN "read_entry" ELSE "wait"
      BY <1>0, <1>4, <2>2 DEF IsAvailable, ClaimedPC
    <3>2. highest \in Int /\ (highest = scan[c] - 1 \/ (highest = scan[c] /\
                              availableBuffer[Slot(scan[c])] = Lap(scan[c])))
      BY <1>i, <1>t, <2>2, <2>p DEF KnowsSound
    <3>3. ASSUME NEW s \in Nat, s >= first, data[c].nextSequence <= s, s < highest + 1
          PROVE  Published(s)
      <4>1. CASE s < scan[c]
        BY <1>t, <2>p, <3>3, <4>1 DEF KnowsSound, SeenBelow
      <4>2. CASE s = scan[c]
        BY <1>i, <1>t, <3>2, <3>3, <4>2 DEF FlagsSound
      <4>3. QED
        BY <1>i, <3>2, <3>3, <4>1, <4>2
    <3> HIDE DEF highest
    <3>4. QED
      BY <1>i, <1>p, <3>1, <3>2, <3>3 DEF KnowsSound, SeenBelow
  <2>3. QED
    BY <2>1, <2>2
<1>5. QED
  BY <1>1, <1>2, <1>3, <1>4 DEF Pop

\* Every step of a consumer keeps what the flags say and what consumers know sound.
LEMMA PopFlagInv ==
  ASSUME NEW first \in Nat, FlagInv(first), NEW c \in Consumers, Pop(c)
  PROVE  FlagInv(first)'
<1>t. Inv /\ TypeOK /\ GatingHonest
  BY DEF FlagInv, Inv
<1>p. \A s \in Int : Published(s) => Published(s)'
  BY <1>t, PopPublished
<1>1. FlagsSound(first)'
  <2>1. availableBuffer' = availableBuffer
    BY DEF Pop, LoadWork, StoreGating, ClaimWork, WaitForCursor, IsAvailable, ReadEntry,
           SetMaxValue, shared
  <2>2. QED
    BY <1>p, <2>1 DEF FlagInv, FlagsSound
<1>2. ASSUME NEW d \in Consumers \ {c}  PROVE KnowsSound(d, first)'
  <2>1. UNCHANGED <<scan[d], available[d], data[d], pc[d]>>
    BY <1>t, PopFrame DEF Pop, LoadWork, StoreGating, ClaimWork, WaitForCursor, IsAvailable,
                          ReadEntry, SetMaxValue, TypeOK, popLocals
  <2>2. /\ workSequence \in Int /\ workSequence' \in Int /\ workSequence' >= workSequence
        /\ data[d].nextSequence \in Int
    BY <1>t, PopReport, PopWork, SequenceType DEF TypeOK
  <2>3. KnowsSound(d, first)
    BY DEF FlagInv
  <2>4. QED
    BY <1>p, <2>1, <2>2, <2>3 DEF KnowsSound, SeenBelow
<1>3. QED
  BY <1>1, <1>2, <1>t, PopInv, PopKnows DEF FlagInv

\* A step of the system, or none, keeps the invariant.
LEMMA NextFlagInv ==
  ASSUME NEW first \in Nat
  PROVE  FlagInv(first) /\ [Next]_vars => FlagInv(first)'
<1> SUFFICES ASSUME FlagInv(first), [Next]_vars  PROVE FlagInv(first)'
  OBVIOUS
<1>1. CASE UNCHANGED vars
  <2>1. Inv'
    BY NextInv DEF FlagInv
  <2>2. FlagsSound(first)' /\ \A c \in Consumers : KnowsSound(c, first)'
    BY <1>1 DEF vars, FlagInv, FlagsSound, KnowsSound, SeenBelow, Published, InFlight, Fills,
                nextSequence
  <2>3. QED
    BY <2>1, <2>2 DEF FlagInv
<1>2. CASE \E p \in Producers : Push(p)
  BY <1>2, PushFlagInv
<1>3. CASE \E c \in Consumers : Pop(c)
  BY <1>3, PopFlagInv
<1>4. QED
  BY <1>1, <1>2, <1>3 DEF Next, Joined

\* Before the first call no consumer knows anything, and no flag from first on
\* is taken for a lap.
LEMMA InitFlagInv ==
  ASSUME NEW first \in Nat, InitSequences, Inv,
         \A s \in Nat : s >= first => availableBuffer[Slot(s)] # Lap(s)
  PROVE  FlagInv(first)
<1>1. ASSUME NEW c \in Consumers  PROVE KnowsSound(c, first)
  <2>1. pc[c] = "load_work"
    BY ThreadAssumption DEF InitSequences
  <2>2. QED
    BY <2>1 DEF InitSequences, KnowsSound, SeenBelow, INITIAL_CURSOR_VALUE
<1>2. QED
  BY <1>1 DEF FlagInv, FlagsSound

\* With every flag marked, no flag passes for a lap before it has been stored.
LEMMA MarkedFlags ==
  ASSUME InitSequences,
         entries = [s \in 0..kIndexMask |-> NULL],
         availableBuffer = [s \in 0..kIndexMask |-> -1]
  PROVE  FlagInv(0)
<1>1. \A s \in Nat : availableBuffer[Slot(s)] # Lap(s)
  <2> SUFFICES ASSUME NEW s \in Nat  PROVE availableBuffer[Slot(s)] # Lap(s)
    OBVIOUS
  <2>1. Slot(s) \in 0..kIndexMask /\ Lap(s) \in Nat
    BY SlotType, SlotAndLap
  <2>2. QED
    BY <2>1
<1>2. Inv
  BY InitInv
<1>3. QED
  BY <1>1, <1>2, InitFlagInv

\* In DisruptorRingQueue, whose init_queue sets every flag to -1, no consumer ever
\* copies an entry out before its producer has published it.
THEOREM EarlyReads == Spec => []ReadsPublished
<1>1. Init => FlagInv(0)
  BY MarkedFlags DEF Init
<1>2. FlagInv(0) /\ [Next]_vars => FlagInv(0)'
  BY NextFlagInv
<1>3. FlagInv(0) => ReadsPublished
  <2> SUFFICES ASSUME FlagInv(0), NEW c \in Consumers, pc[c] = "read_entry"
               PROVE  Published(data[c].nextSequence)
    BY DEF ReadsPublished
  <2>1. data[c].nextSequence \in Nat /\ data[c].cachedAvailableSequence \in Int
    BY SequenceType DEF FlagInv, Inv, TypeOK, GatingHonest, ReportHonest, Claims
  <2>2. QED
    BY <2>1 DEF FlagInv, KnowsSound, SeenBelow
<1>4. QED
  BY <1>1, <1>2, <1>3, PTL DEF Spec

\* In SmallDisruptorRingQueue, with flags that static storage left at 0, this still
\* holds of every lap but the first.
THEOREM LaterLaps ==
  ASSUME \A n \in UnsetFlags : n <= 0
  PROVE  SpecOld => []LaterLapsSound
<1>0. kCapacity \in Nat
  BY SizeAssumption
<1>1. InitOld => FlagInv(kCapacity)
  <2> SUFFICES ASSUME InitOld  PROVE FlagInv(kCapacity)
    OBVIOUS
  <2>1. availableBuffer \in [0..kIndexMask -> {n \in Int : n <= 0}]
    <3>1. CASE availableBuffer = [s \in 0..kIndexMask |-> -1]
      BY <3>1
    <3>2. CASE availableBuffer \in [0..kIndexMask -> UnsetFlags]
      BY <3>2, StorageAssumption
    <3>3. QED
      BY <3>1, <3>2 DEF InitOld, init_queue
  <2>2. \A s \in Nat : s >= kCapacity => availableBuffer[Slot(s)] # Lap(s)
    BY <2>1, SlotType, SlotAndLap
  <2>3. Inv
    BY <2>1, InitInv DEF InitOld, init_queue
  <2>4. QED
    BY <1>0, <2>2, <2>3, InitFlagInv DEF InitOld
<1>2. FlagInv(kCapacity) /\ [Next]_vars => FlagInv(kCapacity)'
  BY <1>0, NextFlagInv
<1>3. FlagInv(kCapacity) => LaterLapsSound
  <2> SUFFICES ASSUME FlagInv(kCapacity), NEW c \in Consumers, pc[c] = "read_entry",
                      data[c].nextSequence >= kCapacity
               PROVE  Published(data[c].nextSequence)
    BY DEF LaterLapsSound, Published
  <2>1. data[c].nextSequence \in Nat /\ data[c].cachedAvailableSequence \in Int
    BY SequenceType DEF FlagInv, Inv, TypeOK, GatingHonest, ReportHonest, Claims
  <2>2. QED
    BY <2>1 DEF FlagInv, KnowsSound, SeenBelow
<1>4. [NextOld]_varsOld => [Next]_vars
  BY DEF NextOld, Next, varsOld, push, pop, Push, Pop, getMinimumSequence, publish, waitFor,
         getHighestPublishedSequence
<1>5. QED
  BY <1>1, <1>2, <1>3, <1>4, PTL DEF SpecOld

-------------------------------------------------------------------------------
(* The record lists.  Every flag is marked here: what a consumer reads has *)
(* been published.                                                         *)

\* Consumer c may still read the entry of sequence: it holds it, or nobody has
\* claimed it yet.
Claimable(c, sequence) ==
  sequence > workSequence \/ (Claims(c) /\ data[c].nextSequence = sequence)

\* The entry of sequence is still to be read.
Pending(sequence) == \E c \in Consumers : Claimable(c, sequence)

\* The ring holds the message of sequence.
Held(sequence) == Published(sequence) /\ Pending(sequence)

entryOf(sequence) == entries[Slot(sequence)]

\* The push of message m is complete.
Pushed(m) == m \in Messages /\ m[2] <= sent[m[1]]

\* If m and n are messages of one producer, m is the earlier.
Before(m, n) == m[1] = n[1] => m[2] < n[2]

\* What is pending and has been claimed by a producer is less than a lap, and only
\* what has been published is ever taken out.
WindowSound ==
  /\ Consumed(cursor - kCapacity)
  /\ \A s \in Nat : Published(s) \/ Pending(s)

\* The ring holds messages that have been pushed, those of one producer in order;
\* a producer's next message goes behind them.
HeldSound ==
  /\ \A p \in Producers : pc[p] = "publish" => entryOf(nextSequence(p)) = <<p, sent[p] + 1>>
  /\ \A s \in Nat : Held(s) => Pushed(entryOf(s))
  /\ \A p \in Producers, s \in Nat :
       Held(s) /\ Fills(p) /\ entryOf(s)[1] = p => s < nextSequence(p)
  /\ \A s, t \in Nat : Held(s) /\ Held(t) /\ s < t => Before(entryOf(s), entryOf(t))

\* Record i of consumer c, where there is one.
Records(c) == DOMAIN popevent_list[c]
record(c, i) == popevent_list[c][i]

\* What consumers have recorded was pushed, is recorded once, is no longer in the
\* ring, and comes before what the consumer may still read.
RecordsSound ==
  /\ \A c \in Consumers : \A i \in Records(c) : Pushed(record(c, i))
  /\ \A c, d \in Consumers : \A i \in Records(c), j \in Records(d) :
       record(c, i) = record(d, j) => c = d /\ i = j
  /\ \A c \in Consumers : \A i, j \in Records(c) : i < j => Before(record(c, i), record(c, j))
  /\ \A c \in Consumers : \A i \in Records(c) : \A s \in Nat :
       Held(s) => /\ record(c, i) # entryOf(s)
                  /\ Claimable(c, s) => Before(record(c, i), entryOf(s))

\* A consumer is in its loop until it has its quota.
QuotaKept ==
  \A c \in Consumers :
    IF pc[c] \in {"set_max", "done"} THEN Len(popevent_list[c]) = MAX_POP_MSG_COUNT
                                     ELSE Len(popevent_list[c]) < MAX_POP_MSG_COUNT

\* The inductive invariant behind PopListCorrect and ProducerOrder.
ListInv == FlagInv(0) /\ WindowSound /\ HeldSound /\ RecordsSound /\ QuotaKept

\* Two sequences that are less than a lap apart have different slots.
LEMMA SlotsDiffer ==
  ASSUME NEW bound \in Int, NEW m \in Nat, NEW n \in Nat, m # n,
         bound - kCapacity < m, m <= bound, bound - kCapacity < n, n <= bound
  PROVE  Slot(m) # Slot(n)
<1> USE SizeAssumption
<1>1. ASSUME NEW x \in Nat
      PROVE  /\ x = kCapacity * (x \div kCapacity) + Slot(x)
             /\ x \div kCapacity \in Nat /\ Slot(x) \in Nat
  BY DEF Slot
<1>2. ASSUME NEW a \in Nat, NEW b \in Nat, a > b
      PROVE  kCapacity * a >= kCapacity * b + kCapacity
  <2>1. kCapacity * (a - b - 1) >= 0
    BY <1>2
  <2>2. QED
    BY <2>1
<1> DEFINE a == m \div kCapacity
           b == n \div kCapacity
<1>3. /\ m = kCapacity * a + Slot(m) /\ a \in Nat /\ Slot(m) \in Nat
      /\ n = kCapacity * b + Slot(n) /\ b \in Nat /\ Slot(n) \in Nat
  BY <1>1
<1> HIDE DEF a, b
<1>4. kCapacity * a - kCapacity * b = m - n \/ Slot(m) # Slot(n)
  BY <1>3
<1>5. (a > b => kCapacity * a >= kCapacity * b + kCapacity)
      /\ (b > a => kCapacity * b >= kCapacity * a + kCapacity)
  BY <1>2, <1>3
<1>6. a = b => m = n \/ Slot(m) # Slot(n)
  BY <1>3
<1> DEFINE x == kCapacity * a
           y == kCapacity * b
<1>7. x \in Int /\ y \in Int
  BY <1>3
<1>8. /\ x - y = m - n \/ Slot(m) # Slot(n)
      /\ a > b => x >= y + kCapacity
      /\ b > a => y >= x + kCapacity
  BY <1>4, <1>5
<1> HIDE DEF x, y
<1>9. QED
  BY <1>3, <1>6, <1>7, <1>8

\* A sequence up to which all has been read is not pending.
LEMMA NotPending ==
  ASSUME TypeOK, NEW b \in Int, Consumed(b), NEW s \in Int, Pending(s)
  PROVE  s > b
<1>1. /\ workSequence \in Int /\ \A c \in Consumers : data[c].nextSequence \in Int
  BY SequenceType DEF TypeOK
<1>2. QED
  BY <1>1 DEF Consumed, Pending, Claimable

\* What is pending and behind cursor lies in the last lap, each in a slot of its own.
LEMMA PendingSlots ==
  ASSUME Inv, WindowSound, NEW s \in Nat, NEW t \in Nat, s # t,
         s <= cursor, t <= cursor, Pending(s), Pending(t)
  PROVE  Slot(s) # Slot(t)
<1>1. cursor \in Int /\ cursor - kCapacity \in Int /\ TypeOK
  BY SequenceType, SizeAssumption DEF Inv, TypeOK
<1>2. s > cursor - kCapacity /\ t > cursor - kCapacity
  BY <1>1, NotPending DEF WindowSound
<1>3. QED
  BY <1>1, <1>2, SlotsDiffer

\* The sequence a producer fills is pending, behind cursor, and not published.
LEMMA FilledPending ==
  ASSUME Inv, WindowSound, NEW p \in Producers, Fills(p)
  PROVE  /\ nextSequence(p) \in Nat /\ nextSequence(p) <= cursor
         /\ ~Published(nextSequence(p)) /\ Pending(nextSequence(p))
<1>1. nextSequence(p) \in Nat
  BY SequenceType DEF Inv, TypeOK, nextSequence
<1>2. nextSequence(p) <= cursor /\ ~Published(nextSequence(p))
  BY DEF Inv, ClaimsUnique, Published, InFlight
<1>3. QED
  BY <1>1, <1>2 DEF WindowSound

\* A producer's step leaves every entry the ring holds where it is, and adds at
\* most the one it publishes; the consumers may read what they could before.
LEMMA PushHeld ==
  ASSUME ListInv, NEW p \in Producers, Push(p)
  PROVE  /\ \A s : Pending(s)' <=> Pending(s)
         /\ \A c \in Consumers, s \in Nat : Claimable(c, s)' <=> Claimable(c, s)
         /\ \A s \in Nat : Held(s) => Held(s)' /\ entryOf(s)' = entryOf(s)
         /\ \A s \in Nat : Held(s)' => Held(s) \/ (Publish(p) /\ s = nextSequence(p))
<1>t. Inv /\ TypeOK /\ ClaimsUnique /\ WindowSound
  BY DEF ListInv, FlagInv, Inv
<1>0. /\ cursor \in Int /\ current \in [Threads -> Sequence] /\ current[p] \in Int
      /\ pc \in [Threads -> ProducerPCs \cup ConsumerPCs]
      /\ entries \in [0..kIndexMask -> Messages \cup {NULL}]
  BY <1>t, SequenceType DEF TypeOK
<1>1. /\ \A s : Pending(s)' <=> Pending(s)
      /\ \A c \in Consumers, s \in Nat : Claimable(c, s)' <=> Claimable(c, s)
  BY <1>t, PushFrame DEF Pending, Claimable, Claims
<1>2. ASSUME NEW s \in Nat, Held(s)  PROVE Held(s)' /\ entryOf(s)' = entryOf(s)
  <2>1. Held(s)'
    BY <1>1, <1>2, <1>t, PushPublished DEF Held
  <2>2. CASE WriteEntry(p)
    <3>1. Fills(p)
      BY <2>2 DEF WriteEntry, Fills
    <3>2. Slot(s) # Slot(nextSequence(p))
      BY <1>2, <1>t, <3>1, FilledPending, PendingSlots DEF Held, Published
    <3>3. QED
      BY <1>0, <2>1, <2>2, <3>2, SlotType DEF WriteEntry, entryOf
  <2>3. CASE ~WriteEntry(p)
    <3>1. entries' = entries
      BY <2>3 DEF Push, LoadCursor, LoadCache, LoadGating, LoadWorkForGate, StoreCache,
                  ClaimCursor, Publish, shared
    <3>2. QED
      BY <2>1, <3>1 DEF entryOf
  <2>4. QED
    BY <2>2, <2>3
<1>3. ASSUME NEW s \in Nat, Held(s)', ~Held(s)  PROVE Publish(p) /\ s = nextSequence(p)
  <2>1. Published(s)' /\ ~Published(s)
    BY <1>1, <1>3 DEF Held
  <2>f. \A q \in Producers \ {p} : UNCHANGED <<pc[q], current[q]>>
    BY <1>t, PushFrame
  <2>2. CASE ClaimCursor(p) /\ cursor = current[p]
    <3>1. /\ cursor' = nextSequence(p) /\ nextSequence(p) = cursor + 1 /\ current' = current
          /\ Fills(p)' /\ ~Fills(p)
      BY <1>0, <2>2 DEF ClaimCursor, Goto, Fills, nextSequence
    <3>2. s # nextSequence(p) /\ s <= cursor + 1
      BY <2>1, <3>1 DEF Published, InFlight, nextSequence
    <3>3. \A q \in Producers : Fills(q) => Fills(q)' /\ nextSequence(q)' = nextSequence(q)
      BY <2>f, <3>1 DEF Fills, nextSequence
    <3>4. QED
      BY <1>0, <2>1, <3>1, <3>2, <3>3 DEF Published, InFlight
  <2>3. CASE ~(ClaimCursor(p) /\ cursor = current[p]) /\ ~Publish(p)
    <3>1. cursor' = cursor /\ (Fills(p) => Fills(p)' /\ current'[p] = current[p])
      BY <1>0, <2>3 DEF Push, LoadCursor, LoadCache, LoadGating, LoadWorkForGate, StoreCache,
                        ClaimCursor, WriteEntry, Goto, shared, Fills
    <3>2. \A q \in Producers : Fills(q) => Fills(q)' /\ nextSequence(q)' = nextSequence(q)
      BY <2>f, <3>1 DEF Fills, nextSequence
    <3>3. QED
      BY <2>1, <3>1, <3>2 DEF Published, InFlight
  <2>4. CASE Publish(p)
    <3>1. cursor' = cursor /\ current' = current
      BY <2>4 DEF Publish
    <3>2. \A q \in Producers \ {p} : Fills(q) => Fills(q)' /\ nextSequence(q)' = nextSequence(q)
      BY <2>f DEF Fills, nextSequence
    <3>3. QED
      BY <2>1, <2>4, <3>1, <3>2 DEF Published, InFlight
  <2>5. QED
    BY <2>2, <2>3, <2>4
<1>4. QED
  BY <1>1, <1>2, <1>3

\* A producer claims a sequence only where a lap of room has been made.
LEMMA PushWindow ==
  ASSUME ListInv, NEW p \in Producers, Push(p)
  PROVE  WindowSound'
<1>t. Inv /\ TypeOK /\ PassedGate /\ WindowSound
  BY DEF ListInv, FlagInv, Inv
<1>0. cursor \in Int /\ current[p] \in Int /\ kCapacity \in Int
  BY <1>t, SequenceType, SizeAssumption DEF TypeOK
<1>c. \A b \in Int : Consumed(b) => Consumed(b)'
  BY <1>t, PushConsumed
<1>1. \A b \in Int : b = cursor' - kCapacity => Consumed(b)'
  <2>1. CASE ClaimCursor(p) /\ cursor = current[p]
    <3>1. cursor' = nextSequence(p) /\ Consumed(wrapPoint(p))
      BY <1>t, <2>1 DEF ClaimCursor, PassedGate
    <3>2. cursor' - kCapacity = wrapPoint(p) /\ wrapPoint(p) \in Int
      BY <1>0, <3>1 DEF nextSequence, wrapPoint, kIndexMask
    <3>3. \A b \in Int : b = wrapPoint(p) => Consumed(b)
      BY <3>1
    <3>4. QED
      BY <1>c, <3>2, <3>3
  <2>2. CASE ~(ClaimCursor(p) /\ cursor = current[p])
    <3>1. cursor' = cursor
      BY <2>2 DEF Push, LoadCursor, LoadCache, LoadGating, LoadWorkForGate, StoreCache,
                  ClaimCursor, WriteEntry, Publish, shared
    <3>2. \A b \in Int : b = cursor - kCapacity => Consumed(b)
      BY <1>t DEF WindowSound
    <3>3. QED
      BY <1>c, <3>1, <3>2
  <2>3. QED
    BY <2>1, <2>2
<1>2. \A s \in Nat : Published(s)' \/ Pending(s)'
  BY <1>t, PushHeld, PushPublished DEF WindowSound
<1>3. cursor' \in Int
  BY <1>t, PushType, SequenceType DEF TypeOK
<1>4. cursor' - kCapacity \in Int
  BY <1>0, <1>3
<1>5. /\ cursor' - kCapacity <= workSequence'
      /\ \A c \in Consumers : Claims(c)' => data'[c].nextSequence > cursor' - kCapacity
  BY <1>1, <1>4 DEF Consumed
<1>6. Consumed(cursor - kCapacity)'
  BY <1>5 DEF Consumed
<1>7. QED
  BY <1>2, <1>6 DEF WindowSound

\* Where a message number and a claim of a producer change.
LEMMA PushSent ==
  ASSUME ListInv, NEW p \in Producers, Push(p)
  PROVE  /\ UNCHANGED popevent_list
         /\ \A q \in Producers \ {p} : UNCHANGED <<pc[q], current[q], sent[q]>>
         /\ IF Publish(p) THEN sent'[p] = sent[p] + 1 ELSE UNCHANGED sent
         /\ \A m : Pushed(m) => Pushed(m)'
<1>t. TypeOK
  BY DEF ListInv, FlagInv, Inv
<1>0. sent \in [Producers -> 0..MAX_PUSH_MSG_COUNT] /\ MAX_PUSH_MSG_COUNT \in Nat
  BY <1>t, SizeAssumption DEF TypeOK
<1>1. UNCHANGED popevent_list
  BY DEF Push, LoadCursor, LoadCache, LoadGating, LoadWorkForGate, StoreCache, ClaimCursor,
         WriteEntry, Publish, harnessVars
<1>2. IF Publish(p) THEN sent' = [sent EXCEPT ![p] = sent[p] + 1] ELSE UNCHANGED sent
  BY DEF Push, LoadCursor, LoadCache, LoadGating, LoadWorkForGate, StoreCache, ClaimCursor,
         WriteEntry, Publish, harnessVars
<1>3. \A q \in Producers \ {p} : UNCHANGED <<pc[q], current[q]>>
  BY <1>t, PushFrame
<1>4. \A q \in Producers : sent'[q] \in Int /\ sent'[q] >= sent[q]
  BY <1>0, <1>2
<1>5. ASSUME NEW m, Pushed(m)  PROVE Pushed(m)'
  <2>1. m[1] \in Producers /\ m[2] \in Nat /\ m \in Messages /\ m[2] <= sent[m[1]]
    BY <1>5 DEF Pushed, Messages
  <2>2. QED
    BY <1>0, <1>4, <2>1 DEF Pushed, Messages
<1>6. QED
  BY <1>0, <1>1, <1>2, <1>3, <1>5

\* What a producer has published last is its next message, and the ring did not
\* hold it before.
LEMMA PublishNew ==
  ASSUME ListInv, NEW p \in Producers, Publish(p)
  PROVE  /\ nextSequence(p) \in Nat /\ ~Held(nextSequence(p))
         /\ \A s : s = nextSequence(p) => entryOf(s)' = <<p, sent[p] + 1>>
         /\ <<p, sent[p] + 1>> \in Messages /\ sent'[p] = sent[p] + 1
         /\ ~Fills(p)'
<1>t. Inv /\ TypeOK /\ WindowSound /\ HeldSound
  BY DEF ListInv, FlagInv, Inv
<1>1. Fills(p) /\ pc[p] = "publish"
  BY DEF Publish, Fills
<1>2. nextSequence(p) \in Nat /\ ~Held(nextSequence(p))
  BY <1>1, <1>t, FilledPending DEF Held
<1>3. \A s : entryOf(s)' = entryOf(s)
  BY DEF Publish, entryOf
<1>4. /\ sent[p] \in 0..MAX_PUSH_MSG_COUNT /\ sent[p] < MAX_PUSH_MSG_COUNT
      /\ sent \in [Producers -> 0..MAX_PUSH_MSG_COUNT]
      /\ pc \in [Threads -> ProducerPCs \cup ConsumerPCs]
  BY <1>1, <1>t DEF TypeOK
<1>5. <<p, sent[p] + 1>> \in Messages
  BY <1>4, SizeAssumption DEF Messages
<1>6. sent'[p] = sent[p] + 1 /\ ~Fills(p)'
  BY <1>4 DEF Publish, Goto, Fills
<1>7. QED
  BY <1>1, <1>2, <1>3, <1>5, <1>6, <1>t DEF HeldSound

\* A producer's step keeps what the ring holds in order.
LEMMA PushHeldSound ==
  ASSUME ListInv, NEW p \in Producers, Push(p)
  PROVE  HeldSound'
<1>t. Inv /\ TypeOK /\ ClaimsUnique /\ WindowSound /\ HeldSound
  BY DEF ListInv, FlagInv, Inv
<1>0. /\ cursor \in Int /\ current \in [Threads -> Sequence]
      /\ \A q \in Producers : current[q] \in Int /\ current[q] >= -1 /\ sent[q] \in Int
      /\ pc \in [Threads -> ProducerPCs \cup ConsumerPCs]
      /\ entries \in [0..kIndexMask -> Messages \cup {NULL}]
  BY <1>t, SequenceType DEF TypeOK
<1>f. \A q \in Producers \ {p} : UNCHANGED <<pc[q], current[q], sent[q]>>
  BY PushSent
<1>h. /\ \A s \in Nat : Held(s) => Held(s)' /\ entryOf(s)' = entryOf(s)
      /\ \A s \in Nat : Held(s)' => Held(s) \/ (Publish(p) /\ s = nextSequence(p))
  BY PushHeld
<1>1. ASSUME NEW q \in Producers, pc'[q] = "publish"
      PROVE  entryOf(nextSequence(q))' = <<q, sent'[q] + 1>>
  <2>1. CASE q = p
    <3>1. WriteEntry(p)
      BY <1>0, <1>1, <2>1 DEF Push, LoadCursor, LoadCache, LoadGating, LoadWorkForGate, StoreCache,
                              ClaimCursor, WriteEntry, Publish, Goto
    <3>2. nextSequence(p) \in Nat /\ nextSequence(p)' = nextSequence(p) /\ sent' = sent
      BY <1>0, <3>1 DEF WriteEntry, nextSequence, harnessVars
    <3>3. QED
      BY <1>0, <2>1, <3>1, <3>2, SlotType DEF WriteEntry, entryOf
  <2>2. CASE q # p
    <3>1. pc[q] = "publish" /\ nextSequence(q)' = nextSequence(q) /\ sent'[q] = sent[q]
      BY <1>1, <1>f, <2>2 DEF nextSequence
    <3>2. entryOf(nextSequence(q)) = <<q, sent[q] + 1>>
      BY <1>t, <3>1 DEF HeldSound
    <3>3. CASE WriteEntry(p)
      <4>1. Fills(p) /\ Fills(q)
        BY <3>1, <3>3 DEF WriteEntry, Fills
      <4>2. nextSequence(p) # nextSequence(q)
        BY <1>0, <1>t, <2>2, <4>1 DEF ClaimsUnique, nextSequence
      <4>3. Slot(nextSequence(p)) # Slot(nextSequence(q)) /\ nextSequence(q) \in Nat
        BY <1>t, <4>1, <4>2, FilledPending, PendingSlots
      <4>4. entries'[Slot(nextSequence(q))] = entries[Slot(nextSequence(q))]
        BY <1>0, <3>3, <4>3, SlotType DEF WriteEntry
      <4>5. QED
        BY <3>1, <3>2, <4>4 DEF entryOf
    <3>4. CASE ~WriteEntry(p)
      <4>1. entries' = entries
        BY <3>4 DEF Push, LoadCursor, LoadCache, LoadGating, LoadWorkForGate, StoreCache,
                    ClaimCursor, Publish, shared
      <4>2. QED
        BY <3>1, <3>2, <4>1 DEF entryOf
    <3>5. QED
      BY <3>3, <3>4
  <2>3. QED
    BY <2>1, <2>2
<1>2. ASSUME NEW s \in Nat, Held(s)'  PROVE Pushed(entryOf(s))'
  <2>1. CASE Held(s)
    <3>1. Pushed(entryOf(s)) /\ entryOf(s)' = entryOf(s)
      BY <1>h, <1>t, <2>1 DEF HeldSound
    <3>2. QED
      BY <3>1, PushSent DEF Pushed
  <2>2. CASE ~Held(s)
    <3>1. Publish(p) /\ s = nextSequence(p)
      BY <1>2, <1>h, <2>2
    <3>2. /\ entryOf(s)' = <<p, sent[p] + 1>> /\ <<p, sent[p] + 1>> \in Messages
          /\ sent'[p] = sent[p] + 1
      BY <3>1, PublishNew
    <3>3. QED
      BY <1>0, <3>2 DEF Pushed
  <2>3. QED
    BY <2>1, <2>2
<1>3. ASSUME NEW q \in Producers, NEW s \in Nat, Held(s)', Fills(q)', entryOf(s)'[1] = q
      PROVE  s < nextSequence(q)'
  <2>1. CASE ~Held(s)
    <3>1. Publish(p) /\ s = nextSequence(p) /\ ~Fills(p)'
      BY <1>3, <1>h, <2>1, PublishNew
    <3>2. entryOf(s)' = <<p, sent[p] + 1>>
      BY <3>1, PublishNew
    <3>3. QED
      BY <1>3, <3>1, <3>2
  <2>2. CASE Held(s) /\ Fills(q) /\ nextSequence(q)' = nextSequence(q)
    BY <1>3, <1>h, <1>t, <2>2 DEF HeldSound
  <2>3. CASE Held(s) /\ ~(Fills(q) /\ nextSequence(q)' = nextSequence(q))
    <3>1. q = p
      BY <1>3, <1>f, <2>3 DEF Fills, nextSequence
    <3>2. ClaimCursor(p) /\ cursor = current[p] /\ current' = current
      BY <1>0, <1>3, <2>3, <3>1 DEF Push, LoadCursor, LoadCache, LoadGating, LoadWorkForGate,
            StoreCache, ClaimCursor, WriteEntry, Publish, Goto, Fills, nextSequence
    <3>3. s <= cursor /\ nextSequence(q)' = cursor + 1
      BY <2>3, <3>1, <3>2 DEF Held, Published, nextSequence
    <3>4. QED
      BY <1>0, <3>3
  <2>4. QED
    BY <2>1, <2>2, <2>3
<1>4. ASSUME NEW s \in Nat, NEW t \in Nat, Held(s)', Held(t)', s < t
      PROVE  Before(entryOf(s)', entryOf(t)')
  <2>1. CASE Held(s) /\ Held(t)
    BY <1>4, <1>h, <1>t, <2>1 DEF HeldSound
  <2>2. CASE Held(s) /\ ~Held(t)
    <3>1. Publish(p) /\ t = nextSequence(p)
      BY <1>4, <1>h, <2>2
    <3>2. entryOf(t)' = <<p, sent[p] + 1>>
      BY <3>1, PublishNew
    <3>3. entryOf(s)' = entryOf(s) /\ Pushed(entryOf(s))
      BY <1>h, <1>t, <2>2 DEF HeldSound
    <3>4. ASSUME entryOf(s)[1] = p  PROVE entryOf(s)[2] < sent[p] + 1
      <4>1. entryOf(s)[2] <= sent[p] /\ entryOf(s)[2] \in Int
        BY <3>3, <3>4 DEF Pushed, Messages
      <4>2. QED
        BY <1>0, <4>1
    <3>5. QED
      BY <3>2, <3>3, <3>4 DEF Before
  <2>3. CASE ~Held(s)
    <3>1. Publish(p) /\ s = nextSequence(p) /\ Fills(p)
      BY <1>4, <1>h, <2>3 DEF Publish, Fills
    <3>2. entryOf(s)' = <<p, sent[p] + 1>>
      BY <3>1, PublishNew
    <3>3. Held(t) /\ entryOf(t)' = entryOf(t)
      BY <1>4, <1>h, <3>1
    <3>4. entryOf(t)[1] # p
      BY <1>0, <1>4, <1>t, <3>1, <3>3 DEF HeldSound
    <3>5. QED
      BY <3>2, <3>3, <3>4 DEF Before
  <2>4. QED
    BY <2>1, <2>2, <2>3
<1>5. QED
  BY <1>1, <1>2, <1>3, <1>4 DEF HeldSound, Before

\* A producer's step leaves the records alone, and what it adds comes after them.
LEMMA PushRecords ==
  ASSUME ListInv, NEW p \in Producers, Push(p)
  PROVE  RecordsSound' /\ QuotaKept'
<1>t. /\ Inv /\ TypeOK /\ RecordsSound /\ QuotaKept
  BY DEF ListInv, FlagInv, Inv
<1>0. sent[p] \in Int
  BY <1>t DEF TypeOK
<1>u. /\ popevent_list' = popevent_list
      /\ \A c \in Consumers : /\ Records(c)' = Records(c)
                              /\ \A i : record(c, i)' = record(c, i)
                              /\ pc'[c] = pc[c]
  BY <1>t, PushSent, PushFrame DEF Records, record
<1>1. \A c \in Consumers : \A i \in Records(c)' : Pushed(record(c, i))'
  <2>1. \A c \in Consumers : \A i \in Records(c) : Pushed(record(c, i))
    BY <1>t DEF RecordsSound
  <2>2. \A m : Pushed(m) => Pushed(m)'
    BY PushSent
  <2>3. QED
    BY <1>u, <2>1, <2>2 DEF Pushed
<1>2. ASSUME NEW c \in Consumers, NEW i \in Records(c), NEW s \in Nat, Held(s)'
      PROVE  /\ record(c, i) # entryOf(s)'
             /\ Claimable(c, s) => Before(record(c, i), entryOf(s)')
  <2>1. CASE Held(s)
    BY <1>t, <2>1, PushHeld DEF RecordsSound
  <2>2. CASE ~Held(s)
    <3>1. Publish(p) /\ s = nextSequence(p)
      BY <1>2, <2>2, PushHeld
    <3>2. entryOf(s)' = <<p, sent[p] + 1>>
      BY <3>1, PublishNew
    <3>3. Pushed(record(c, i))
      BY <1>t DEF RecordsSound
    <3>4. ASSUME record(c, i)[1] = p  PROVE record(c, i)[2] < sent[p] + 1
      <4>1. record(c, i)[2] <= sent[p] /\ record(c, i)[2] \in Int
        BY <3>3, <3>4 DEF Pushed, Messages
      <4>2. QED
        BY <1>0, <4>1
    <3>5. QED
      BY <1>0, <3>2, <3>4 DEF Before
  <2>3. QED
    BY <2>1, <2>2
<1>3. /\ \A c, d \in Consumers : \A i \in Records(c), j \in Records(d) :
           record(c, i) = record(d, j) => c = d /\ i = j
      /\ \A c \in Consumers : \A i, j \in Records(c) : i < j => Before(record(c, i), record(c, j))
  BY <1>t DEF RecordsSound
<1>4. \A c \in Consumers, s \in Nat : Claimable(c, s)' <=> Claimable(c, s)
  BY PushHeld
<1>5. RecordsSound'
  BY <1>1, <1>2, <1>3, <1>4, <1>u DEF RecordsSound, Before
<1>6. QED
  BY <1>5, <1>t, <1>u DEF QuotaKept

\* A consumer's step puts nothing into the ring and moves nothing there; what it
\* may read it could claim before, and nothing up for others is taken from them.
LEMMA PopHeld ==
  ASSUME ListInv, NEW c \in Consumers, Pop(c)
  PROVE  /\ \A s \in Int : Published(s)' <=> Published(s)
         /\ \A s : entryOf(s)' = entryOf(s)
         /\ \A d \in Consumers, s \in Nat : Claimable(d, s)' => Claimable(d, s)
         /\ \A s \in Nat : Held(s)' => Held(s)
         /\ UNCHANGED sent /\ \A q \in Producers : UNCHANGED <<pc[q], current[q]>>
<1>t. Inv /\ TypeOK /\ GatingHonest
  BY DEF ListInv, FlagInv, Inv
<1>0. /\ workSequence \in Int /\ workSequence' \in Int /\ workSequence' >= workSequence
  BY <1>t, SequenceType, PopReport, PopWork DEF TypeOK
<1>1. entries' = entries /\ sent' = sent
  BY DEF Pop, LoadWork, StoreGating, ClaimWork, WaitForCursor, IsAvailable, ReadEntry,
         SetMaxValue, shared, harnessVars
<1>2. ASSUME NEW d \in Consumers, NEW s \in Nat, Claimable(d, s)'  PROVE Claimable(d, s)
  <2>1. CASE s > workSequence'
    BY <1>0, <2>1 DEF Claimable
  <2>2. CASE ~(s > workSequence') /\ d = c
    <3>1. Claims(c)' /\ data'[c].nextSequence = s
      BY <1>2, <2>2 DEF Claimable
    <3>2. QED
      BY <1>0, <1>t, <2>2, <3>1, PopReport DEF Claimable
  <2>3. CASE ~(s > workSequence') /\ d # c
    BY <1>2, <1>t, <2>3, PopFrame DEF Claimable, Claims
  <2>4. QED
    BY <2>1, <2>2, <2>3
<1>3. \A q \in Producers : UNCHANGED <<pc[q], current[q]>> /\ cursor' = cursor
  BY <1>t, PopFrame
<1>4. \A s \in Int : Published(s)' <=> Published(s)
  BY <1>t, <1>3, PopFrame DEF Published, InFlight, Fills, nextSequence
<1>5. \A s \in Nat : Held(s)' => Held(s)
  BY <1>2, <1>4 DEF Held, Pending
<1>6. QED
  BY <1>1, <1>2, <1>3, <1>4, <1>5 DEF entryOf

\* What a consumer reads is in the ring, and when it has read it, it is there for
\* nobody any more.
LEMMA ReadHeld ==
  ASSUME ListInv, NEW c \in Consumers, ReadEntry(c), NEW s \in Nat, s = data[c].nextSequence
  PROVE  Held(s) /\ Claimable(c, s) /\ ~Held(s)' /\ s <= workSequence
<1>t. /\ Inv /\ TypeOK /\ GatingHonest /\ ClaimsUnique /\ KnowsSound(c, 0)
  BY DEF ListInv, FlagInv, Inv
<1>1. pc[c] = "read_entry" /\ Claims(c)
  BY DEF ReadEntry, Claims
<1>0. /\ workSequence \in Int /\ pc \in [Threads -> ProducerPCs \cup ConsumerPCs]
      /\ data[c].cachedAvailableSequence \in Int
  BY <1>t, SequenceType DEF TypeOK
<1>2. Published(s)
  BY <1>0, <1>1, <1>t DEF KnowsSound, SeenBelow
<1>3. Claimable(c, s) /\ s <= workSequence
  BY <1>1, <1>t DEF Claimable, GatingHonest, ReportHonest
<1>4. UNCHANGED <<workSequence, data>> /\ ~Claims(c)'
  BY <1>0 DEF ReadEntry, shared, popLocals, Goto, Claims
<1>5. \A d \in Consumers \ {c} : Claims(d)' => data'[d].nextSequence # s
  BY <1>1, <1>4, <1>t, PopFrame DEF Pop, ClaimsUnique, Claims
<1>6. ~Pending(s)'
  BY <1>0, <1>3, <1>4, <1>5 DEF Pending, Claimable
<1>7. QED
  BY <1>2, <1>3, <1>6 DEF Held, Pending

\* A consumer takes out only what has been published, and what it has claimed
\* counts as pending until then.
LEMMA PopWindow ==
  ASSUME ListInv, NEW c \in Consumers, Pop(c)
  PROVE  WindowSound'
<1>t. Inv /\ TypeOK /\ GatingHonest /\ WindowSound
  BY DEF ListInv, FlagInv, Inv
<1>0. /\ workSequence \in Int /\ cursor \in Int /\ kCapacity \in Int
      /\ pc \in [Threads -> ProducerPCs \cup ConsumerPCs]
  BY <1>t, SequenceType, SizeAssumption DEF TypeOK
<1>1. cursor' = cursor /\ Consumed(cursor - kCapacity)'
  <2>1. cursor' = cursor
    BY <1>t, PopFrame
  <2>2. \A b \in Int : b = cursor - kCapacity => Consumed(b)'
    BY <1>t, PopConsumed DEF WindowSound
  <2>3. cursor - kCapacity \in Int
    BY <1>0
  <2>4. /\ cursor - kCapacity <= workSequence'
        /\ \A d \in Consumers : Claims(d)' => data'[d].nextSequence > cursor - kCapacity
    BY <2>2, <2>3 DEF Consumed
  <2>5. QED
    BY <2>1, <2>4 DEF Consumed
<1>2. ASSUME NEW s \in Nat, ~Published(s)  PROVE Pending(s)'
  <2>1. PICK d \in Consumers : Claimable(d, s)
    BY <1>2, <1>t DEF WindowSound, Pending
  <2>2. CASE ClaimWork(c) /\ workSequence = current[c]
    <3>1. /\ workSequence' = data[c].nextSequence /\ data' = data /\ Claims(c)'
          /\ data[c].nextSequence = workSequence + 1
      BY <1>0, <1>t, <2>2 DEF ClaimWork, ClaimedPC, Goto, Claims, popLocals, GatingHonest,
                              ReportHonest
    <3>2. CASE s > workSequence
      BY <1>0, <3>1, <3>2 DEF Pending, Claimable
    <3>3. CASE ~(s > workSequence)
      <4>1. Claims(d) /\ data[d].nextSequence = s
        BY <2>1, <3>3 DEF Claimable
      <4>2. d # c
        BY <2>2, <4>1 DEF ClaimWork, Claims
      <4>3. QED
        BY <1>t, <4>1, <4>2, PopFrame DEF Pending, Claimable, Claims
    <3>4. QED
      BY <3>2, <3>3
  <2>3. CASE ~(ClaimWork(c) /\ workSequence = current[c])
    <3>1. workSequence' = workSequence
      BY <2>3 DEF Pop, LoadWork, StoreGating, ClaimWork, WaitForCursor, IsAvailable, ReadEntry,
                  SetMaxValue, shared
    <3>2. CASE s > workSequence \/ d # c
      BY <1>t, <2>1, <3>1, <3>2, PopFrame DEF Pending, Claimable, Claims
    <3>3. CASE ~(s > workSequence) /\ d = c
      <4>1. Claims(c) /\ data[c].nextSequence = s
        BY <2>1, <3>3 DEF Claimable
      <4>2. ~ReadEntry(c)
        BY <1>2, <4>1, ReadHeld DEF Held
      <4>3. WaitForCursor(c) \/ IsAvailable(c)
        BY <4>1, <4>2 DEF Pop, LoadWork, StoreGating, ClaimWork, SetMaxValue, Claims
      <4>4. /\ data \in [Consumers -> [nextSequence : Sequence, cachedAvailableSequence : Sequence]]
        BY <1>t DEF TypeOK
      <4>5. Claims(c)' /\ data'[c].nextSequence = data[c].nextSequence
        <5>1. CASE WaitForCursor(c)
          BY <1>0, <5>1 DEF WaitForCursor, Goto, Claims
        <5>2. CASE IsAvailable(c)
          <6>1. data'[c].nextSequence = data[c].nextSequence
            BY <4>4, <5>2 DEF IsAvailable
          <6>2. pc'[c] \in {"is_available", "read_entry", "wait"}
            BY <1>0, <5>2 DEF IsAvailable, ClaimedPC, Goto
          <6>3. QED
            BY <6>1, <6>2 DEF Claims
        <5>3. QED
          BY <4>3, <5>1, <5>2
      <4>6. QED
        BY <4>1, <4>5 DEF Pending, Claimable
    <3>4. QED
      BY <3>2, <3>3
  <2>4. QED
    BY <2>2, <2>3
<1>3. \A s \in Nat : Published(s)' \/ Pending(s)'
  BY <1>2, PopHeld
<1>4. QED
  BY <1>1, <1>3 DEF WindowSound, Consumed

\* A consumer's step keeps what the ring holds in order.
LEMMA PopHeldSound ==
  ASSUME ListInv, NEW c \in Consumers, Pop(c)
  PROVE  HeldSound'
<1>t. HeldSound
  BY DEF ListInv
<1>1. /\ \A s : entryOf(s)' = entryOf(s)
      /\ \A s \in Nat : Held(s)' => Held(s)
      /\ \A q \in Producers : nextSequence(q)' = nextSequence(q) /\ pc'[q] = pc[q]
      /\ sent' = sent
  BY PopHeld DEF nextSequence
<1>2. \A q \in Producers : entryOf(nextSequence(q))' = entryOf(nextSequence(q))
  <2>1. entries' = entries
    BY DEF Pop, LoadWork, StoreGating, ClaimWork, WaitForCursor, IsAvailable, ReadEntry,
           SetMaxValue, shared
  <2>2. QED
    BY <1>1, <2>1 DEF entryOf
<1>3. QED
  BY <1>1, <1>2, <1>t DEF HeldSound, Fills, Pushed, Before

\* A consumer's record grows only when it reads an entry, by that entry.
LEMMA PopFrameRecords ==
  ASSUME ListInv, NEW c \in Consumers, Pop(c)
  PROVE  /\ \A d \in Consumers \ {c} : popevent_list'[d] = popevent_list[d] /\ pc'[d] = pc[d]
         /\ ~ReadEntry(c) => popevent_list' = popevent_list
         /\ ReadEntry(c) => \E s \in Nat :
              /\ s = data[c].nextSequence
              /\ Records(c)' = 1..(Len(popevent_list[c]) + 1)
              /\ Len(popevent_list'[c]) = Len(popevent_list[c]) + 1
              /\ popevent_list'[c][Len(popevent_list[c]) + 1] = entryOf(s)
              /\ \A i \in Records(c) : popevent_list'[c][i] = popevent_list[c][i]
         /\ Len(popevent_list[c]) \in Nat /\ Records(c) = 1..Len(popevent_list[c])
<1>t. Inv /\ TypeOK /\ GatingHonest
  BY DEF ListInv, FlagInv, Inv
<1>0. popevent_list \in [Consumers -> Seq(Messages \cup {NULL})]
  BY <1>t DEF TypeOK
<1>1. \A d \in Consumers \ {c} : popevent_list'[d] = popevent_list[d] /\ pc'[d] = pc[d]
  <2>1. \A d \in Consumers \ {c} : pc'[d] = pc[d]
    BY <1>t, PopFrame
  <2>2. \A d \in Consumers \ {c} : popevent_list'[d] = popevent_list[d]
    BY <1>0 DEF Pop, LoadWork, StoreGating, ClaimWork, WaitForCursor, IsAvailable, ReadEntry,
                SetMaxValue, harnessVars
  <2>3. QED
    BY <2>1, <2>2
<1>2. ~ReadEntry(c) => popevent_list' = popevent_list
  BY DEF Pop, LoadWork, StoreGating, ClaimWork, WaitForCursor, IsAvailable, SetMaxValue, harnessVars
<1>3. Len(popevent_list[c]) \in Nat /\ Records(c) = 1..Len(popevent_list[c])
  BY <1>0 DEF Records
<1>4. ASSUME ReadEntry(c)
      PROVE  \E s \in Nat :
              /\ s = data[c].nextSequence
              /\ Records(c)' = 1..(Len(popevent_list[c]) + 1)
              /\ Len(popevent_list'[c]) = Len(popevent_list[c]) + 1
              /\ popevent_list'[c][Len(popevent_list[c]) + 1] = entryOf(s)
              /\ \A i \in Records(c) : popevent_list'[c][i] = popevent_list[c][i]
  <2>1. data[c].nextSequence \in Nat
    BY <1>4, <1>t, SequenceType DEF ReadEntry, Claims, GatingHonest, ReportHonest, TypeOK
  <2>2. entryOf(data[c].nextSequence) \in Messages \cup {NULL}
    BY <1>t, <2>1, SlotType DEF TypeOK, entryOf
  <2>3. popevent_list'[c] = Append(popevent_list[c], entryOf(data[c].nextSequence))
    BY <1>0, <1>4 DEF ReadEntry, entryOf
  <2> DEFINE list == popevent_list[c]
             m == entryOf(data[c].nextSequence)
  <2>4. list \in Seq(Messages \cup {NULL}) /\ m \in Messages \cup {NULL}
    BY <1>0, <2>2
  <2>5. /\ DOMAIN Append(list, m) = 1..(Len(list) + 1)
        /\ Len(Append(list, m)) = Len(list) + 1
        /\ Append(list, m)[Len(list) + 1] = m
        /\ \A i \in 1..Len(list) : Append(list, m)[i] = list[i]
    <3> HIDE DEF list, m
    <3>1. QED
      BY <2>4
  <2>6. QED
    BY <1>3, <2>1, <2>3, <2>5 DEF Records
<1>5. QED
  BY <1>1, <1>2, <1>3, <1>4

\* A consumer's step keeps the records right: what it appends left the ring with it.
LEMMA PopRecords ==
  ASSUME ListInv, NEW c \in Consumers, Pop(c)
  PROVE  RecordsSound' /\ QuotaKept'
<1>t. /\ Inv /\ TypeOK /\ HeldSound /\ RecordsSound /\ QuotaKept
      /\ pc \in [Threads -> ProducerPCs \cup ConsumerPCs]
      /\ MAX_POP_MSG_COUNT \in Nat
  BY SizeAssumption DEF ListInv, FlagInv, Inv, TypeOK
<1>h. /\ sent' = sent /\ \A s : entryOf(s)' = entryOf(s)
      /\ \A d \in Consumers, s \in Nat : Claimable(d, s)' => Claimable(d, s)
      /\ \A s \in Nat : Held(s)' => Held(s)
  BY PopHeld
<1>f. \A d \in Consumers \ {c} : popevent_list'[d] = popevent_list[d] /\ pc'[d] = pc[d]
  BY PopFrameRecords
<1>1. CASE ~ReadEntry(c)
  <2>1. popevent_list' = popevent_list
    BY <1>1, PopFrameRecords
  <2>2. RecordsSound'
    BY <1>h, <1>t, <2>1 DEF RecordsSound, Records, record, Pushed, Before
  <2>3. pc'[c] \in {"set_max", "done"} <=> pc[c] \in {"set_max", "done"}
    BY <1>1, <1>t DEF Pop, LoadWork, StoreGating, ClaimWork, ClaimedPC, WaitForCursor, IsAvailable,
                      SetMaxValue, Goto
  <2>4. QED
    BY <1>f, <1>t, <2>1, <2>2, <2>3 DEF QuotaKept
<1>2. CASE ReadEntry(c)
  <2> DEFINE n == Len(popevent_list[c]) + 1
  <2>1. PICK s \in Nat : /\ s = data[c].nextSequence
                         /\ Records(c)' = 1..n /\ Len(popevent_list'[c]) = n
                         /\ popevent_list'[c][n] = entryOf(s)
                         /\ \A i \in Records(c) : popevent_list'[c][i] = popevent_list[c][i]
    BY <1>2, PopFrameRecords
  <2>2. Records(c) = 1..(n - 1) /\ n \in Nat /\ n >= 1
    BY PopFrameRecords
  <2> HIDE DEF n
  <2>3. Held(s) /\ Claimable(c, s) /\ ~Held(s)' /\ s <= workSequence
        /\ workSequence \in Int /\ workSequence' = workSequence
    BY <1>2, <1>t, <2>1, ReadHeld, SequenceType DEF ReadEntry, shared, TypeOK
  <2>4. \A d \in Consumers : \A i \in Records(d)' :
          \/ i \in Records(d) /\ record(d, i)' = record(d, i) /\ (d = c => i < n)
          \/ d = c /\ i = n /\ record(d, i)' = entryOf(s)
    BY <1>f, <2>1, <2>2 DEF Records, record
  <2>5. \A d \in Consumers : \A i \in Records(d)' : Pushed(record(d, i))'
    <3>1. \A d \in Consumers : \A i \in Records(d)' : Pushed(record(d, i)')
      BY <1>t, <2>3, <2>4 DEF RecordsSound, HeldSound
    <3>2. QED
      BY <1>h, <3>1 DEF Pushed
  <2>6. ASSUME NEW d \in Consumers, NEW e \in Consumers,
               NEW i \in Records(d)', NEW j \in Records(e)', record(d, i)' = record(e, j)'
        PROVE  d = e /\ i = j
    BY <1>t, <2>3, <2>4, <2>6 DEF RecordsSound
  <2>7. ASSUME NEW d \in Consumers, NEW i \in Records(d)', NEW j \in Records(d)', i < j
        PROVE  Before(record(d, i)', record(d, j)')
    <3>1. CASE d = c /\ j = n
      <4>1. i \in Records(d) /\ record(d, i)' = record(d, i) /\ record(d, j)' = entryOf(s)
        BY <2>2, <2>4, <2>7, <3>1
      <4>2. Held(s) /\ Claimable(d, s)
        BY <2>3, <3>1
      <4>3. QED
        BY <1>t, <4>1, <4>2 DEF RecordsSound
    <3>2. CASE ~(d = c /\ j = n)
      <4>1. i \in Records(d) /\ j \in Records(d) /\ record(d, i)' = record(d, i)
            /\ record(d, j)' = record(d, j)
        BY <2>1, <2>2, <2>4, <2>7, <3>2
      <4>2. QED
        BY <1>t, <2>7, <4>1 DEF RecordsSound
    <3>3. QED
      BY <3>1, <3>2
  <2>8. ASSUME NEW d \in Consumers, NEW i \in Records(d)', NEW t \in Nat, Held(t)'
        PROVE  /\ record(d, i)' # entryOf(t)
               /\ Claimable(d, t)' => Before(record(d, i)', entryOf(t))
    <3>1. Held(t) /\ t # s
      BY <1>h, <2>3, <2>8
    <3>2. CASE i \in Records(d) /\ record(d, i)' = record(d, i)
      BY <1>h, <1>t, <3>1, <3>2 DEF RecordsSound
    <3>3. CASE d = c /\ i = n /\ record(d, i)' = entryOf(s)
      <4>1. entryOf(s) # entryOf(t)
        <5>1. s < t => Before(entryOf(s), entryOf(t))
          BY <1>t, <2>3, <3>1 DEF HeldSound
        <5>2. t < s => Before(entryOf(t), entryOf(s))
          BY <1>t, <2>3, <3>1 DEF HeldSound
        <5>3. Pushed(entryOf(s))
          BY <1>t, <2>3 DEF HeldSound
        <5>4. entryOf(s)[2] \in Int
          BY <5>3 DEF Pushed, Messages
        <5>5. QED
          BY <3>1, <5>1, <5>2, <5>4 DEF Before
      <4>2. ASSUME Claimable(c, t)'  PROVE Before(entryOf(s), entryOf(t))
        <5>1. ~Claims(c)'
          BY <1>2, <1>t DEF ReadEntry, Goto, Claims
        <5>2. t > s
          BY <2>3, <4>2, <5>1 DEF Claimable
        <5>3. QED
          BY <1>t, <2>3, <3>1, <5>2 DEF HeldSound
      <4>3. QED
        BY <3>3, <4>1, <4>2
    <3>4. QED
      BY <2>4, <3>2, <3>3
  <2>9. RecordsSound'
    BY <1>h, <2>5, <2>6, <2>7, <2>8 DEF RecordsSound, Before
  <2>10. QuotaKept'
    <3>1. /\ pc[c] = "read_entry"
          /\ pc'[c] = IF n < MAX_POP_MSG_COUNT THEN "load_work" ELSE "set_max"
      BY <1>2, <1>t DEF ReadEntry, Goto, n
    <3>2. n - 1 < MAX_POP_MSG_COUNT
      BY <1>t, <3>1, PopFrameRecords DEF QuotaKept, n
    <3>3. IF pc'[c] \in {"set_max", "done"} THEN Len(popevent_list'[c]) = MAX_POP_MSG_COUNT
                                            ELSE Len(popevent_list'[c]) < MAX_POP_MSG_COUNT
      BY <1>t, <2>1, <2>2, <3>1, <3>2
    <3>4. QED
      BY <1>f, <1>t, <3>3 DEF QuotaKept
  <2>11. QED
    BY <2>9, <2>10
<1>3. QED
  BY <1>1, <1>2

\* A step of the system, or none, keeps the invariant.
LEMMA NextListInv == ListInv /\ [Next]_vars => ListInv'
<1> SUFFICES ASSUME ListInv, [Next]_vars  PROVE ListInv'
  OBVIOUS
<1>1. FlagInv(0)'
  BY NextFlagInv DEF ListInv
<1>2. CASE UNCHANGED vars
  <2>1. WindowSound' /\ HeldSound'
    BY <1>2 DEF vars, ListInv, WindowSound, HeldSound, Consumed, Claims, Held, Published, InFlight,
                Fills, nextSequence, Pending, Claimable, entryOf, Pushed, Before
  <2>2. RecordsSound' /\ QuotaKept'
    BY <1>2 DEF vars, ListInv, RecordsSound, QuotaKept, Claims, Held, Published, InFlight,
                Fills, nextSequence, Pending, Claimable, entryOf, Pushed, Before, Records, record
  <2>3. QED
    BY <1>1, <2>1, <2>2 DEF ListInv
<1>3. CASE \E p \in Producers : Push(p)
  BY <1>1, <1>3, PushWindow, PushHeldSound, PushRecords DEF ListInv
<1>4. CASE \E c \in Consumers : Pop(c)
  BY <1>1, <1>4, PopWindow, PopHeldSound, PopRecords DEF ListInv
<1>5. QED
  BY <1>2, <1>3, <1>4 DEF Next, Joined

\* Before the first call the ring holds nothing and nothing is recorded.
LEMMA InitListInv ==
  ASSUME InitSequences, FlagInv(0)
  PROVE  ListInv
<1> USE ThreadAssumption, SizeAssumption
<1>0. /\ \A p \in Producers : pc[p] = "load_cursor"
      /\ \A c \in Consumers : pc[c] = "load_work" /\ popevent_list[c] = << >>
      /\ cursor = -1 /\ workSequence = -1
  BY DEF InitSequences, INITIAL_CURSOR_VALUE
<1>1. WindowSound
  BY <1>0, ConsumerType DEF WindowSound, Consumed, Claims, Pending, Claimable
<1>2. \A s \in Nat : ~Held(s)
  BY <1>0 DEF Held, Published
<1>3. HeldSound
  BY <1>0, <1>2 DEF HeldSound
<1>4. \A c \in Consumers : Records(c) = {} /\ Len(popevent_list[c]) = 0
  BY <1>0 DEF Records
<1>5. RecordsSound /\ QuotaKept
  BY <1>0, <1>2, <1>4 DEF RecordsSound, QuotaKept
<1>6. QED
  BY <1>1, <1>3, <1>5 DEF ListInv

\* Where message m is recorded.
Places(m) ==
  UNION {{c} \X {i \in DOMAIN popevent_list[c] : popevent_list[c][i] = m} : c \in Consumers}

\* It counts how often m is recorded; its elements are a consumer and a place in its record.
LEMMA PlacesType ==
  /\ \A m : Times(m) = Cardinality(Places(m))
  /\ \A m, x : x \in Places(m) <=>
       \E c \in Consumers : \E i \in Records(c) : x = <<c, i>> /\ record(c, i) = m
<1>1. \A m : Times(m) = Cardinality(Places(m))
  BY DEF Times, Places
<1>2. \A m, x : x \in Places(m) <=>
        \E c \in Consumers : x \in {c} \X {i \in Records(c) : record(c, i) = m}
  BY DEF Places, Records, record
<1>3. \A c, S, x : x \in {c} \X S <=> \E i \in S : x = <<c, i>>
  OBVIOUS
<1>4. ASSUME NEW m, NEW x
      PROVE  x \in Places(m) <=>
               \E c \in Consumers : \E i \in Records(c) : x = <<c, i>> /\ record(c, i) = m
  <2>1. \A c : x \in {c} \X {i \in Records(c) : record(c, i) = m}
                <=> \E i \in {i \in Records(c) : record(c, i) = m} : x = <<c, i>>
    BY <1>3
  <2>2. \A c : (\E i \in {i \in Records(c) : record(c, i) = m} : x = <<c, i>>)
                <=> \E i \in Records(c) : x = <<c, i>> /\ record(c, i) = m
    OBVIOUS
  <2>3. QED
    BY <1>2, <2>1, <2>2
<1>5. QED
  BY <1>1, <1>4

\* A message is recorded at one place at most, and only when it has been pushed.
LEMMA TimesBounded ==
  ASSUME ListInv, NEW m \in Messages
  PROVE  /\ Times(m) <= (IF m[2] <= sent[m[1]] THEN 1 ELSE 0)
         /\ Places(m) # {} => Times(m) = 1
<1>t. RecordsSound
  BY DEF ListInv
<1>1. CASE Places(m) = {}
  <2>1. Times(m) = 0
    BY <1>1, PlacesType, FS_EmptySet
  <2>2. QED
    BY <1>1, <2>1
<1>2. CASE Places(m) # {}
  <2>1. PICK x : x \in Places(m)
    BY <1>2
  <2>2. \E c \in Consumers : \E i \in Records(c) : x = <<c, i>> /\ record(c, i) = m
    BY <2>1, PlacesType
  <2>3. \A y : y \in Places(m) => y = x
    BY <1>t, <2>2, PlacesType DEF RecordsSound
  <2>4. Places(m) = {x}
    BY <2>1, <2>3
  <2>5. Times(m) = 1
    BY <2>4, PlacesType, FS_Singleton
  <2>6. m[2] <= sent[m[1]]
    BY <1>t, <2>2 DEF RecordsSound, Pushed
  <2>7. QED
    BY <2>5, <2>6
<1>3. QED
  BY <1>1, <1>2

\* When every thread has returned, every message has been recorded: there are as
\* many records as messages, and no two records are of one message.
LEMMA AllRecorded ==
  ASSUME IsFiniteSet(Producers),
         Cardinality(Producers) * MAX_PUSH_MSG_COUNT = kConsumers * MAX_POP_MSG_COUNT,
         ListInv, \A th \in Threads : pc[th] = "done", NEW m \in Messages
  PROVE  Times(m) = 1
<1> USE ThreadAssumption, SizeAssumption
<1> DEFINE R == Consumers \X (1..MAX_POP_MSG_COUNT)
           f == [x \in R |-> record(x[1], x[2])]
<1>t. RecordsSound /\ QuotaKept /\ TypeOK
  BY DEF ListInv, FlagInv, Inv
<1>1. IsFiniteSet(R) /\ Cardinality(R) = kConsumers * MAX_POP_MSG_COUNT
  <2>1. IsFiniteSet(Consumers) /\ Cardinality(Consumers) = kConsumers
    BY FS_Interval DEF Consumers
  <2>2. IsFiniteSet(1..MAX_POP_MSG_COUNT) /\ Cardinality(1..MAX_POP_MSG_COUNT) = MAX_POP_MSG_COUNT
    BY FS_Interval
  <2>3. QED
    BY <2>1, <2>2, FS_Product
<1>2. IsFiniteSet(Messages) /\ Cardinality(Messages) = Cardinality(Producers) * MAX_PUSH_MSG_COUNT
  <2>1. /\ IsFiniteSet(1..MAX_PUSH_MSG_COUNT)
        /\ Cardinality(1..MAX_PUSH_MSG_COUNT) = MAX_PUSH_MSG_COUNT
    BY FS_Interval
  <2>2. QED
    BY <2>1, FS_Product DEF Messages
<1>3. \A c \in Consumers : Records(c) = 1..MAX_POP_MSG_COUNT
  <2>1. \A c \in Consumers : Len(popevent_list[c]) = MAX_POP_MSG_COUNT
    BY <1>t DEF QuotaKept
  <2>2. popevent_list \in [Consumers -> Seq(Messages \cup {NULL})]
    BY <1>t DEF TypeOK
  <2>3. QED
    BY <2>1, <2>2 DEF Records
<1>4. f \in Injection(R, Messages)
  <2>1. \A x \in R : record(x[1], x[2]) \in Messages
    BY <1>3, <1>t DEF RecordsSound, Pushed
  <2>2. \A x, y \in R : record(x[1], x[2]) = record(y[1], y[2]) => x = y
    BY <1>3, <1>t DEF RecordsSound
  <2>3. f \in [R -> Messages] /\ \A x, y \in R : f[x] = f[y] => x = y
    BY <2>1, <2>2
  <2> HIDE DEF f, R
  <2>4. QED
    BY <2>3 DEF Injection, IsInjective
<1>5. f \in Surjection(R, Messages)
  <2> HIDE DEF f, R
  <2>1. QED
    BY <1>1, <1>2, <1>4, FS_Injection
<1>6. \E x \in R : f[x] = m
  <2> HIDE DEF f, R
  <2>1. QED
    BY <1>5 DEF Surjection
<1>7. PICK x \in R : record(x[1], x[2]) = m
  BY <1>6
<1>8. x[1] \in Consumers /\ x[2] \in Records(x[1])
  BY <1>3, <1>7
<1>9. <<x[1], x[2]>> \in Places(m)
  BY <1>7, <1>8, PlacesType
<1>10. QED
  BY <1>9, TimesBounded

\* At any moment the records are of messages pushed, each recorded once, and those of
\* one producer in order.
RecordedOnce ==
  /\ \A m \in Messages : Times(m) <= (IF m[2] <= sent[m[1]] THEN 1 ELSE 0)
  /\ \A c \in Consumers, i \in 1..MAX_POP_MSG_COUNT :
       i <= Len(popevent_list[c]) => popevent_list[c][i] # NULL
  /\ ProducerOrder

\* The invariant says so.
LEMMA InvRecorded == ListInv => RecordedOnce
<1> SUFFICES ASSUME ListInv  PROVE RecordedOnce
  OBVIOUS
<1>t. RecordsSound /\ TypeOK /\ popevent_list \in [Consumers -> Seq(Messages \cup {NULL})]
  BY DEF ListInv, FlagInv, Inv, TypeOK
<1>1. \A c \in Consumers : Len(popevent_list[c]) \in Nat /\ Records(c) = 1..Len(popevent_list[c])
  BY <1>t DEF Records
<1>2. NULL \notin Messages
  BY ThreadAssumption DEF Messages
<1>3. ASSUME NEW c \in Consumers, NEW i \in 1..MAX_POP_MSG_COUNT, i <= Len(popevent_list[c])
      PROVE  popevent_list[c][i] # NULL
  <2>1. i \in Records(c)
    BY <1>1, <1>3, SizeAssumption
  <2>2. QED
    BY <1>2, <1>t, <2>1 DEF RecordsSound, Pushed, record
<1>4. ProducerOrder
  BY <1>1, <1>t DEF RecordsSound, ProducerOrder, Before, record
<1>5. QED
  BY <1>3, <1>4, TimesBounded DEF RecordedOnce

\* And it says what disruptor_pop_list_verify looks for, if the consumers pop as many
\* messages as the producers push.
LEMMA InvVerified ==
  ASSUME IsFiniteSet(Producers),
         Cardinality(Producers) * MAX_PUSH_MSG_COUNT = kConsumers * MAX_POP_MSG_COUNT,
         ListInv
  PROVE  PopListCorrect /\ ProducerOrder
BY InvRecorded, AllRecorded DEF RecordedOnce, PopListCorrect

\* Whatever the interleaving and the quotas, DisruptorRingQueue hands out no message
\* twice and none that was not pushed, and one consumer gets the messages of one
\* producer in their order.
THEOREM Recorded == Spec => []RecordedOnce
<1>1. Init => ListInv
  BY MarkedFlags, InitListInv DEF Init
<1>2. QED
  BY <1>1, InvRecorded, NextListInv, PTL DEF Spec

\* Whatever the interleaving, DisruptorRingQueue passes disruptor_pop_list_verify
\* when the quotas of push and pop are even: no message is recorded twice or made
\* up, none is missing when every thread has returned, and one consumer gets the
\* messages of one producer in their order.
THEOREM Lists ==
  ASSUME IsFiniteSet(Producers),
         Cardinality(Producers) * MAX_PUSH_MSG_COUNT = kConsumers * MAX_POP_MSG_COUNT
  PROVE  Spec => [](PopListCorrect /\ ProducerOrder)
<1>1. Init => ListInv
  BY MarkedFlags, InitListInv DEF Init
<1>2. ListInv => PopListCorrect /\ ProducerOrder
  BY InvVerified
<1>3. QED
  BY <1>1, <1>2, NextListInv, PTL DEF Spec

\* So does DisruptorRingQueueOld; SmallDisruptorRingQueue need not.
THEOREM ListsIfMarked ==
  ASSUME IsFiniteSet(Producers),
         Cardinality(Producers) * MAX_PUSH_MSG_COUNT = kConsumers * MAX_POP_MSG_COUNT
  PROVE  SpecOld => []PopListCorrectIfMarked
<1> DEFINE MarkedInv == kIsAllocOnHeap => ListInv
<1>1. InitOld => MarkedInv
  BY MarkedFlags, InitListInv DEF InitOld, init_queue
<1>2. MarkedInv /\ [NextOld]_varsOld => MarkedInv'
  <2>1. [NextOld]_varsOld => [Next]_vars /\ UNCHANGED kIsAllocOnHeap
    BY DEF NextOld, Next, varsOld, push, pop, Push, Pop, getMinimumSequence, publish, waitFor,
           getHighestPublishedSequence
  <2>2. QED
    BY <2>1, NextListInv
<1>3. MarkedInv => PopListCorrectIfMarked
  BY InvVerified DEF PopListCorrectIfMarked
<1> HIDE DEF MarkedInv
<1>4. QED
  BY <1>1, <1>2, <1>3, PTL DEF SpecOld
===============================================================================
