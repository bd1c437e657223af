-------------------------- MODULE DisruptorRingQueue --------------------------
(***************************************************************************)
(* include/RingQueue/DisruptorRingQueue.h: the C++ port of the disruptor's *)
(* multi-producer, work-sharing ring.  Producers claim sequences from      *)
(* cursor, gated by a cached minimum of what the consumers still need, and *)
(* publish each slot by a lap number in availableBuffer; consumers claim   *)
(* sequences from workSequence, before they exist, and wait for them.      *)
(* Threads are those of src/RingQueue/main.cpp (FUNC_DISRUPTOR_RINGQUEUE). *)
(* Sequences are 64 bits wide and do not wrap here.  Every access to a     *)
(* shared word is a step of its own.                                       *)
(***************************************************************************)
EXTENDS Integers, FiniteSets, Sequences

CONSTANTS
  Producers,           \* the PUSH_CNT threads of RingQueue_push_task
  kConsumers,          \* number of consumer threads, numbered by thread_arg->idx
  kCapacity,           \* number of entries, a power of two
  MAX_PUSH_MSG_COUNT, MAX_POP_MSG_COUNT,
  MAX_VALUE,           \* what setMaxValue stores: above every sequence used
  NULL

Consumers == 0..(kConsumers - 1)
Threads == Producers \cup Consumers

ASSUME ThreadAssumption ==
  /\ kConsumers \in Nat \ {0}
  /\ Producers \cap Consumers = {}
  /\ \A p \in Producers, i \in 1..MAX_PUSH_MSG_COUNT : NULL # <<p, i>>

ASSUME SizeAssumption ==
  /\ kCapacity \in Nat /\ kCapacity >= 2
  /\ MAX_PUSH_MSG_COUNT \in Nat \ {0}
  /\ MAX_POP_MSG_COUNT \in Nat \ {0}
  /\ MAX_VALUE \in Nat

kIndexMask == kCapacity - 1
INITIAL_CURSOR_VALUE == -1

VARIABLES
  cursor,               \* highest sequence claimed by a producer
  workSequence,         \* highest sequence claimed by a consumer
  gatingSequences,      \* per consumer: it needs nothing up to here any more
  gatingSequenceCache,  \* a past minimum of the above, shared by the producers
  entries,              \* the messages
  availableBuffer,      \* per slot: the lap that was last published, -1 if none
  pc,                   \* where each thread is in its push or pop
  current,              \* each thread's local "current"
  gate,                 \* producers: cachedGatingSequence or minSequence
  scan,                 \* producers: next consumer getMinimumSequence reads;
                        \* consumers: next sequence isAvailable looks at
  available,            \* consumers: waitFor's availableSequence
  data,                 \* consumers: PopThreadStackData
  sent,                 \* messages each producer has pushed
  popevent_list         \* messages each consumer has recorded

shared == <<cursor, workSequence, gatingSequences, gatingSequenceCache,
            entries, availableBuffer>>
popLocals == <<available, data>>
harnessVars == <<sent, popevent_list>>
vars == <<cursor, workSequence, gatingSequences, gatingSequenceCache, entries,
          availableBuffer, pc, current, gate, scan, available, data, sent,
          popevent_list>>

Messages == Producers \X (1..MAX_PUSH_MSG_COUNT)

\* minSequence = (seq < minSequence) ? seq : minSequence
Lesser(seq, minSequence) == IF seq < minSequence THEN seq ELSE minSequence

\* Mutant: a flag instead of a lap number.
LapFlag(seq) == 0

\* sequence & kIndexMask, sequence >> kIndexShift
Slot(seq) == seq % kCapacity
Lap(seq) == seq \div kCapacity

\* init and start, then the first lines of the two tasks
InitSequences ==
  /\ cursor = INITIAL_CURSOR_VALUE
  /\ workSequence = INITIAL_CURSOR_VALUE
  /\ gatingSequences = [c \in Consumers |-> INITIAL_CURSOR_VALUE]
  /\ gatingSequenceCache = INITIAL_CURSOR_VALUE
  /\ pc = [th \in Threads |-> IF th \in Producers THEN "load_cursor" ELSE "load_work"]
  /\ current = [th \in Threads |-> INITIAL_CURSOR_VALUE]
  /\ gate = [p \in Producers |-> INITIAL_CURSOR_VALUE]
  /\ scan = [th \in Threads |-> 0]
  /\ available = [c \in Consumers |-> INITIAL_CURSOR_VALUE]
  /\ data = [c \in Consumers |-> [nextSequence |-> INITIAL_CURSOR_VALUE,
                                  cachedAvailableSequence |-> INITIAL_CURSOR_VALUE]]
  /\ sent = [p \in Producers |-> 0]
  /\ popevent_list = [c \in Consumers |-> << >>]

\* init_queue: no entry, nothing published
Init ==
  /\ InitSequences
  /\ entries = [s \in 0..kIndexMask |-> NULL]
  /\ availableBuffer = [s \in 0..kIndexMask |-> -1]

Goto(th, where) == pc' = [pc EXCEPT ![th] = where]

-------------------------------------------------------------------------------
(* push                                                                    *)

\* Mutant: the wrap point of the sequence before the one claimed.
wrapPointLate(p) == current[p] - kCapacity

wrapPoint(p) == current[p] - kIndexMask
nextSequence(p) == current[p] + 1

LoadCursor(p) ==
  /\ pc[p] = "load_cursor"
  /\ current' = [current EXCEPT ![p] = cursor]
  /\ Goto(p, "load_cache")
  /\ UNCHANGED <<shared, gate, scan, popLocals, harnessVars>>

\* wrapPoint > cachedGatingSequence || cachedGatingSequence > current sends the
\* producer to getMinimumSequence, which starts from current
LoadCache(p) ==
  /\ pc[p] = "load_cache"
  /\ IF wrapPoint(p) > gatingSequenceCache \/ gatingSequenceCache > current[p]
       THEN gate' = [gate EXCEPT ![p] = current[p]] /\ Goto(p, "load_gating")
       ELSE Goto(p, "cas") /\ UNCHANGED gate
  /\ UNCHANGED <<shared, current, scan, popLocals, harnessVars>>

\* Mutant: the loop stops before the last consumer.
LoadGatingShort(p) ==
  /\ pc[p] = "load_gating"
  /\ gate' = [gate EXCEPT ![p] = Lesser(gatingSequences[scan[p]], gate[p])]
  /\ Goto(p, "load_work")
  /\ UNCHANGED <<shared, current, scan, popLocals, harnessVars>>

\* One turn of getMinimumSequence's loop over the consumers.
LoadGating(p) ==
  /\ pc[p] = "load_gating"
  /\ gate' = [gate EXCEPT ![p] = Lesser(gatingSequences[scan[p]], gate[p])]
  /\ IF scan[p] + 1 < kConsumers
       THEN scan' = [scan EXCEPT ![p] = scan[p] + 1] /\ UNCHANGED pc
       ELSE scan' = [scan EXCEPT ![p] = 0] /\ Goto(p, "load_work")
  /\ UNCHANGED <<shared, current, popLocals, harnessVars>>

\* getMinimumSequence ends with workSequence; return -1 when still full, and
\* the caller tries again
LoadWorkForGate(p) ==
  /\ pc[p] = "load_work"
  /\ gate' = [gate EXCEPT ![p] = Lesser(workSequence, gate[p])]
  /\ Goto(p, IF wrapPoint(p) > gate'[p] THEN "load_cursor" ELSE "store_cache")
  /\ UNCHANGED <<shared, current, scan, popLocals, harnessVars>>

StoreCache(p) ==
  /\ pc[p] = "store_cache"
  /\ gatingSequenceCache' = gate[p]
  /\ Goto(p, "load_cursor")
  /\ UNCHANGED <<cursor, workSequence, gatingSequences, entries, availableBuffer,
                 current, gate, scan, popLocals, harnessVars>>

ClaimCursor(p) ==
  /\ pc[p] = "cas"
  /\ IF cursor = current[p]
       THEN cursor' = nextSequence(p) /\ Goto(p, "write_entry")
       ELSE Goto(p, "load_cursor") /\ UNCHANGED cursor
  /\ UNCHANGED <<workSequence, gatingSequences, gatingSequenceCache, entries,
                 availableBuffer, current, gate, scan, popLocals, harnessVars>>

WriteEntry(p) ==
  /\ pc[p] = "write_entry"
  /\ entries' = [entries EXCEPT ![Slot(nextSequence(p))] = <<p, sent[p] + 1>>]
  /\ Goto(p, "publish")
  /\ UNCHANGED <<cursor, workSequence, gatingSequences, gatingSequenceCache,
                 availableBuffer, current, gate, scan, popLocals, harnessVars>>

\* publish: setAvailable, return 0, and the caller goes on to its next message
Publish(p) ==
  /\ pc[p] = "publish"
  /\ availableBuffer' =
       [availableBuffer EXCEPT ![Slot(nextSequence(p))] = Lap(nextSequence(p))]
  /\ sent' = [sent EXCEPT ![p] = sent[p] + 1]
  /\ Goto(p, IF sent[p] + 1 < MAX_PUSH_MSG_COUNT THEN "load_cursor" ELSE "done")
  /\ UNCHANGED <<cursor, workSequence, gatingSequences, gatingSequenceCache,
                 entries, current, gate, scan, popLocals, popevent_list>>

-------------------------------------------------------------------------------
(* pop.  A call that returns -1 keeps its claim: processedSequence is false *)
(* and the next call goes straight to the comparison with the cached        *)
(* available sequence.                                                      *)

\* current = workSequence.get(); data.nextSequence = current + 1
LoadWork(c) ==
  /\ pc[c] = "load_work"
  /\ current' = [current EXCEPT ![c] = workSequence]
  /\ data' = [data EXCEPT ![c].nextSequence = workSequence + 1]
  /\ Goto(c, "store_gating")
  /\ UNCHANGED <<shared, gate, scan, available, harnessVars>>

\* Mutant: reports the sequence it is about to claim as already consumed.
StoreGatingNext(c) ==
  /\ pc[c] = "store_gating"
  /\ gatingSequences' = [gatingSequences EXCEPT ![c] = data[c].nextSequence]
  /\ Goto(c, "cas")
  /\ UNCHANGED <<cursor, workSequence, gatingSequenceCache, entries,
                 availableBuffer, current, gate, scan, popLocals, harnessVars>>

\* data.tailSequence->set(current)
StoreGating(c) ==
  /\ pc[c] = "store_gating"
  /\ gatingSequences' = [gatingSequences EXCEPT ![c] = current[c]]
  /\ Goto(c, "cas")
  /\ UNCHANGED <<cursor, workSequence, gatingSequenceCache, entries,
                 availableBuffer, current, gate, scan, popLocals, harnessVars>>

\* Where a pop with a claim goes: to its entry, or to waitFor.
ClaimedPC(d) ==
  IF d.cachedAvailableSequence >= d.nextSequence THEN "read_entry" ELSE "wait"

ClaimWork(c) ==
  /\ pc[c] = "cas"
  /\ IF workSequence = current[c]
       THEN workSequence' = data[c].nextSequence /\ Goto(c, ClaimedPC(data[c]))
       ELSE Goto(c, "load_work") /\ UNCHANGED workSequence
  /\ UNCHANGED <<cursor, gatingSequences, gatingSequenceCache, entries,
                 availableBuffer, current, gate, scan, popLocals, harnessVars>>

\* waitFor: while ((availableSequence = cursor.get()) < sequence)
WaitForCursor(c) ==
  /\ pc[c] = "wait" /\ cursor >= data[c].nextSequence
  /\ available' = [available EXCEPT ![c] = cursor]
  /\ scan' = [scan EXCEPT ![c] = data[c].nextSequence]
  /\ Goto(c, "is_available")
  /\ UNCHANGED <<shared, current, gate, data, harnessVars>>

\* One turn of getHighestPublishedSequence's loop, and waitFor's return.
IsAvailable(c) ==
  /\ pc[c] = "is_available"
  /\ LET published == availableBuffer[Slot(scan[c])] = Lap(scan[c])
         highest == IF published THEN available[c] ELSE scan[c] - 1
         d == [data[c] EXCEPT !.cachedAvailableSequence = highest]
     IN  IF published /\ scan[c] < available[c]
           THEN /\ scan' = [scan EXCEPT ![c] = scan[c] + 1]
                /\ UNCHANGED <<pc, data, available>>
           ELSE /\ data' = [data EXCEPT ![c] = d]
                /\ scan' = [scan EXCEPT ![c] = 0]
                /\ available' = [available EXCEPT ![c] = INITIAL_CURSOR_VALUE]
                /\ Goto(c, ClaimedPC(d))
  /\ UNCHANGED <<shared, current, gate, harnessVars>>

\* entry = entries[nextSequence & kIndexMask]; return 0; the caller records it
ReadEntry(c) ==
  /\ pc[c] = "read_entry"
  /\ popevent_list' = [popevent_list EXCEPT
       ![c] = Append(popevent_list[c], entries[Slot(data[c].nextSequence)])]
  /\ Goto(c, IF Len(popevent_list[c]) + 1 < MAX_POP_MSG_COUNT
               THEN "load_work" ELSE "set_max")
  /\ UNCHANGED <<shared, current, gate, scan, popLocals, sent>>

\* pTailSequence->setMaxValue(), when RingQueue_pop_task has its quota
SetMaxValue(c) ==
  /\ pc[c] = "set_max"
  /\ gatingSequences' = [gatingSequences EXCEPT ![c] = MAX_VALUE]
  /\ Goto(c, "done")
  /\ UNCHANGED <<cursor, workSequence, gatingSequenceCache, entries,
                 availableBuffer, current, gate, scan, popLocals, harnessVars>>

Push(p) == \/ LoadCursor(p) \/ LoadCache(p) \/ LoadGating(p) \/ LoadWorkForGate(p)
           \/ StoreCache(p) \/ ClaimCursor(p) \/ WriteEntry(p) \/ Publish(p)

Pop(c) == \/ LoadWork(c) \/ StoreGating(c) \/ ClaimWork(c) \/ WaitForCursor(c)
          \/ IsAvailable(c) \/ ReadEntry(c) \/ SetMaxValue(c)

\* pthread_join returns for every thread.
Joined == (\A th \in Threads : pc[th] = "done") /\ UNCHANGED vars

Next == \/ \E p \in Producers : Push(p)
        \/ \E c \in Consumers : Pop(c)
        \/ Joined

Spec == Init /\ [][Next]_vars

-------------------------------------------------------------------------------
(* Properties.                                                             *)

ProducerPCs == {"load_cursor", "load_cache", "load_gating", "load_work",
                "store_cache", "cas", "write_entry", "publish", "done"}
ConsumerPCs == {"load_work", "store_gating", "cas", "wait", "is_available",
                "read_entry", "set_max", "done"}
Sequence == {n \in Int : n >= INITIAL_CURSOR_VALUE}

\* Every variable stays within its type; a producer in its loop has a message
\* left, and reads the gating sequences within their bounds.
TypeOK ==
  /\ cursor \in Sequence /\ workSequence \in Sequence
  /\ gatingSequences \in [Consumers -> Sequence]
  /\ gatingSequenceCache \in Sequence
  /\ entries \in [0..kIndexMask -> Messages \cup {NULL}]
  /\ availableBuffer \in [0..kIndexMask -> Int]
  /\ pc \in [Threads -> ProducerPCs \cup ConsumerPCs]
  /\ \A p \in Producers : pc[p] \in ProducerPCs
  /\ \A c \in Consumers : pc[c] \in ConsumerPCs
  /\ current \in [Threads -> Sequence]
  /\ gate \in [Producers -> Sequence]
  /\ scan \in [Threads -> Nat]
  /\ \A p \in Producers : IF pc[p] = "load_gating" THEN scan[p] \in Consumers ELSE scan[p] = 0
  /\ available \in [Consumers -> Sequence]
  /\ data \in [Consumers -> [nextSequence : Sequence, cachedAvailableSequence : Sequence]]
  /\ sent \in [Producers -> 0..MAX_PUSH_MSG_COUNT]
  /\ \A p \in Producers : pc[p] # "done" => sent[p] < MAX_PUSH_MSG_COUNT
  /\ popevent_list \in [Consumers -> Seq(Messages \cup {NULL})]

\* Consumer c has claimed data[c].nextSequence and not read its entry yet.
Claims(c) == pc[c] \in {"wait", "is_available", "read_entry"}

\* A producer has claimed nextSequence(p) and not published it yet.
Fills(p) == pc[p] \in {"write_entry", "publish"}

\* Every entry of sequence up to bound has been read.
Consumed(bound) ==
  /\ bound <= workSequence
  /\ \A c \in Consumers : Claims(c) => data[c].nextSequence > bound

\* What a consumer reports in its gating sequence never runs ahead of the
\* sequence it is about to claim, holds, or claimed last.
ReportHonest(c) ==
  /\ pc[c] = "load_work" => gatingSequences[c] <= workSequence
  /\ pc[c] \in {"store_gating", "cas"} =>
       /\ gatingSequences[c] <= current[c] /\ current[c] <= workSequence
       /\ data[c].nextSequence = current[c] + 1
  /\ pc[c] = "cas" => gatingSequences[c] = current[c]
  /\ Claims(c) => /\ data[c].nextSequence = gatingSequences[c] + 1
                  /\ data[c].nextSequence <= workSequence
GatingHonest == \A c \in Consumers : ReportHonest(c)

\* The minimum a producer is collecting is no more than what the consumers it has
\* looked at reported, unless they are finished with popping.
MinimumHonest ==
  \A p \in Producers : \A c \in Consumers :
    (pc[p] = "load_work" \/ (pc[p] = "load_gating" /\ c < scan[p]))
      => pc[c] \in {"set_max", "done"} \/ gate[p] <= gatingSequences[c]

\* The shared cache of the gating minimum, and a minimum about to go into it,
\* never run ahead of a consumer, although the minimum is read one word at a
\* time while consumers move and although producers store it out of order.
GateSound ==
  /\ Consumed(gatingSequenceCache)
  /\ \A p \in Producers : pc[p] = "store_cache" => Consumed(gate[p])

\* A producer that has passed the gate, now or before its claim, was let through
\* by what has been consumed.
PassedGate ==
  \A p \in Producers : pc[p] \in {"cas", "write_entry"} => Consumed(wrapPoint(p))

\* No sequence is claimed by two consumers, nor by two producers.
ClaimsUnique ==
  /\ \A a, b \in Consumers : (a # b /\ Claims(a) /\ Claims(b))
        => data[a].nextSequence # data[b].nextSequence
  /\ \A p \in Producers : Fills(p) => nextSequence(p) <= cursor
  /\ \A a, b \in Producers : (a # b /\ Fills(a) /\ Fills(b)) => current[a] # current[b]

\* The inductive invariant behind NoOverwrite: the gate is sound because consumers
\* report before they claim, in two steps, what a producer may be reading between.
Inv == /\ TypeOK /\ GatingHonest /\ MinimumHonest /\ GateSound /\ PassedGate
       /\ ClaimsUnique

\* A producer overwrites an entry only after the message of the previous lap
\* has been copied out.
NoOverwrite ==
  \A p \in Producers : pc[p] = "write_entry" => Consumed(nextSequence(p) - kCapacity)

\* How often message m is in the consumers' records.
Times(m) ==
  LET recorded(c) == {i \in DOMAIN popevent_list[c] : popevent_list[c][i] = m}
  IN  Cardinality(UNION {{c} \X recorded(c) : c \in Consumers})

\* disruptor_pop_list_verify: no message is recorded twice, none is made up, and
\* when every thread has returned each has been recorded.
PopListCorrect ==
  /\ \A m \in Messages : Times(m) <= (IF m[2] <= sent[m[1]] THEN 1 ELSE 0)
  /\ \A c \in Consumers, i \in 1..MAX_POP_MSG_COUNT :
        i <= Len(popevent_list[c]) => popevent_list[c][i] # NULL
  /\ (\A th \in Threads : pc[th] = "done") => \A m \in Messages : Times(m) = 1

\* What one consumer gets of one producer, it gets in the order of the pushes.
ProducerOrder ==
  \A c \in Consumers : \A i, j \in 1..Len(popevent_list[c]) :
     (i < j /\ popevent_list[c][i][1] = popevent_list[c][j][1])
        => popevent_list[c][i][2] < popevent_list[c][j][2]

\* Every thread finishes its quota: producers are not gated for ever by a
\* consumer that is waiting or has returned, and every claim is filled.
AllDelivered == <>(\A th \in Threads : pc[th] = "done")
===============================================================================
