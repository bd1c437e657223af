# RingQueue in TLA+

A verification development for [RingQueue](../src/README.md): several bounded
queues of messages, passed between producer and consumer threads through a ring
of slots, under a spin lock, under a mutex, or without any lock.  File names
below are relative to `src/`; `RingQueue.h` and the other headers are in
`include/RingQueue/`.

## 1. Inventory

| Component | State | Operations | What is hard | What makes it correct |
|---|---|---|---|---|
| `RingQueueBase`, locked pairs (`RingQueue.h`) | `head`, `tail` (free-running 32-bit), `queue[]`, `spin_mutex.locked`, `queue_mutex` | `spin_`, `spin1_`, `spin2_`, `spin3_`, `spin8_`, `spin9_`, `mutex_` push/pop | seven ways to take one lock word; `head` is stored before the slot; indices wrap | exclusion; FIFO; honest refusals; never refused to both sides |
| `RingQueueBase::push/pop`, `push2/pop2` | `head`, `tail`, `queue[]` | CAS on one index, `sizes` | slot accessed after the claim, stale reads | claims are unique, refusals have a cause (the code itself says results are wrong, `test.h:109`) |
| `q3.h` | `p.head`, `p.tail`, `c.head`, `c.tail`, `msgs[]` | `push`, `pop` | claims out of order with publication; stale `head`; waiting for a predecessor | FIFO of `mask` messages, no two threads at a slot, progress |
| `DisruptorRingQueue` | `cursor`, `workSequence`, `gatingSequences[]`, `gatingSequenceCache`, `entries[]`, `availableBuffer[]` | `push`, `pop`, `waitFor`, `publish`, `getMinimumSequence` | non-atomic minimum, shared cache stored out of order, gaps among published slots, claims made before they can be filled | no overwrite, no early read, every message once, nobody gated by a thread that has left |
| `DisruptorRingQueueEx` | the same, slots spread over cache lines | the same | the permutation of flags and of entries | it takes the steps of `DisruptorRingQueue` |
| `DisruptorRingQueueOld`, `SmallDisruptorRingQueue` | the same, and `core.info.head`, `tail` with locals of `SequenceType` | disruptor push/pop, `spin_`, `mutex_`, `q3_` pairs | flags inside the object that nobody clears; differences of widened unsigned indices | as above, and the ring is never overrun |
| `Sequence` | one padded value, two words in a 32-bit build | `get`, `set`, `getOrder`, `setOrder`, `setMaxValue`, `compareAndSwap` | torn reads; a store that is an exchange loop | a read is one written value, no claim lost |
| `SingleRingQueue` | `headSequence`, `tailSequence`, `entries[]` | `push`, `pop` (one thread each) | publication order | FIFO |
| `SerialRingQueue` | as above, no concurrency | `push`, `pop` | boundary arithmetic | FIFO |
| `SpinMutex` | `core.Status` | `lock`, `tryLock`, `unlock` | a loser overwrites the word; the value `tryLock` returns | exclusion, word set iff owned, truthful answer |
| Back-off loops (all of the above, `sleep.c`) | loop, yield and spin counters | `jimi_wsleep`, `jimi_yield`, pauses | which threads a call lets run differs per platform; counters that wrap or are not reset | the thread waited for gets the processor within a bounded number of passes |
| `mq.c` | `head`, `tail`, `q[]` | `queue_push`, `queue_pop` | slot claimed, not written; plain `head++` | each message once |
| `q.h` | `head`, `tail`, `msgs[]`, `list` | `push`, `pop` | overflow list by CAS, re-pushed by consumers | each message in one place, in order while nothing overflows |
| Harness (`src/RingQueue/main.cpp`) | `msgs`, `popmsg_list`, `dis_popevent_list`, totals, `quit` | tests, tasks, verifiers, `main` | shared lists and totals, tasks that fail to start, quotas that do not divide | each report is about its own test, no task outlives its test |
| Windows shim (`msvc/pthread.c`) | thread handles, a critical section, affinity masks | `pthread_create`, `join`, `detach`, mutex, `setaffinity_np` | `TerminateThread`; masks read, then set | join means gone, the mutex excludes |
| mktime experiments (`main.cpp`) | a `struct tm` | `linux_mktime`, `git_mktime`, `fast_mktime_v1` to `_v3` | leap days, carries over years, table ends | the days of the calendar |
| Atomics of `port.h`, console, timers, dumps | | | | taken as given |

Interaction is through shared memory only.  The harness starts `PUSH_CNT`
producers and `POP_CNT` consumers on one queue and joins them; every producer
retries a refused push, every consumer a refused pop, until its quota is met.

The behaviours a test hardly reaches are listed, at their lines, under
`hazards` in `PROJECT.json`.

## 2. Modules

```
BoundedQueue            what every queue promises: FIFO of Capacity messages
   ^ refined by SpinRingQueue, DoubanQueue, SingleRingQueue, OldLockedRing, MqQueue

RingIndex               index arithmetic, extended by SpinRingQueue, DoubanQueue,
                        LockFreeRingQueue, SingleRingQueue, SerialRingQueue,
                        OldLockedRing, MqQueue, ListQueue

DisruptorRingQueue      <- extended and refined by DisruptorRingQueueEx,
                           extended by DisruptorRingQueueOld
SequenceBase            the words under the disruptor's sequences
SpinMutex, WaitLoops    the lock, and every back-off loop
Harness, PthreadShim    the program around the queues, and its threads on Windows
Calendar                the mktime experiments

MCOtherRings, MCPrimitives, MCProgram     several of these side by side, one run each
MC...                   model values for the other runs
RingIndexProofs, SpinRingQueueProofs, LockFreeRingQueueProofs, DoubanQueueProofs,
SingleRingQueueProofs, DisruptorRingQueueProofs, DisruptorRingQueueExProofs,
ProgramProofs                                             theorems
```

* **`RingIndex`** – unsigned index arithmetic: `Inc` (`+ 1`), `Sub` (`-`) and
  `Slot` (`& kMask`) over `IndexModulus` values, `2^32` in the code.  The two
  assumptions are what `JIMI_ROUND_TO_POW2` and the 32-bit type give: at least
  two slots, and an index range that is a whole number, at least two, of laps.
* **`BoundedQueue`** – `Put(p)` and `Take(c)` on a sequence `contents`.
* **`SpinRingQueue`** – the seven locked pairs.  `funcType` is chosen in `Init`
  and fixes which pair all threads use, as `thread_arg->funcType` does.
  Each load or store of a shared word is one action; `pc` names the next one:

  | action | code |
  |---|---|
  | `LockXchg`, `LockCAS` | `jimi_lock_test_and_set32`, then `jimi_val_compare_and_swap32` (spin: CAS only) |
  | `LockCASFails`, `WaitUnlocked` | spin3's inner `while (spin_mutex.locked != 0U)` |
  | `TestUnlocked`, `SetLocked` | spin8, spin9: test, then an exchange whose result is dropped |
  | `MutexLock` | `pthread_mutex_lock` |
  | `LoadHead`, `LoadTail` | the two loads and the early return |
  | `StoreHead`/`WriteSlot`, `StoreTail`/`ReadSlot` | the rest of a push / pop, in the order of the code |
  | `UnlockFail`, `ReturnPush`, `ReturnPop` | release, return, and the task's loop up to its next call |

  `spin2_push_` has exactly the shape of `spin1_push`.
  A spin that fails and repeats the same instruction changes nothing and is a
  stuttering step; back-off, yields and sleeps change no shared state.
* **`DoubanQueue`** – `q3.h`.  `StartIndex` lets a run begin with indices about
  to wrap, in the state an idle queue is in after earlier traffic: equal indices
  and stale pointers (`STALE`) in the slots.
* **`DisruptorRingQueue`** – `push` with its cached gate, one action per word
  read by `getMinimumSequence`, `pop` with the claim that survives a failed
  call, `waitFor` and the scan of `availableBuffer`, and the consumer's
  `setMaxValue` when it stops.
* **`LockFreeRingQueue`** – `push/pop`, `push2/pop2`: `LoadHead`, `PushLoadTail` or
  `PopLoadTail` (with the early return), `PushCAS`/`PopCAS`, then
  `WriteSlot`/`ReadSlot`, and observers in `sizes()`.  `index_locals =
  "sequence_type"` gives the 64-bit locals of `q3_push/q3_pop` in
  `DisruptorRingQueueOld.h`, which differ in how a stale difference looks: with two
  consumers that variant lets `tail` overtake `head`, so it is run with one.  `raced`
  remembers that a thread claimed a slot another was about to access.
  `LapAssumption`: a test starts on fresh indices and ends a ring's length short of
  their wrap; at the wrap a pop with a head read before it overtakes `head`.
* **`SingleRingQueue`**, **`SerialRingQueue`** – the rings for one producer and one
  consumer and for one thread.  The first takes every access to a shared word as
  a step; a call of the second is one step, driven by `SerialRingQueue_Test`'s
  rounds (`NextCall`).
* **`DisruptorRingQueueEx`** – extends `DisruptorRingQueue`, whose actions it uses for
  all that touches no slot, and gives the four steps that do anew; `RefinesRing`
  undoes the permutation.
* **`DisruptorRingQueueOld`** – the disruptor steps over the two ways the old header
  stores flags (on the heap and set to -1, or inside the object as memory was).
  **`OldLockedRing`** – its `spin_` and `mutex_` pairs, whose locals are signed and
  32 or 64 bits wide, across the sign change (2^31) and the wrap (2^32): `Local` is
  the conversion, `Exceeds` the comparison with the unsigned `kMask`.
* **`SequenceBase`** – one 64-bit sequence word by word, in four builds (64 or 32-bit,
  with or without `USE_SEQUENCE_SPIN_LOCK`): claimers use `get` and
  `compareAndSwap`, owners `set`/`setOrder`, readers `get`/`getOrder`.
* **`WaitLoops`** – every back-off loop as a record of when it pauses, yields and
  sleeps, `jimi_wsleep` and `jimi_yield` per platform, and whom a call lets run
  (`Reaches`, external).  One waiter goes round; `gap` counts the passes since the
  other thread was last let run.
* **`MqQueue`** – `mq.c`, every access to a shared word a step, `head++` as a load and
  a store.  `lapped` remembers that a pop emptied a slot that `head` had left.
* **`ListQueue`** – `q.h`, ring and overflow list with their `next` pointers.
  `overflowed`, `lapped` and `reused` remember that a push found its slot taken, that an
  index was claimed a whole lap ahead of a thread, and that the list's CAS
  succeeded though a `next` pointer had changed (ABA).
* **`Harness`** – `main` runs the tests of `Program` one after another; `BeginTest`,
  `StartTask`/`AllStarted`, `Join`, `EndTest`, and per task `TaskPush`/`TaskPop`, its total
  and `quit`.  A queue is the FIFO that the queue modules refine.  The tasks'
  retry loops are in the queue modules, their back-off in `WaitLoops`.
  At this commit the branch `TEST_FUNC_TYPE != 0` of `main` assigns an undeclared
  `bConti`; it is read as `bContinue`.
* **`PthreadShim`** – `pthread_create`, `join`, `detach`, the mutex and
  `pthread_setaffinity_np`, over Windows calls that may fail (external).
* **`Calendar`** – a calendar walked day by day, and the five functions as operators
  judged on every day.  A timestamp is its minutes, and its seconds beyond them.
* **`SpinMutex`** – `lock`, `tryLock`, `unlock`, with a caller that unlocks what
  it really took, so that the word and the returned value can be judged apart.
* **`MCOtherRings`**, **`MCPrimitives`**, **`MCProgram`** – each holds several instances
  of the modules above and explores all of them in one run.  `system` (`part` in
  `MCPrimitives`) says which one a behaviour is about; the instances share nothing, each keeps its own `Init`,
  `Next` and fairness, and a property of the module says for which systems it
  holds (`system = "MqTwo" => MqTwo!PoppedOnce /\ ...`).  In `MCProgram` the
  configurations are data: `Harnesses` and `Shims` are sets of records, one field for
  each constant of `Harness` and of `PthreadShim`; `config` is the one at hand and
  `Tests(c)`, `Shim(s)` are the instances it selects.  So the run checks three and two
  of them, and the theorems speak of all.  In the same way `Uses` of `MCPrimitives` are
  the uses of a sequence, `use` the one at hand and `Sequence(u)` its instance; the run
  checks the six of `CheckedUses`: claimed by two threads (`Claims`: `cursor`,
  `workSequence`), written by one owner as `Sequence.h` offers it (`Gating`, and fairly
  scheduled `GatingLive`) and as the rings call it (`GatingPlain`: `set` and `get`), and by
  two (`Cache`, and fairly scheduled `CacheLive`).
* The other **`MC...`** – symmetry sets, sets of pairs and initial states for a run.
* **`...Proofs`** – theorems, see 5.

Definitions marked *Mutant* are deliberate mistakes: each stands next to the
definition it spoils, is used by no specification, and shows that some property
fails when it replaces that definition (`mutants` in `PROJECT.json`).

Memory is sequentially consistent in all modules.  The lock releases are plain
stores after compiler barriers; on x86, which the code targets, stores are not
reordered with older loads and stores, so a release becomes visible after all of
the section it closes, and every acquisition is a locked instruction.  In `q3.h`
and the disruptor each publication is likewise a store after the data it
publishes.  On weaker hardware none of this would follow.

## 3. Runs

The runs of a queue check deadlock, with `Joined` the only step once every thread is
done.  Where a modelled thing simply ends or may wait for good, it stutters
(`Ends`, `ListEnds`) or deadlock is not checked: the walk of `Calendar`, the calls of
`SequenceBase`, the wait of `WaitLoops` when its condition comes true, `main` at its
end, workers that `MaxRounds` has stopped, and `q.h`, whose pops may wait at an index
that stays empty.

| Run | Instance | Shows |
|---|---|---|
| `SpinRingQueue_wrap` | 2+2 threads, 2 slots, 4 index values, 3 messages each, five locked pairs | the inductive invariant of section 5 (what lies between the indices is messages), exclusion, occupancy, spin2's release, refinement of `BoundedQueue` |
| `SpinRingQueue_live` | 2+1 threads on the five locked pairs, 1+1 on spin8 and spin9, indices that do not wrap, weak fairness | `RefusalsSound`: honest refusals, no state refused to both sides; `AllDeliveredUnderLock`: with fair lock races every message is delivered |
| `SpinRingQueue_wedge` | 1+1 threads, 4 index values | **violation**: see 4 |
| `DoubanQueue` | 2+2 threads, 4 slots, 8 index values from 6, 3 messages each, symmetry | the inductive invariant of section 5 (order of the indices, claims counted and apart, slots filled), no slot race, honest refusals, refinement |
| `DisruptorRingQueue` | 2+2 threads, 2 slots, 2 messages each, producer symmetry; flags marked, or left as memory was | the inductive invariant of section 5 (honest reports, sound gates, unique claims), no overwrite; with marked flags correct record lists and order per producer; without, later laps are sound |
| `DisruptorRingQueueEx` | 1+2 threads, 4 slots, 6 messages, lines of 2 flags and 4 entries, weak fairness | `RefinesRing`: it takes the steps of `DisruptorRingQueue`; no thread is gated by one that stopped |
| `LockFreeRingQueue` | 2+2 threads, 2+1 with an observer, 2+1 with 64-bit locals; 2 slots, 2 messages each, weak fairness | `Inv`, the inductive invariant of section 5: indices stay within the ring, no index is claimed twice, what is lost is lost by a race; `AnswersForCause`: refusals have a cause and `sizes()` never overstates; producers finish; the lists are right unless two threads met at a slot |
| `OtherRings` | `SingleRingQueue` (across two wraps, and below one), `SerialRingQueue` (100 messages), `OldLockedRing` (clear of sign change and wrap, and across), `MqQueue` (2+1 and 1+2 threads), `ListQueue` (2+1 and 1+2), `DoubanQueue` (2+2, 2 messages each) | refinement and delivery where the code gives it; elsewhere (`OnePlace`, `OrderKept`, `FaultsForCause`) exactly which circumstance loses, repeats, reorders or blocks messages |
| `Primitives` | `SequenceBase` with claimers, with an owner (ordered accesses, and plain ones), with two writers, in four builds; `WaitLoops` (37 loops, three platforms, starting counts around each threshold and the wrap) | `seq_spinlock` is held by one access at a time (`PrimitivesInv`); no lost claim or store (`NoWriteLost`), reads fresh and untorn where both words are taken care of (`ReadFresh`), calls return; whom a wait lets run, and how soon (`BoundedGap`) |
| `SpinMutex_tryLock` | 2 threads | **violation**: see 4 |
| `Program` | `Harness` with eight tests whose tasks may not start (2+2 tasks, 4 messages), with one repeated test, and with 2+3 tasks and 5 messages; `PthreadShim` with 2 workers and 2 processors, joining only, and with detach and timeouts; `SpinMutex` with 4 threads | reports are of their own test and totals exact (`ReportExact`), no task left behind, lists overrun only by uneven shares, `main` returns; in `ProgramInv` the shim's mutex, and that only `pthread_detach` orphans a lock, and that the word of `SpinMutex` is set iff owned; `MutualExclusion`, and somebody always gets that lock |
| `Calendar` | every day 1970 to 2106; `fast_mktime_v3` 1984 to 2011, ten offsets of up to 800 days, nine ways to say each | three counts of days agree with the calendar (`DaysCounted`); `fast_mktime_v3` is right for every time told in range, and for the others but for exactly the days it skips, the carries it does not store and the days it does not return for (`V3Right`) |

**Bounds.**  `MAX_PUSH_MSG_COUNT` and `MAX_POP_MSG_COUNT` bound every run, as
they bound the program; everything else is finite by itself.  Producers push as
much as consumers pop, as in the harness (`test.h:30-33`).  Two slots (three usable of
four in `q3.h`, which keeps one free) with four to six messages make the ring full,
empty, and reuse every slot; the index range is a few laps, so both indices wrap
in the runs that are about wrapping, and cannot in `SpinRingQueue_live`.  Two
threads of each kind are enough for the races between equals; the thread numbers
only add waiting.  Symmetry is used for safety only.  Disruptor consumers are
not symmetric, since producers read them in order.

The later modules follow the same rule.  `MqQueue` and `ListQueue` start just below
the wrap of a short index, so it happens in the run; `MaxClaims` bounds `q.h`,
where a message may go between list and ring any number of times.  Words of four
values make every carry between the halves of a sequence happen; `LastValue` and
`MaxReads` bound the callers: once `LastValue` is written or claimed no write but that of
`setMaxValue` begins, nor any claim, though one that is under way may still go beyond it.
`WaitLoops` starts from counts below 7, from 62 to 70 and from 124 up, so `CountModulus =
128`, a multiple of every interval in the code up to 64, stands for 2^32; `SPIN9_PAUSES` is 60 instead of 8000 and `GAP_CAP` cuts off a gap that
has already failed.  `MaxLoops` of the shim is 2 instead of 10; the loop is the same
from the second round on.  `MaxCarries = 20` is many times the rounds a day offset
of 800 needs: a call that has not ended by then swings between two years.

**Fairness.**  Every thread has weak fairness on its own steps: the operating
system runs each runnable thread, and the spin loops yield.  This is enough for
the progress of `SpinMutex` (in `MainReturns`), for `q3.h` and for the disruptor, whose
threads wait on conditions that, once true, stay true, or whose failed CAS means that
another thread's succeeded.  A spin lock does not promise a thread that it ever wins the race for
the word, so `AllDelivered` of `SpinRingQueue` (in `AllDeliveredUnderLock`) has the hypothesis `LockRaceFair`,
strong fairness of that race: an assumption on the machine, stated in the property
for this reason.  In `SpinMutex` a thread need not ever call `lock` or `tryLock`;
only calls in progress and owners are fair.

`LockFreeRingQueue` promises an end to producers alone (a consumer counts no NULL it
was handed).  The fair instances of `SequenceBase` are all four builds with one
owner (`GatingLive`), and with two owners (`CacheLive`) all but the 32-bit build without
the lock: with two writers its exchange loop in `setOrder` can undo itself for ever (TLC
shows it when that build is added).  In `Harness` a queue need not be starvation free: a task that lost every race
would win once the others have returned.  `PthreadShim` has strong fairness for
entering a critical section, which Windows hands on, and weak fairness for giving
it back and for ending.  Instances that are in a run for safety only have no
fairness, and the liveness properties say nothing of them.

`DoubanQueue` has the named assumption `LapAssumption`: fewer messages are pushed
than an index has values.  Otherwise a thread delayed between its load and its
CAS for a whole lap of the index would succeed with a stale check.

## 4. Findings

* `RingQueue.h:471` (and the same line of every other pop): a full ring whose
  `head` has wrapped past 0 while `tail` has not satisfies
  `tail > head && (head - tail) > kMask`, so pop takes it for empty while push
  takes it for full.  Neither index can move again.  It needs `2^32` messages and
  a full ring at that moment; the harness stops at 8,000,000.
* `SpinMutex.h:282`: after its retry `tryLock` returns true when the CAS failed
  and false when it succeeded, the opposite of its first path.

Behaviours the models show, as properties that hold with exactly these exceptions:

* `RingQueue.h:274`: the lock-free `push` moves `head` before it writes the slot; one
  producer and one consumer can already record a message twice, or lose one.
  `VerifiedUnlessRaced` says that nothing else goes wrong.
* `DisruptorRingQueueOld.h:1024`: `SmallDisruptorRingQueue` never sets its flags, so a
  consumer can take a sequence for published that is not.  With zeroed memory
  only the first lap is misled (`LaterLapsSound`).
* `Sequence.h:300`: `get` and `set` do not take `seq_spinlock`, which the rings use for
  every sequence.  `ReadFresh` has the condition that the build is wide or that
  `setOrder` and `getOrder` are used (`WholeWrites`, `WholeReads`); with `get` a 32-bit build
  reads mixtures of two values.
* `SpinMutex.h:391`: `yield` stores its old count over the one `yield_reset` has just
  cleared (`RestartsOf` leaves it out of the second part of `BoundedGap`).
* `main.cpp:3411`, under the comment "Adjust the second, minute, hour and mday at
  first": `tm_min` and `tm_hour` are stored only when the carried minute or hour is itself
  out of range, and the value is computed from them.  5 hours 65 minutes are 5:05
  (`Lost`).
* `main.cpp:3450`, "The month is after February": `month >= 3` counts from 0, so March is
  carried as a month before 29 February.  And `fast_mktime_v3` takes 2000 for a year
  without one when it carries days over it from another year (`Skipped`).
* `main.cpp:3453`: `fast_mktime_v3` never returns for 1 January of a leap year told from a
  year that is none and a month after March, or for the 31 December before one told
  from a leap year; 32 December 2003 is the simplest (`Swings`).
* `main.cpp:3311`: years up to 2106 are accepted, the tables end with 2097
  (`InTable` in `FastCounts`).
* 64-bit locals of the old locked pairs make `head - tail` negative once `head` has
  wrapped, so push never sees a full ring until `tail` wraps too; 32-bit signed
  locals wedge a ring that is full at 2^31 (`FaultsForCause` allows exactly these).
* In `mq.c` a pop a whole lap late takes a younger message and moves `head` past an
  older one; from then on the queue is full for producers and empty for
  consumers.  clang, Apple and FreeBSD builds have no CAS there at all (the
  mutant `PopNoCAS`): messages are popped twice.
* In `q.h`, push never looks at `head`; the index of a message that went to the list
  stays empty, and `head` waits there; with two consumers the list can lose
  messages by ABA.
* `TEST_FUNC_TYPE = 8` pushes nothing while its consumers poll for ever; `PUSH_CNT` or
  `POP_CNT` that do not divide `MAX_MSG_COUNT` may leave consumers waiting, and run
  past the end of `dis_popevent_list` in the serial and the single test.
* `fast_mktime_v3` takes an hour off in the summers of 1986 to 1991, whose dates are those
  of the comments beside the table (`SummerTime`).
* The numbers `test.h:101-114` gives the function types are not those of the defines.

The models also disagree, without a violation to show, with two remarks:
`test.h:139` calls the `spin3` pair one that deadlocks, and `SpinRingQueue_live`
finds no deadlock in it; what `test.h:145` calls a deadlock of `spin9`
is lost exclusion, after which messages are lost and consumers wait for them.

## 5. Proofs

Each theorem holds for every number of threads, capacity, index width and quota that
the assumptions of its module allow; the runs evaluate those assumptions.

### `RingIndexProofs`

The arithmetic: `Inc` and `Sub` stay in their range; a step of `head` (of `tail`) raises
(lowers) the modular occupancy by one; walking the distance between two indices
leads from one to the other (`OffsetSub`).  `SlotsDiffer`: indices less than a lap apart
have different slots, also across the wrap, because the index range is a whole
number of laps.

### `SpinRingQueueProofs`

* `TypeCorrect`: `Spec => []TypeOK`, for all seven pairs;
* `Invariance`: `Spec => []Inv` for the pairs in `ExclusiveTypes`;
* `Exclusion`, `Bounded`, `SpinRelease`: `MutualExclusion`, `OccupancyBound` and
  `ReleaseFindsLocked` under the same hypothesis;
* `Refinement`: `Spec => RefinesBoundedQueue` under it, wraps included;
* `Refusals`: `Spec => []RefusalsSound` under it, if the messages are fewer than the
  values of an index (beyond, the first finding is a counterexample);
* `PairRefusals`: the same of one producer and one consumer on spin8 or spin9.

Neither exclusion nor occupancy is inductive.  Exclusion needs `LockOwned`: a
thread in its section owns the mutex, or the lock word is set; then a CAS or
exchange that finds the word clear finds nobody inside.  Occupancy needs
`LocalsCurrent`: the indices a thread under the lock has read are still the
shared ones and passed its check, which only exclusion makes stable; `QuotaLeft`
keeps `sent` in its type.  Refinement needs `MessagesHeld`: every slot between `tail` and
`head` holds a message, but for the one a push has counted and not yet written, so
no pop returns NULL for a slot it has claimed.  `Inv` is their conjunction.  The
proof goes by `InitInv`, then `TypeStep`, `LockStep` (actions that touch the lock),
`BodyStep` (the indices) and `MessagesStep` (the slots), one step per action.  In the
refinement the write of the slot is `Put` (`WriteIsPut`) and the store of `tail` is
`Take` (`StoreTailIsTake`); every other step leaves `contents`, `pushed` and `popped` alone
(`QuietAbstract`).  The hypothesis `FuncTypes \subseteq ExclusiveTypes` excludes spin8 and
spin9, for which exclusion is false.

`Refusals` adds to `Inv` that `head` counts the messages claimed (`IndicesCounted`), so
that no index wraps and `tail` stays behind it, and that the indices a refused thread
saw are still current when it gives the lock back (`RefusalCurrent`).  `PairRefusals`
has an invariant of its own, `PairInv`, without any lock: each index has one writer,
and the other thread only ever adds room, or messages.

### `DoubanQueueProofs`

* `Invariance`: `Spec => []Inv`;
* `SlotRace`: `Spec => []NoSlotRace`;
* `Refinement`: `Spec => RefinesBoundedQueue`;
* `Refusals`: `Spec => HonestRefusals`, if a ring of slots and the messages of all
  producers but one fit into the index range together.

`Passed(i)` is how far an index has come since the start, which makes the order of the
four indices an order of numbers although they wrap: `IndexOrder`.  A CAS compares an
index with one loaded long before; that equality means "unmoved" because no index
comes round within a test, which is what `ClaimsCounted` gives: `p_head` has passed as
many indices as there are messages claimed.  `HeadsSound` says of each thread what its stale loads
still imply (a head read earlier bounds the present one; a claimed index lies between
its side's tail and head), `ClaimsApart` that no two threads of a side claim the same
index, and `SlotsFilled` what is in the slots: messages between `c_head` and `p_tail`, a
claimed slot its producer's message until published, a consumer's own copy after.
`NoSlotRace` follows because all indices in use lie within `kMask` of each other
(`WindowApart`) and such indices have different slots.  In the refinement the store of `p_tail` is `Put`
(`PublishIsPut`), the CAS on `c_head` is `Take` (`ClaimIsTake`).  The hypothesis of `Refusals`
is not needed for safety: a producer that slept over nearly a lap may find its old
head so far behind `c_tail` that the difference looks like a full ring.

### `LockFreeRingQueueProofs`

All under `Start(started)`: any threads on 32-bit locals, or at most one consumer on
64-bit ones (with two the indices overtake each other, section 2).

* `Invariance`: `[]Inv`, whence unique claims and `tail <= head <= tail + kCapacity`;
* `Verified`: `[]VerifiedUnlessRaced`;
* `Answers`: `AnswersForCause`.

`ClaimsCounted` (with `LapAssumption`) keeps `head` a ring's length below the wrap
(`HeadBound`); without that a stale head could look like a later one.  `LocalsSound` says
what stale reads still imply; the hard case is the pop whose `head` is older than its
`tail`: on 32-bit locals the difference is then huge and the test catches it, on
64-bit ones it is negative, and only the absence of a second consumer keeps `tail` from
passing.  `MessagesKept` is about what is in the slots as long as no two threads have met
at one: the indices between `tail` and `head`, and those claimed by a pop and not yet
read, have slots of their own; all but the claimed and unwritten ones hold distinct
messages that nobody has recorded; and a message pushed is there or in a record.
The proof has one lemma for each CAS that succeeds (`PushCASStep`, `PopCASStep`), one for
each access to a slot, and one for the searches between (`SearchStep`).  `Answers` also
needs the step that gave the answer to be told from every other (`Retry`).

### `SingleRingQueueProofs`

All for at least one message (`QuotaAssumption`), and nothing else:

* `Invariance`: `Spec => []Inv`;
* `SlotRace`: `Spec => []NoSlotRace`;
* `Refinement`: `Spec => Abstract!Spec`, the bounded FIFO, across any number of wraps;
* `Records`: the consumer records 1, 2, 3, ... and ends with every message.

No lock is needed because each index has one writer.  `ProducerKnows`: `head` is the
producer's own, and the ring, once seen not full, stays so; `ConsumerKnows`: `tail` is the
consumer's own, and a `head` read earlier lies between `tail` and the present one.
`MessagesHeld` and `RecordsInOrder` say where each message is: the last ones pushed from
`tail` to `head`, those before in the record list.  So `contents` is a row of consecutive
messages whatever the indices are (`ContentsAre`), and the store of `head` (`SetHeadIsPut`)
and the read of the entry (`ReadIsTake`) add and take one (`RowProperties`).  The flaw
of the emptiness test (section 4) is one of liveness: a pop it misleads is refused,
and changes nothing.

### `DisruptorRingQueueProofs`

The first part is about what is written, for the ring of `DisruptorRingQueue.h` and the
two of `DisruptorRingQueueOld.h`:

* `Invariance`, `InvarianceOld`: `Spec => []Inv` for `DisruptorRingQueue`, and
  `SpecOld => []Inv` for both classes of `DisruptorRingQueueOld.h`, whatever their
  memory held before;
* `Overwrite`, `OverwriteOld`: `NoOverwrite` under each of them.

`NoOverwrite` says what is true when a producer writes; what makes it true was
read long before, one word at a time, partly by other producers.  `Inv` follows it
back.  `Consumed(b)` says that every entry up to `b` has been copied out; it is
never undone, because what a consumer newly claims lies beyond `workSequence`
(`PushConsumed`, `PopConsumed`).  `PassedGate`: a producer behind the gate got there
by a cached minimum that is `Consumed`.  `GateSound`: whatever is in the cache, or
about to be stored there by a producer that has been overtaken, is `Consumed`.
`MinimumHonest`: a minimum being collected is no more than what the consumers
visited so far now report, unless they have stopped; so what they claim after the
visit follows it.  The read of `workSequence` that ends the collection bounds it by
what has been claimed at all.  `GatingHonest`: between its report, its claim and the
next call a consumer reports no more than it has left behind, and holds just the
sequence after its report.  `ClaimsUnique` is not needed for `NoOverwrite`, but for the
theorems below.  The proof has one lemma per conjunct for the steps of a producer
(`PushType` to `PushClaims`), one for the steps of a consumer (`PopInv`), and frame
lemmas for what each leaves alone.  It uses `ThreadAssumption`, `SizeAssumption` and,
for the old header, `StorageAssumption`.

The second part has the other direction, for the same systems:

* `EarlyReads`: `Spec => []ReadsPublished`, no consumer copies an entry before its
  producer has published it;
* `LaterLaps`: `SpecOld => []LaterLapsSound`, the same from the second lap on when
  nobody set the flags, on the hypothesis that memory held no number above 0.

`FlagInv` adds to `Inv` that a flag holding the lap of a sequence was stored for it
(`FlagsSound`), and what a consumer may conclude from the flags it has seen
(`KnowsSound`): its scan has passed published sequences only, and its cached bound is
good for everything from the sequence it holds up, not for what lies below, which
others may hold.  That is enough because a consumer only claims upwards, what is
published stays published (`PushPublished`), a producer stores the flag of a
sequence it holds alone (`ClaimsUnique`), and slot and lap determine the sequence
(`SlotAndLap`).  The argument `first` is 0 for marked flags and `kCapacity` for zeroed
ones, whose first lap may mislead.

The third part is about what arrives:

* `Recorded`: `Spec => []RecordedOnce`: whatever the quotas, no message is recorded twice or
  before it is published, and one consumer records one producer's in order;
* `Lists`: `Spec => [](PopListCorrect /\ ProducerOrder)`, which adds that nothing is missing
  when every thread has returned;
* `ListsIfMarked`: `SpecOld => []PopListCorrectIfMarked`.

The last two suppose even quotas: the producers are finitely many and push just as many
messages as the consumers are to pop, which is how `test.h:30-33` derives the quotas
when `PUSH_CNT` and `POP_CNT` divide `MAX_MSG_COUNT`.

`ListInv` adds to `FlagInv(0)` four things.  `WindowSound`: what is claimed by a producer and
not copied out yet lies within one lap, so its sequences have different slots
(`PendingSlots`), and a write disturbs no other of them.  `HeldSound`: the ring holds
messages that were pushed, those of one producer in their order, and its next one
goes behind them.  `RecordsSound`: what has been recorded was pushed, is recorded once,
is in the ring no more, and precedes all that the same consumer may still claim.
`QuotaKept`: a consumer leaves its loop just when its list is full.  When every thread has returned
the records are as many as the messages; a one-to-one map between finite sets of
one size is onto, so every message is there (`AllRecorded`).

### `DisruptorRingQueueExProofs`

* `Refinement`: `SpecEx => RefinesRing`;
* `Overwrite`, `EarlyReads`: `NoOverwrite` and `ReadsPublished` for `DisruptorRingQueueEx`;
* `Lists`: `PopListCorrect` and `ProducerOrder`, for even quotas.

The slot of a sequence is moved to another cache line by `newIndex`, one permutation for the
flags and one for the entries.  `PlacesDiffer`: within its lines `newIndex` is one-to-one,
because it swaps the quotient and the remainder of a division; `BoxesEnough`: there
are enough lines for all slots, however the capacity divides.  The number of lines is
rounded up to a power of two; that there is one to round up to (`Pow2Exists`) is proved
without induction, from the least number that would have none (`LeastNatural`).  Then
each of the four steps that touch a slot is the same step of `DisruptorRingQueue`
(`WriteEntryIsRings` and so on), the rest are literally its own.  `Overwrite`, `EarlyReads`
and `Lists` are theorems of `DisruptorRingQueueProofs` carried over: `RingProofs` is
that module on the permuted arrays, and `SameRing` says that its ring is the one refined.
The two assumptions about cache lines are `SizeAssumption` and `LineAssumption`.

### `ProgramProofs`

About `MCProgram`, the three systems it explores side by side, and about the sequences of
`MCPrimitives`.

* `MutexInvariance`, `MutexTypeCorrect`, `Exclusion`, `WordOwned`: `Spec => []...` of
  `SpinMutex`, for every set of threads;
* `SystemInvariance`: `MCSpec => []SystemInv`, and from it `ProgramSafe` (`ProgramInv`),
  `ProgramExclusion` (`MutualExclusion`), `EveryTaskJoined` (`NoTaskOutlivesTest`),
  `ReportRight` (`ReportExact`) and `ListsWithinBounds` (`OverrunOnlyIfUneven`), for every
  set of configurations of the test program and of the pthread functions.
* `PrimitivesInductive`: `PrimitivesSpec => []PrimitivesIInv`, and from it `PrimitivesCorrect`
  (`PrimitivesInv`), `WritesKept` (`NoWriteLost`) and `ReadsFresh` (`ReadFresh`), for every set of
  uses of a sequence: any threads, builds, word size and number of calls.

The assumptions are `HarnessesAssumption` and `ShimsAssumption`: each configuration
satisfies the assumption of its module, which says of the constants what `test.h`,
the compiler and `main.cpp` make sure of.  Likewise `UsesAssumption` for the sequences:
words have an even number of values, a sequence is claimed or owned but not both,
readers do neither, there are finitely many claimers, and `LastValue` and a claim of each
of them stay below `MAX_VALUE`.

*`SpinMutex`.*  `Inv` joins its type, exclusion and "the word is set iff a thread is
inside": a thread gets in because a clear word means that nobody is inside
(`ClearMeansFree`), and its release leaves the word clear because nobody else is.

*The pthread functions* (`ShimInv`).  Exclusion is that only the owner's count is not 0
(`ShimMutex`).  A join that returned 0 tells of a worker that is gone, and main has
come past it (`ShimJoins`); a worker main has not come to is not joined
(`ShimNotJoined`), so a handle is never joined twice.

*The test program* (`TestsInv`).  A report is right for a reason that spans the whole
test.  `Control` and `TasksOK` say which threads exist at each place of main: what it
has not started is not created, what it has joined is gone, a task is that of one
thread of this test.  The messages of a test are numbered so that no two tasks share
one and the places of the lists so that no two consumers share one; both are digits
to a base (`Digits`), which holds for the ways the tests of `main` divide their
messages (`Quotas`, `ManyTasks`, `OneTaskEach`, `ProgramKnown`).  `Data` follows each message:
one place for each, in the queue or in the list (`Distinct`); what a producer has not
reached is nowhere (`Unsent`); and of a consumer's places just those are filled that it
has come past (`Filled`), because `main` clears the list that the test verifies.
Tasks disturb nobody's share (`OthersKeep`, `TaskEffects`).  `Totals` counts the tasks that
have added their share, whichever could not be started; `quit` is set only when that
is all of them.  At the end of a test no task is alive (`NoneAlive`), so the filled places
are all the places of the consumers that were started, and `Verified` turns the set of
recorded messages into the number the verifier reports.  If a consumer was missing its
places are empty; if a producer was, its messages are in no list: `EndReport` has both
cases.

*The sequences* (`SequenceInv`).  `Places` says which thread may be where in which build,
`SpinLockExclusive` that the accesses under `seq_spinlock` exclude each other.  A store that
has moved one word of two has the other still to move, and under the lock nobody else
moves either (`Stored`): so a finished store leaves the value it was given (`HalfDone`,
`SplitValue`).  For a claimed sequence `ClaimInv` counts: outside a store the value is the
number of claims less one, the greatest value a claimer got; a swap succeeds only on
that value, so it claims the next and nobody else has that (`OneClaimed`).  The bound
holds because each claimer between its `get` and its swap has at most one claim to
come (`Active`).  For owners, `LastWrite` says that whoever wrote last and is at rest wrote
what the sequence holds, or somebody is still writing; the exchange loop of `setOrder`
may restore an older value, but only while its writer is in the loop.  A sole owner's
sequence holds its last value or the one before (`OwnerValue`).  A read is fresh
because the newest complete value (`Settled`) and the newest begun (`Started`) only grow
(`NewestGrow`), and a whole value of the sequence always lies between the two
(`ValueFresh`); what a reader has taken under the lock are words of one such value
(`ReaderInv`).

### Only model-checked

Everything about the serial and the old locked rings, `mq.c`, `q.h`, the
waits and the calendar (in `OtherRings`: `TypeOK`, `OnePlace`, `OrderKept`, `FaultsForCause`
and the refinement by `OldLockedRing` and `MqQueue`; `BoundedGap`; `DaysCounted`, `V3Right`); refusals of spin8 and spin9 by more than
a pair of threads.  Liveness (`AllDelivered`, `ProducersFinish`, `CallsReturn`, `MainReturns`), and `ENABLED` with it, is out of the proof system's reach, as is
induction over recorded data.

## 6. Not modelled, and the plan

Not modelled: weak memory; the intrinsics of `port.h` themselves; input, output,
timers, dumps and printing; the benchmarks in C# and Java; the originals and
sketches in `douban/` (`a.c`, `a2.c`, `a3.c`, `qlock.h`, `q3_new.h`), which the port was
written from and no build here compiles.

What is left, most important first:

1. Proofs: the refinement of `OldLockedRing` clear of wrap and sign change; the rounds of
   `SerialRingQueue`.
2. `sizes()` of the disruptor rings, which nothing calls.
3. A store buffer under `SingleRingQueue` and `q3.h`, to see what x86 gives for free.
