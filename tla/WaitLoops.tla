------------------------------ MODULE WaitLoops ------------------------------
(***************************************************************************)
(* The back-off loops of this repository, in which a thread that cannot go *)
(* on pauses, yields and sleeps until another thread has made it possible. *)
(* Every loop is a record of when it does what; one waiter goes round one  *)
(* of them while the thread it waits for (the "other") needs the           *)
(* processor.  The scheduler is the least generous one the comments of     *)
(* RingQueue.h:617-629 and SpinMutex.h:213-251 describe: the other runs    *)
(* only when the waiter makes an offer that includes it.  How many pauses  *)
(* one pass makes, which changes no offer, is left out.                    *)
(***************************************************************************)
EXTENDS Naturals

CONSTANTS
  Platforms,   \* of {"linux", "windows", "mingw"}; sleep.c does not compile elsewhere
  Loops,       \* names of the loops of a run, of the domain of LoopOf
  Sleep_1_Intervals, YieldThresholds,  \* template arguments SpinMutex is tried with
  SPIN9_PAUSES, \* 8000 in spin9_push and spin9_pop
  WORK,        \* how often the other must run before the waiter may go on
  CountModulus, \* number of values of the 32-bit loop counters, a multiple of 64
  StartCounts  \* values of the counter at which the other may become ready

LoopAssumption ==
  /\ Platforms \subseteq {"linux", "windows", "mingw"}
  /\ WORK \in Nat \ {0} /\ CountModulus \in Nat \ {0}
  /\ StartCounts \subseteq 0..(CountModulus - 1)
  /\ Sleep_1_Intervals \subseteq Nat /\ YieldThresholds \subseteq Nat

-------------------------------------------------------------------------------
(* src/RingQueue/sleep.c, and who gets the processor by each call.  A      *)
(* thread is on the waiter's core or not, and its priority is lower or not. *)

Classes == [sameCore : BOOLEAN, lower : BOOLEAN]

\* External.  The system calls, as the comments of this repository describe
\* them; usleep gives the processor up for everybody.
Reaches(call, cls) ==
  CASE call = "Sleep(0)"       -> ~cls.lower
    [] call = "SwitchToThread" -> cls.sameCore
    [] call = "sched_yield"    -> ~cls.lower
    [] call = "Sleep(1)"       -> TRUE
    [] call = "usleep"         -> TRUE
    [] call = "pause"          -> FALSE

jimi_wsleep(os, millisec) ==
  IF os = "linux" THEN IF millisec = 0 THEN "sched_yield" ELSE "usleep"
                  ELSE IF millisec = 0 THEN "Sleep(0)" ELSE "Sleep(1)"

jimi_sleep(os, millisec) ==
  IF os = "windows" THEN jimi_wsleep(os, millisec) ELSE "usleep"

jimi_yield(os) == IF os = "linux" THEN "sched_yield" ELSE "SwitchToThread"

\* SwitchToThread returns 0 when no thread of this core is ready; sched_yield
\* succeeds.
YieldSucceeds(os, cls) == os = "linux" \/ cls.sameCore

-------------------------------------------------------------------------------
(* The loops.  From pass number threshold on, every sleep1-th pass sleeps  *)
(* a millisecond and every sleep0-th of the others sleeps 0 (0 stands for  *)
(* never); the rest yield, and do "failed" when yielding fails.  After its *)
(* sleep1 a loop may start its count again.                                *)

TaskLoop(threshold) ==
  [threshold |-> threshold, sleep1 |-> 64, sleep0 |-> 4, yields |-> TRUE,
   failed |-> "sleep0", sleep |-> "jimi_wsleep", skip1 |-> FALSE,
   needReset |-> FALSE, restart |-> FALSE, first |-> 0, oneCall |-> FALSE]
PauseLoop == [TaskLoop(0) EXCEPT !.sleep1 = 0, !.sleep0 = 0, !.yields = FALSE]
SleepZeroLoop(threshold) == [PauseLoop EXCEPT !.threshold = threshold, !.sleep0 = 1]

SPIN_YIELD_THRESHOLD == 1
MUTEX_MAX_SPIN_COUNT == 1

\* The loops of RingQueue_push_task and RingQueue_pop_task around the call.
push_task_spin2 == TaskLoop(SPIN_YIELD_THRESHOLD)
push_task_spin3 == SleepZeroLoop(0)
push_task_disruptor == TaskLoop(20)
push_task_disruptorEx == TaskLoop(20)
pop_task_spin2 == TaskLoop(SPIN_YIELD_THRESHOLD)
pop_task_spin3 == SleepZeroLoop(0)
pop_task_disruptor == TaskLoop(5)
pop_task_disruptorEx == TaskLoop(5)
\* The same when TEST_FUNC_TYPE selects one test at compile time.
only_push_spin2 == push_task_spin2
only_push_disruptor == push_task_disruptor
only_push_disruptorEx == push_task_disruptorEx
only_pop_spin2 == pop_task_spin2
only_pop_disruptor == pop_task_disruptor
only_pop_disruptorEx == pop_task_disruptorEx
single_push_task == TaskLoop(4)
single_pop_task == TaskLoop(4)

\* waitFor of the disruptors calls jimi_sleep.
waitFor == [TaskLoop(8) EXCEPT !.sleep = "jimi_sleep"]
waitForEx == waitFor
waitForOld == waitFor

\* seq_spinlock::spin_wait (SEQUENCE_YILED_THRESHOLD)
seq_spin_wait == TaskLoop(1)

\* The loops on spin_mutex.locked of RingQueueBase.  spin_push backs off only
\* with USE_SPIN_MUTEX_COUNTER, which test.h sets to 0.
spin_push == SleepZeroLoop(0)
spin_pop == SleepZeroLoop(0)
spin1_push == SleepZeroLoop(MUTEX_MAX_SPIN_COUNT)
spin1_pop == SleepZeroLoop(MUTEX_MAX_SPIN_COUNT)
spin8_push == PauseLoop
spin8_pop == PauseLoop
spin9_push == [PauseLoop EXCEPT !.sleep1 = SPIN9_PAUSES + 1, !.restart = TRUE]
spin9_pop == spin9_push

MinGWSleep(os, loop) == IF os = "mingw" THEN [loop EXCEPT !.sleep1 = 0] ELSE loop

\* MinGW and Cygwin leave the Sleep(1) out.
spin2_push(os) == MinGWSleep(os, TaskLoop(SPIN_YIELD_THRESHOLD))
spin2_pop(os) == spin2_push(os)
spin3_push(os) == MinGWSleep(os, TaskLoop(SPIN_YIELD_THRESHOLD))
spin3_pop(os) == spin3_push(os)
old_spin_push(os) == [spin2_push(os) EXCEPT !.failed = "pause"]
old_spin_pop(os) == old_spin_push(os)
spin2_push_ == [TaskLoop(1) EXCEPT !.sleep = "jimi_sleep"]

Helper == [YieldThreshold : YieldThresholds, Sleep_0_Interval : {4},
           Sleep_1_Interval : Sleep_1_Intervals,
           UseYieldProcessor : BOOLEAN, NeedReset : BOOLEAN]

\* 64-bit processors, where the interval is doubled
SLEEP_1_INTERVAL(hp) == 2 * hp.Sleep_1_Interval

\* SpinMutex::lock.  Linux has no Sleep(0) branch, and yields whenever it may
\* also sleep; MinGW passes over its Sleep(1).
SpinMutexLock(os, hp) ==
  [TaskLoop(hp.YieldThreshold) EXCEPT
     !.sleep1 = SLEEP_1_INTERVAL(hp),
     !.sleep0 = IF os = "linux" THEN 0 ELSE hp.Sleep_0_Interval,
     !.yields = \/ hp.UseYieldProcessor
                \/ os = "linux" /\ hp.Sleep_1_Interval # 0,
     !.failed = IF os = "linux" THEN "pause" ELSE "sleep0",
     !.skip1 = (os = "mingw"),
     !.needReset = hp.NeedReset, !.restart = hp.NeedReset, !.first = 1]

\* SpinMutex::yield makes one pass of the same loop.  yield_reset clears the
\* caller's loop_count, which the last line of yield then overwrites with the
\* local loop_count + 1.
SpinMutexYield(os, hp) == 
  [SpinMutexLock(os, hp) EXCEPT !.restart = FALSE, !.oneCall = TRUE]

LoopOf(os, hp) ==
  [push_task_spin2 |-> push_task_spin2, push_task_spin3 |-> push_task_spin3,
   push_task_disruptor |-> push_task_disruptor, push_task_disruptorEx |-> push_task_disruptorEx,
   pop_task_spin2 |-> pop_task_spin2, pop_task_spin3 |-> pop_task_spin3,
   pop_task_disruptor |-> pop_task_disruptor, pop_task_disruptorEx |-> pop_task_disruptorEx,
   only_push_spin2 |-> only_push_spin2, only_push_disruptor |-> only_push_disruptor,
   only_push_disruptorEx |-> only_push_disruptorEx, only_pop_spin2 |-> only_pop_spin2,
   only_pop_disruptor |-> only_pop_disruptor, only_pop_disruptorEx |-> only_pop_disruptorEx,
   single_push_task |-> single_push_task, single_pop_task |-> single_pop_task,
   waitFor |-> waitFor, waitForEx |-> waitForEx, waitForOld |-> waitForOld,
   seq_spin_wait |-> seq_spin_wait,
   spin_push |-> spin_push, spin_pop |-> spin_pop,
   spin1_push |-> spin1_push, spin1_pop |-> spin1_pop,
   spin2_push |-> spin2_push(os), spin2_pop |-> spin2_pop(os), spin2_push_ |-> spin2_push_,
   spin3_push |-> spin3_push(os), spin3_pop |-> spin3_pop(os),
   spin8_push |-> spin8_push, spin8_pop |-> spin8_pop,
   spin9_push |-> spin9_push, spin9_pop |-> spin9_pop,
   old_spin_push |-> old_spin_push(os), old_spin_pop |-> old_spin_pop(os),
   SpinMutexLock |-> SpinMutexLock(os, hp), SpinMutexYield |-> SpinMutexYield(os, hp)]

-------------------------------------------------------------------------------
(* One wait.                                                               *)

VARIABLES
  os, loop,    \* the platform and the loop
  other,       \* the class of the thread that is waited for
  loop_count,  \* passes made, in 32 bits
  work,        \* runs the other still needs
  gap          \* passes since the other last ran (or became ready)

vars == <<os, loop, other, loop_count, work, gap>>

\* The other may become ready at some pass of the wait.
Init ==
  /\ os \in Platforms
  /\ \E name \in Loops, hp \in Helper : loop = LoopOf(os, hp)[name]
  /\ other \in Classes
  /\ loop_count \in StartCounts
  /\ loop.restart => loop_count < loop.threshold + loop.sleep1
  /\ work = WORK /\ gap = 0

yeild_cnt == loop_count - loop.threshold
Every(interval) == interval # 0 /\ yeild_cnt % interval = interval - 1

SleepCall(millisec) ==
  IF loop.sleep = "jimi_sleep" THEN jimi_sleep(os, millisec) ELSE jimi_wsleep(os, millisec)

\* Mutant: the two sleeps tested in the other order.  (63 is also 3 modulo 4.)
CallReordered ==
  IF loop_count < loop.threshold THEN "pause"
  ELSE IF Every(loop.sleep0) THEN SleepCall(0)
  ELSE IF Every(loop.sleep1) THEN SleepCall(1)
  ELSE IF loop.yields THEN jimi_yield(os) ELSE "pause"

\* What this pass calls.
Call ==
  IF loop_count < loop.threshold THEN "pause"
  ELSE IF Every(loop.sleep1) THEN IF loop.skip1 THEN "pause" ELSE SleepCall(1)
  ELSE IF Every(loop.sleep0) THEN SleepCall(0)
  ELSE IF ~loop.yields THEN "pause"
  ELSE IF YieldSucceeds(os, other) THEN jimi_yield(os)
  ELSE IF loop.failed = "sleep0" THEN SleepCall(0) ELSE "pause"

Sleeps1 == loop_count >= loop.threshold /\ Every(loop.sleep1)

\* loop_count++; a restart assigns 0 after it (spin9) or before it (SpinMutex)
NextCount ==
  IF loop.restart /\ Sleeps1 THEN loop.first ELSE (loop_count + 1) % CountModulus

\* Bound: gap is not counted beyond this number of passes.
GAP_CAP == 150

Pass ==
  /\ work > 0
  /\ work' = IF Reaches(Call, other) THEN work - 1 ELSE work
  /\ gap' = IF Reaches(Call, other) THEN 0 ELSE IF gap < GAP_CAP THEN gap + 1 ELSE gap
  /\ loop_count' = NextCount
  /\ UNCHANGED <<os, loop, other>>

Next == Pass

Spec == Init /\ [][Next]_vars

-------------------------------------------------------------------------------
(* Properties.                                                             *)

\* However far the wait has come, and across a wrap of its counter, a loop with
\* a sleep of a millisecond lets every thread run within two of its intervals,
\* a thread of lower priority on another core too; one with a Sleep(0) every
\* thread whose priority is not lower; one that yields every such thread, and
\* off Linux any thread of its core.  (Where the sleep of a millisecond is
\* missing, a holder of lower priority need never run: spin_, spin1_ and spin8_,
\* and spin2_, spin3_ and SpinMutex on MinGW.)
BoundedGap ==
  /\ (loop.sleep1 # 0 /\ ~loop.skip1) => gap <= 2 * loop.sleep1 + loop.threshold
  /\ (loop.sleep0 # 0 /\ ~other.lower) => gap <= 2 * loop.sleep0 + loop.threshold
  /\ (loop.yields /\ Reaches(jimi_yield(os), other)) => gap <= loop.threshold + 2

\* The loops whose loop_count starts again after each Sleep(1): SpinMutex::lock
\* when it asks for it (NeedReset); SpinMutex::yield does not do it.
RestartsOf(l) == l.needReset /\ ~l.oneCall
===============================================================================
