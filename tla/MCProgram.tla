------------------------------- MODULE MCProgram -------------------------------
(***************************************************************************)
(* The test program, SpinMutex and, for Windows, the pthread functions the *)
(* program calls.  They share nothing: "system" says which of them a       *)
(* behaviour is about and "config" which configuration of it.  SpinMutex   *)
(* stays in its initial state in the others, and the variables of the      *)
(* others are NULL where they have no part.                                *)
(***************************************************************************)
EXTENDS SpinMutex, Sequences

CONSTANTS
  Harnesses,  \* the configurations of the test program: records of its constants
  Shims,      \* those of the pthread functions
  NULL

VARIABLES
  system, config,
  mainPc,                                                      \* of Harness, PthreadShim
  n, i, kids, running, queue, popmsg_list, dis_popevent_list,  \* Harness
  push_total, pop_total, quit, overrun, report,
  k, state, owner, depth, holds, rounds, processMask,          \* PthreadShim
  seenMask, loop_cnt, placed, returned, moves

ownHarness == <<n, i, kids, running, queue, popmsg_list, dis_popevent_list,
                push_total, pop_total, quit, overrun, report>>
ownShim == <<k, state, owner, depth, holds, rounds, processMask, seenMask, loop_cnt,
             placed, returned, moves>>
allVars == <<system, config, vars, mainPc, ownHarness, ownShim>>

\* The test program as configured by c.
Tests(c) == INSTANCE Harness
  WITH pc <- mainPc,
       PUSH_CNT <- c.PUSH_CNT, POP_CNT <- c.POP_CNT, MAX_MSG_COUNT <- c.MAX_MSG_COUNT,
       QSIZE <- c.QSIZE, TEST_FUNC_TYPE <- c.TEST_FUNC_TYPE,
       USE_DOUBAN_QUEUE <- c.USE_DOUBAN_QUEUE,
       USE_THREAD_AFFINITY <- c.USE_THREAD_AFFINITY, SOCKET_TOP <- c.SOCKET_TOP,
       MayFail <- c.MayFail

\* The pthread functions under a main as configured by s.
Shim(s) == INSTANCE PthreadShim
  WITH pc <- mainPc,
       Workers <- s.Workers, Order <- s.Order, Cpus <- s.Cpus, CoreOf <- s.CoreOf,
       MaxLoops <- s.MaxLoops, MaxDepth <- s.MaxDepth, MaxRounds <- s.MaxRounds,
       MaxMoves <- s.MaxMoves, UsesDetach <- s.UsesDetach, UsesTimeout <- s.UsesTimeout

ASSUME HarnessesAssumption == \A c \in Harnesses : Tests(c)!HarnessAssumption
ASSUME ShimsAssumption == \A s \in Shims : Shim(s)!ShimAssumption

-----------------------------------------------------------------------------

NoHarness ==
  /\ n = NULL /\ i = NULL /\ kids = NULL /\ running = NULL /\ queue = NULL
  /\ popmsg_list = NULL /\ dis_popevent_list = NULL /\ push_total = NULL
  /\ pop_total = NULL /\ quit = NULL /\ overrun = NULL /\ report = NULL
NoShim ==
  /\ k = NULL /\ state = NULL /\ owner = NULL /\ depth = NULL /\ holds = NULL
  /\ rounds = NULL /\ processMask = NULL /\ seenMask = NULL /\ loop_cnt = NULL
  /\ placed = NULL /\ returned = NULL /\ moves = NULL

\* The behaviour is one of the test program under c, of the functions under s.
IsTests(c) == system = "tests" /\ config = c
IsShim(s) == system = "pthread" /\ config = s

MCInit ==
  /\ Init
  /\ \/ system = "SpinMutex" /\ config = NULL /\ mainPc = NULL /\ NoHarness /\ NoShim
     \/ \E c \in Harnesses : IsTests(c) /\ Tests(c)!Init /\ NoShim
     \/ \E s \in Shims : IsShim(s) /\ Shim(s)!Init /\ NoHarness

KeepMutex == UNCHANGED <<system, config, mainPc, ownHarness, ownShim>>
KeepHarness == UNCHANGED <<system, config, vars, ownShim>>
KeepShim == UNCHANGED <<system, config, vars, ownHarness>>

MCNext ==
  \/ system = "SpinMutex" /\ Next /\ KeepMutex
  \/ \E c \in Harnesses : IsTests(c) /\ Tests(c)!Next /\ KeepHarness
  \/ \E s \in Shims : IsShim(s) /\ Shim(s)!Next /\ KeepShim

\* Every task can be started, and no thread is terminated.
Live(c) == ~c.MayFail
LiveShim(s) == ~s.UsesDetach

\* Every thread of the program is scheduled.  A queue is starvation free for
\* its last producer and its last consumer only, and that is enough here: a
\* task that lost every race would win once the others have returned.
MainScheduled ==
  \/ \E c \in Harnesses : Live(c) /\ IsTests(c) /\ Tests(c)!Main /\ KeepHarness
  \/ \E s \in Shims : LiveShim(s) /\ IsShim(s) /\ Shim(s)!Main /\ KeepShim
TaskScheduled(c, t) ==
  IsTests(c) /\ t \in DOMAIN running /\ Tests(c)!Task(t) /\ KeepHarness

\* Critical sections are handed on fairly, and a worker gives back what it holds.
WorkerLocks(s, w) == IsShim(s) /\ Shim(s)!pthread_mutex_lock(w) /\ KeepShim
WorkerUnlocks(s, w) == IsShim(s) /\ Shim(s)!pthread_mutex_unlock(w) /\ KeepShim
WorkerEnds(s, w) == IsShim(s) /\ Shim(s)!EndWorker(w) /\ KeepShim

\* A thread inside SpinMutex leaves, one in lock or tryLock goes on with it.
MutexScheduled(th) ==
  system = "SpinMutex" /\ (LockCAS(th) \/ TryCAS(th) \/ Unlock(th)) /\ KeepMutex

MCFairness ==
  /\ WF_allVars(MainScheduled)
  /\ \A c \in {d \in Harnesses : Live(d)} :
       \A t \in Tests(c)!ThreadHandles : WF_allVars(TaskScheduled(c, t))
  /\ \A s \in {d \in Shims : LiveShim(d)} :
       \A w \in s.Workers : /\ SF_allVars(WorkerLocks(s, w))
                           /\ WF_allVars(WorkerUnlocks(s, w))
                           /\ WF_allVars(WorkerEnds(s, w))
  /\ \A th \in Threads : WF_allVars(MutexScheduled(th))

MCSpec == MCInit /\ [][MCNext]_allVars /\ MCFairness

-----------------------------------------------------------------------------
(* Properties.  MutualExclusion is that of SpinMutex.                       *)

\* Every variable of the system at hand stays within its type.  SpinMutex: its
\* word is set exactly while a thread is inside.  pthread.c: two workers never
\* hold the mutex at once, although one may hold it several times, through
\* lock, timedlock and trylock alike, also when a worker is terminated where it
\* stands; and it belongs to a thread that is gone only if that was detached.
ProgramInv ==
  /\ Inv
  /\ \A c \in Harnesses : IsTests(c) => Tests(c)!TypeOK
  /\ \A s \in Shims : IsShim(s) =>
       Shim(s)!TypeOK /\ Shim(s)!MutexExcludes /\ Shim(s)!OrphanOnlyByDetach

\* No task outlives its test: the queues are locals of the test function and
\* the lists belong to the next test, so every thread that was created must
\* be joined, also when another one could not be.  pthread.c: a join that
\* returned 0 means that the thread is gone, and without timeouts every thread
\* main created is gone when main goes on.
NoTaskOutlivesTest ==
  /\ \A c \in Harnesses : IsTests(c) => Tests(c)!NoTaskOutlivesTest
  /\ \A s \in Shims : IsShim(s) => Shim(s)!JoinedMeansGone

\* What the program reports is about this test alone, whatever the tests before
\* left behind: when every task started, each message the consumers recorded in
\* the lists is counted once and no other, and the totals have what every task
\* added; a test in which a task could not be started never reports that every
\* message arrived (the return value of the start functions is ignored, the
\* verifier is the only witness).
ReportExact ==
  \A c \in Harnesses : IsTests(c) =>
    Tests(c)!ReportExact /\ Tests(c)!TotalsExact /\ Tests(c)!NoFalseReport

\* The lists are written within their bounds, except by the two tests that
\* record every message from the first row on when POP_CNT does not divide
\* the number of messages.
OverrunOnlyIfUneven ==
  \A c \in Harnesses : IsTests(c) => Tests(c)!OverrunOnlyIfUneven

\* main returns: when every task starts it gets through all its tests, and with
\* the functions of pthread.c to the end of its joins, although each call of the
\* loop that widens the process's affinity may fail or be undone by others.  And
\* while threads wait in SpinMutex::lock, some thread keeps getting in.
MainReturns ==
  (system = "SpinMutex" => \E th \in Threads : pc[th] = "spin") ~>
    \/ system = "SpinMutex" /\ \E th \in Threads : pc[th] = "critical"
    \/ \E c \in Harnesses : IsTests(c) /\ (Live(c) => Tests(c)!Finished)
    \/ \E s \in Shims : IsShim(s) /\ (LiveShim(s) => Shim(s)!Finished)

-----------------------------------------------------------------------------
(* The instances that are checked *)

\* Every test, and tasks that cannot be started.
AllTests ==
  [PUSH_CNT |-> 2, POP_CNT |-> 2, MAX_MSG_COUNT |-> 4, QSIZE |-> 2, TEST_FUNC_TYPE |-> 0,
   USE_DOUBAN_QUEUE |-> TRUE, USE_THREAD_AFFINITY |-> FALSE, SOCKET_TOP |-> 31,
   MayFail |-> TRUE]

\* One test three times, on as many processors as there are tasks.
OneTest ==
  [PUSH_CNT |-> 2, POP_CNT |-> 2, MAX_MSG_COUNT |-> 4, QSIZE |-> 2, TEST_FUNC_TYPE |-> 3,
   USE_DOUBAN_QUEUE |-> FALSE, USE_THREAD_AFFINITY |-> TRUE, SOCKET_TOP |-> 4,
   MayFail |-> FALSE]

\* A number of consumers that does not divide the number of messages.
Uneven ==
  [PUSH_CNT |-> 2, POP_CNT |-> 3, MAX_MSG_COUNT |-> 5, QSIZE |-> 2, TEST_FUNC_TYPE |-> 10,
   USE_DOUBAN_QUEUE |-> FALSE, USE_THREAD_AFFINITY |-> TRUE, SOCKET_TOP |-> 5,
   MayFail |-> FALSE]

\* What main.cpp does with the shim, and what the shim offers besides.
TwoWorkers ==
  [Workers |-> {"w1", "w2"}, Order |-> <<"w1", "w2">>, Cpus |-> {1, 2},
   CoreOf |-> [w \in {"w1", "w2"} |-> IF w = "w1" THEN 1 ELSE 2],
   MaxLoops |-> 2, MaxDepth |-> 2, MaxRounds |-> 3, MaxMoves |-> 1,
   UsesDetach |-> FALSE, UsesTimeout |-> FALSE]
Joining == TwoWorkers
Detaching ==
  [TwoWorkers EXCEPT !.MaxRounds = 2, !.UsesDetach = TRUE, !.UsesTimeout = TRUE]

CheckedHarnesses == {AllTests, OneTest, Uneven}
CheckedShims == {Joining, Detaching}
=============================================================================
