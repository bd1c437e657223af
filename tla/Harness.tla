-------------------------------- MODULE Harness --------------------------------
(***************************************************************************)
(* The test program of src/RingQueue/main.cpp: main runs one test after    *)
(* another; a test resets the globals, starts its tasks, joins them and    *)
(* verifies what they recorded.  The tests share popmsg_list,              *)
(* dis_popevent_list and the totals.  A queue is the FIFO of BoundedQueue, *)
(* which the modules of the queues refine; a task's call that fails is a   *)
(* stuttering step.  calloc and malloc succeed.                            *)
(***************************************************************************)
EXTENDS Naturals, Sequences, FiniteSets

CONSTANTS
  PUSH_CNT, POP_CNT, MAX_MSG_COUNT, QSIZE,   \* of test.h
  TEST_FUNC_TYPE,        \* 0: every test; otherwise the one main repeats
  USE_DOUBAN_QUEUE, USE_THREAD_AFFINITY,     \* BOOLEAN
  SOCKET_TOP,            \* number of entries of socket_top, 31 in the code
  MayFail                \* pthread_create may fail

HarnessAssumption ==
  /\ PUSH_CNT \in 1..MAX_MSG_COUNT /\ POP_CNT \in 1..MAX_MSG_COUNT
  /\ MAX_MSG_COUNT \in Nat /\ QSIZE \in Nat \ {0}
  /\ TEST_FUNC_TYPE \in 0..11 /\ SOCKET_TOP \in Nat
  /\ {USE_DOUBAN_QUEUE, USE_THREAD_AFFINITY, MayFail} \subseteq BOOLEAN

MAX_PUSH_MSG_COUNT == MAX_MSG_COUNT \div PUSH_CNT
MAX_POP_MSG_COUNT == MAX_MSG_COUNT \div POP_CNT

\* Places of popmsg_list and of dis_popevent_list, row after row.
Places == 0..(POP_CNT * MAX_POP_MSG_COUNT - 1)
Messages == 1..MAX_MSG_COUNT

VARIABLES
  pc,           \* where main is
  n,            \* the test main is in
  i,            \* its loop counter over kids
  kids,         \* the test's thread handles; NoKid is the zero of the array
  running,      \* the tasks that have not returned, by thread
  queue,        \* the messages in the test's queue
  popmsg_list, dis_popevent_list,
  push_total, pop_total, quit,
  overrun,      \* the tests that recorded an entry beyond the end of a list
  report        \* what the test's verify counted

vars == <<pc, n, i, kids, running, queue, popmsg_list, dis_popevent_list,
          push_total, pop_total, quit, overrun, report>>

NoKid == <<0, 0>>
NoReport == [empty |-> 0, overlay |-> 0, correct |-> 0]

-----------------------------------------------------------------------------
(* The tasks and the tests *)

DisruptorTypes == {10, 11}
KnownTypes == {1, 2, 3, 4, 5, 6, 7, 9} \union DisruptorTypes

\* A producer's messages, what it adds to push_total, and whether it then
\* reads that again.  A function type with no branch pushes nothing.
RingQueue_push_task(funcType) ==
  [quota |-> IF funcType \in KnownTypes THEN MAX_PUSH_MSG_COUNT ELSE 0,
   adds |-> MAX_PUSH_MSG_COUNT, setsQuit |-> TRUE]
push_task ==
  [quota |-> MAX_PUSH_MSG_COUNT, adds |-> MAX_PUSH_MSG_COUNT, setsQuit |-> TRUE]
single_push_task ==
  [quota |-> MAX_MSG_COUNT, adds |-> MAX_MSG_COUNT, setsQuit |-> FALSE]

\* Mutant: the consumer counts after it has compared.
PopTaskLate(funcType) ==
  [quota |-> MAX_POP_MSG_COUNT + 1, events |-> funcType \in DisruptorTypes]

\* The messages a consumer waits for, and the list it records them in.
\* Without a branch for the function type the consumers of the program of all
\* tests return, those of a program of one test poll NULL forever.
RingQueue_pop_task(funcType) ==
  [quota |-> IF funcType \in KnownTypes \/ TEST_FUNC_TYPE # 0
             THEN MAX_POP_MSG_COUNT ELSE 0,
   events |-> funcType \in DisruptorTypes]
pop_task == [quota |-> MAX_POP_MSG_COUNT, events |-> FALSE]
single_pop_task == [quota |-> MAX_MSG_COUNT, events |-> TRUE]

\* The tests: how many of which tasks, and which list is verified.
RingQueue_Test(funcType) ==
  [kind |-> "multi", producers |-> PUSH_CNT, consumers |-> POP_CNT,
   push |-> RingQueue_push_task(funcType), pop |-> RingQueue_pop_task(funcType),
   verifiesEvents |-> funcType \in DisruptorTypes]
q3_test ==
  [kind |-> "q3", producers |-> PUSH_CNT, consumers |-> POP_CNT,
   push |-> push_task, pop |-> pop_task, verifiesEvents |-> FALSE]
SingleProducerSingleConsumer_Test ==
  [kind |-> "single", producers |-> 1, consumers |-> 1,
   push |-> single_push_task, pop |-> single_pop_task, verifiesEvents |-> TRUE]
SerialRingQueue_Test ==
  [kind |-> "serial", producers |-> 0, consumers |-> 0, verifiesEvents |-> TRUE]

\* main: the tests in the order it calls them.
Program ==
  <<SerialRingQueue_Test, SingleProducerSingleConsumer_Test>>
  \o (IF TEST_FUNC_TYPE = 0
      THEN [k \in 1..5 |-> RingQueue_Test(<<1, 2, 3, 10, 11>>[k])]
      ELSE [k \in 1..3 |-> RingQueue_Test(TEST_FUNC_TYPE)])
  \o (IF USE_DOUBAN_QUEUE THEN <<q3_test>> ELSE << >>)

Message(idx, k) == idx * MAX_PUSH_MSG_COUNT + k + 1

-----------------------------------------------------------------------------
(* The verifiers *)

Times(list, m) == Cardinality({p \in DOMAIN list : list[p] = m})

\* What both verifiers count.
Verify(list) ==
  [empty   |-> Cardinality({m \in Messages : Times(list, m) = 0}),
   overlay |-> Cardinality({m \in Messages : Times(list, m) > 1}),
   correct |-> Cardinality({m \in Messages : Times(list, m) = 1})]

pop_list_verify == Verify(popmsg_list)
disruptor_pop_list_verify == Verify(dis_popevent_list)

Blank == [p \in Places |-> 0]

-----------------------------------------------------------------------------
(* main *)

Init ==
  /\ pc = "next" /\ n = 0 /\ i = 0
  /\ kids = << >> /\ running = << >> /\ queue = << >>
  /\ popmsg_list = Blank /\ dis_popevent_list = Blank
  /\ push_total = 0 /\ pop_total = 0 /\ quit = 0
  /\ overrun = {} /\ report = NoReport

init_globals == push_total' = 0 /\ pop_total' = 0 /\ quit' = 0

\* Mutant: the lists of the previous test stay.
PopListKeep == UNCHANGED <<popmsg_list, dis_popevent_list>>
pop_list_reset == popmsg_list' = Blank /\ dis_popevent_list' = Blank

\* A test begins: its queues are new and its handles zero.
BeginTest ==
  /\ pc = "next" /\ n < Len(Program)
  /\ Program[n + 1].kind # "serial"
  /\ n' = n + 1 /\ i' = 0
  /\ kids' = [k \in 0..(Program[n + 1].producers + Program[n + 1].consumers - 1) |-> NoKid]
  /\ queue' = << >>
  /\ init_globals /\ pop_list_reset
  /\ report' = NoReport
  /\ pc' = "start"
  /\ UNCHANGED <<running, overrun>>

\* SerialRingQueue_Test: main alone moves every message, in order, writing
\* dis_popevent_list from its first entry on (module SerialRingQueue).
SerialTest ==
  /\ pc = "next" /\ n < Len(Program)
  /\ Program[n + 1].kind = "serial"
  /\ n' = n + 1
  /\ init_globals
  /\ popmsg_list' = Blank
  /\ dis_popevent_list' = [p \in Places |-> p + 1]
  /\ overrun' = overrun \union (IF MAX_MSG_COUNT > Cardinality(Places) THEN {n + 1} ELSE {})
  /\ report' = Verify(dis_popevent_list')
  /\ kids' = << >> /\ queue' = << >>
  /\ UNCHANGED <<pc, i, running>>

\* The test main is in.
Current == Program[n]

NewTask(id) ==
  LET pusher == id < Current.producers IN
  [role  |-> IF pusher THEN "push" ELSE "pop",
   idx   |-> IF pusher THEN id ELSE id - Current.producers,
   count |-> 0,
   added |-> FALSE]

\* What becomes of thread id.  The return value is ignored;
\* pthread_setaffinity_np may fail after the thread was created and its
\* handle stored.
RingQueue_start_thread(id) ==
  IF USE_THREAD_AFFINITY /\ id >= SOCKET_TOP THEN {"refused"}
  ELSE {"created"} \union (IF MayFail THEN {"refused"} ELSE {})
start_thread(id) ==
  IF USE_THREAD_AFFINITY /\ id >= SOCKET_TOP THEN {"refused"}
  ELSE {"created"} \union (IF MayFail THEN {"refused"} ELSE {})

StartOutcomes(id) ==
  IF Current.kind = "q3" THEN start_thread(id) ELSE RingQueue_start_thread(id)

StartTask ==
  /\ pc = "start" /\ i \in DOMAIN kids
  /\ \E outcome \in StartOutcomes(i) :
       IF outcome = "created"
       THEN /\ kids' = [kids EXCEPT ![i] = <<n, i + 1>>]
            /\ running' = [k \in DOMAIN running \union {<<n, i + 1>>} |->
                             IF k \in DOMAIN running THEN running[k] ELSE NewTask(i)]
       ELSE UNCHANGED <<kids, running>>
  /\ i' = i + 1
  /\ UNCHANGED <<pc, n, queue, popmsg_list, dis_popevent_list, push_total, pop_total,
                 quit, overrun, report>>

AllStarted ==
  /\ pc = "start" /\ i \notin DOMAIN kids
  /\ pc' = "join" /\ i' = 0
  /\ UNCHANGED <<n, kids, running, queue, popmsg_list, dis_popevent_list, push_total,
                 pop_total, quit, overrun, report>>

\* Mutant: the producers' handles only.
JoinedProducers == {k \in DOMAIN kids : k < Current.producers}

\* Handles the test joins.  disRingQueue.shutdown(), between the producers
\* and the consumers, does nothing.
Joined == DOMAIN kids

\* pthread_join returns when the thread has; with a zero handle it returns
\* an error or faults.
Join ==
  /\ pc = "join" /\ i \in Joined
  /\ kids[i] \notin DOMAIN running
  /\ IF kids[i] = NoKid
     THEN (pc' = "join" /\ i' = i + 1) \/ (pc' = "faulted" /\ i' = i)
     ELSE pc' = "join" /\ i' = i + 1
  /\ UNCHANGED <<n, kids, running, queue, popmsg_list, dis_popevent_list, push_total,
                 pop_total, quit, overrun, report>>

\* The verify of the test, and its return.
EndTest ==
  /\ pc = "join" /\ i \notin Joined
  /\ report' = IF Current.verifiesEvents THEN disruptor_pop_list_verify ELSE pop_list_verify
  /\ pc' = "next" /\ i' = 0
  /\ UNCHANGED <<n, kids, running, queue, popmsg_list, dis_popevent_list, push_total,
                 pop_total, quit, overrun>>

\* main returns.
Done ==
  /\ pc = "next" /\ n = Len(Program)
  /\ pc' = "done"
  /\ UNCHANGED <<n, i, kids, running, queue, popmsg_list, dis_popevent_list, push_total,
                 pop_total, quit, overrun, report>>

-----------------------------------------------------------------------------
(* The tasks *)

mainVars == <<pc, n, i, kids, report>>

TestOf(k) == Program[k[1]]
Return(k) == running' = [j \in DOMAIN running \ {k} |-> running[j]]
Count(k) == running' = [running EXCEPT ![k].count = running[k].count + 1]

\* A push that succeeds.
TaskPush(k) ==
  /\ running[k].role = "push" /\ running[k].count < TestOf(k).push.quota
  /\ Len(queue) < QSIZE
  /\ queue' = Append(queue, Message(running[k].idx, running[k].count))
  /\ Count(k)
  /\ UNCHANGED <<mainVars, popmsg_list, dis_popevent_list, push_total, pop_total, quit,
                 overrun>>

\* The task adds what it should have pushed; single_push_task then returns.
TaskPushTotal(k) ==
  /\ running[k].role = "push" /\ running[k].count = TestOf(k).push.quota
  /\ ~running[k].added
  /\ push_total' = push_total + TestOf(k).push.adds
  /\ IF TestOf(k).push.setsQuit
     THEN running' = [running EXCEPT ![k].added = TRUE]
     ELSE Return(k)
  /\ UNCHANGED <<mainVars, queue, popmsg_list, dis_popevent_list, pop_total, quit, overrun>>

\* push_total is read again, and the task returns.
TaskPushQuit(k) ==
  /\ running[k].role = "push" /\ running[k].added
  /\ quit' = IF push_total = MAX_MSG_COUNT THEN 1 ELSE quit
  /\ Return(k)
  /\ UNCHANGED <<mainVars, queue, popmsg_list, dis_popevent_list, push_total, pop_total,
                 overrun>>

\* Where a consumer of index idx records its message after k others.
Place(idx, k) == idx * MAX_POP_MSG_COUNT + k

\* A pop that succeeds.
TaskPop(k) ==
  LET place == Place(running[k].idx, running[k].count) IN
  /\ running[k].role = "pop" /\ running[k].count < TestOf(k).pop.quota
  /\ queue # << >>
  /\ queue' = Tail(queue)
  /\ IF place \notin Places
     THEN overrun' = overrun \union {k[1]} /\ UNCHANGED <<popmsg_list, dis_popevent_list>>
     ELSE /\ UNCHANGED overrun
          /\ IF TestOf(k).pop.events
             THEN /\ dis_popevent_list' = [dis_popevent_list EXCEPT ![place] = Head(queue)]
                  /\ UNCHANGED popmsg_list
             ELSE /\ popmsg_list' = [popmsg_list EXCEPT ![place] = Head(queue)]
                  /\ UNCHANGED dis_popevent_list
  /\ Count(k)
  /\ UNCHANGED <<mainVars, push_total, pop_total, quit>>

TaskPopTotal(k) ==
  /\ running[k].role = "pop" /\ running[k].count = TestOf(k).pop.quota
  /\ pop_total' = pop_total + running[k].count
  /\ Return(k)
  /\ UNCHANGED <<mainVars, queue, popmsg_list, dis_popevent_list, push_total, quit, overrun>>

-----------------------------------------------------------------------------

Main == BeginTest \/ SerialTest \/ StartTask \/ AllStarted \/ Join \/ EndTest \/ Done

Task(k) ==
  \/ TaskPush(k) \/ TaskPushTotal(k) \/ TaskPushQuit(k)
  \/ TaskPop(k) \/ TaskPopTotal(k)

Next == Main \/ \E k \in DOMAIN running : Task(k)

Spec == Init /\ [][Next]_vars

\* Every thread of the program.
ThreadHandles == (1..Len(Program)) \X (1..(PUSH_CNT + POP_CNT))

-----------------------------------------------------------------------------
(* Properties *)

TypeOK ==
  /\ pc \in {"next", "start", "join", "done", "faulted"}
  /\ n \in 0..Len(Program) /\ i \in 0..(PUSH_CNT + POP_CNT)
  /\ \A k \in DOMAIN kids : kids[k] \in ThreadHandles \union {NoKid}
  /\ \A k \in DOMAIN running :
       running[k] \in [role : {"push", "pop"}, idx : Nat, count : Nat, added : BOOLEAN]
  /\ queue \in Seq(Messages) /\ Len(queue) <= QSIZE
  /\ {popmsg_list, dis_popevent_list} \subseteq [Places -> {0} \union Messages]
  /\ overrun \subseteq 1..n
  /\ push_total \in 0..MAX_MSG_COUNT /\ pop_total \in 0..MAX_MSG_COUNT /\ quit \in {0, 1}

\* No task outlives its test: the queues are locals of the test function and
\* the lists belong to the next test, so every thread that was created must
\* be joined, also when another one could not be.
NoTaskOutlivesTest ==
  \A k \in DOMAIN running : k[1] = n /\ pc \in {"start", "join", "faulted"}

\* A test has reported; main has not begun the next.
Reported == pc = "next" /\ n > 0 /\ report # NoReport
EveryTaskStarted == \A k \in DOMAIN kids : kids[k] # NoKid
Delivered == Current.consumers * Current.pop.quota

\* The verifier's figures are those of this test: when every task started,
\* each message the consumers recorded in the lists is counted once and no
\* other, whatever the consumers of the tests before left there.
ReportExact ==
  Reported /\ EveryTaskStarted =>
    report = [empty   |-> MAX_MSG_COUNT - Cardinality(Places), overlay |-> 0,
              correct |-> Cardinality(Places)]

\* A test in which a task could not be started never reports that every
\* message arrived (the return value of the start functions is ignored, the
\* verifier is the only witness).
NoFalseReport ==
  Reported /\ ~EveryTaskStarted => report.correct < MAX_MSG_COUNT /\ report.overlay = 0

\* When main reads the totals every task has added its own: they are the
\* messages of this test alone.
TotalsExact ==
  Reported /\ Current.kind # "serial" /\ EveryTaskStarted =>
    /\ pop_total = Delivered
    /\ push_total = Current.producers * Current.push.adds
    /\ quit = 1 => push_total = MAX_MSG_COUNT

\* The lists are written within their bounds, except by the two tests that
\* record every message from the first row on when POP_CNT does not divide
\* the number of messages.
OverrunOnlyIfUneven ==
  \A k \in overrun : /\ MAX_MSG_COUNT % POP_CNT # 0
                       /\ Program[k].kind \in {"serial", "single"}

\* main has gone through all its tests.
Finished == pc = "done"
=============================================================================
