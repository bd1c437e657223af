----------------------------- MODULE MCOtherRings -----------------------------
(***************************************************************************)
(* The rings of this repository besides RingQueueBase and the disruptors   *)
(* (of q3.h the liveness only), each on small instances of its own.  They share nothing: "system" says  *)
(* which of them a behaviour is about, and the variables the others have   *)
(* keep the value NULL.                                                    *)
(***************************************************************************)
EXTENDS Naturals, Sequences

CONSTANTS p1, p2, c1, c2, NULL, STALE

VARIABLES
  system,
  head, tail, pc, entries, sent, got, lapped,              \* of several rings
  headSequence, tailSequence, pushed, record_list,         \* SingleRingQueue
  remain, i, pushing, step, push_cnt, popEventList,        \* SerialRingQueue
  funcType, sequence_type, spin_mutex, queue_mutex, h, t, popped,  \* OldLockedRing
  q, l_head, l_tail, m,                                    \* MqQueue
  msgs, list, next, index, place, item, seen, overflowed, reused,  \* ListQueue
  p_head, p_tail, c_head, c_tail, ret, popmsg_list         \* DoubanQueue

ownSingle == <<headSequence, tailSequence, pushed, record_list>>
ownSerial == <<remain, i, pushing, step, push_cnt, popEventList>>
ownOld    == <<funcType, sequence_type, spin_mutex, queue_mutex, h, t, popped>>
ownMq     == <<q, l_head, l_tail, m>>
ownList   == <<msgs, list, next, index, place, item, seen, overflowed, reused>>
ownDouban == <<p_head, p_tail, c_head, c_tail, ret, popmsg_list>>
vars == <<system, head, tail, pc, entries, sent, got, lapped,
          ownSingle, ownSerial, ownOld, ownMq, ownList, ownDouban>>

\* Two laps of the indices and a half.
Single == INSTANCE SingleRingQueue
  WITH kCapacity <- 4, IndexModulus <- 8, MAX_MSG_COUNT <- 20

\* Fewer messages than the index has values.
SingleShort == INSTANCE SingleRingQueue
  WITH kCapacity <- 4, IndexModulus <- 16, MAX_MSG_COUNT <- 15

\* Rounds of eight calls, the last one shorter.
Serial == INSTANCE SerialRingQueue
  WITH kCapacity <- 8, QSIZE <- 8, MAX_STEP <- 16, IndexModulus <- 128, MAX_MSG_CNT <- 100

\* Clear of the wrap of the words and of the sign change of the locals ...
OldClear == INSTANCE OldLockedRing
  WITH kCapacity <- 2, IndexModulus <- 16, StartIndices <- {0, 8},
       Producers <- {p1, p2}, Consumers <- {c1, c2},
       MAX_PUSH_MSG_COUNT <- 2, MAX_POP_MSG_COUNT <- 2,
       SequenceTypes <- {"int64_t", "int32_t"}, FuncTypes <- {"spin", "mutex"}

\* ... and across each of them.
OldAcross == INSTANCE OldLockedRing
  WITH kCapacity <- 2, IndexModulus <- 16, StartIndices <- {6, 14},
       Producers <- {p1, p2}, Consumers <- {c1, c2},
       MAX_PUSH_MSG_COUNT <- 3, MAX_POP_MSG_COUNT <- 2,
       SequenceTypes <- {"int64_t", "int32_t"}, FuncTypes <- {"spin", "mutex"}

\* One consumer, and two of which one can fall a lap behind.
MqOne == INSTANCE MqQueue
  WITH kCapacity <- 2, IndexModulus <- 8, StartIndex <- 5, MessagesEach <- 3,
       Producers <- {p1, p2}, Consumers <- {c1}
MqTwo == INSTANCE MqQueue
  WITH kCapacity <- 2, IndexModulus <- 8, StartIndex <- 5, MessagesEach <- 5,
       Producers <- {p1}, Consumers <- {c1, c2}

ListOne == INSTANCE ListQueue
  WITH kCapacity <- 2, IndexModulus <- 16, StartIndex <- 13, MessagesEach <- 2,
       MaxClaims <- 7, Producers <- {p1, p2}, Consumers <- {c1}
ListTwo == INSTANCE ListQueue
  WITH kCapacity <- 2, IndexModulus <- 16, StartIndex <- 13, MessagesEach <- 3,
       MaxClaims <- 4, Producers <- {p1}, Consumers <- {c1, c2}

\* Both indices wrap, and both locals of a thread go stale.
Douban == INSTANCE DoubanQueue
  WITH kCapacity <- 4, IndexModulus <- 8, StartIndex <- 6,
       Producers <- {p1, p2}, Consumers <- {c1, c2},
       MAX_PUSH_MSG_COUNT <- 2, MAX_POP_MSG_COUNT <- 2

ASSUME InstanceAssumption ==
  /\ Single!QuotaAssumption /\ SingleShort!QuotaAssumption /\ Serial!SizeAssumption
  /\ OldClear!OldAssumption /\ OldAcross!OldAssumption
  /\ MqOne!MqAssumption /\ MqTwo!MqAssumption
  /\ ListOne!ListAssumption /\ ListTwo!ListAssumption
  /\ Douban!ThreadAssumption /\ Douban!QuotaAssumption /\ Douban!LapAssumption

-------------------------------------------------------------------------------

NoSingle == headSequence = NULL /\ tailSequence = NULL /\ pushed = NULL /\ record_list = NULL
NoSerial == /\ remain = NULL /\ i = NULL /\ pushing = NULL /\ step = NULL
            /\ push_cnt = NULL /\ popEventList = NULL
NoOld == /\ funcType = NULL /\ sequence_type = NULL /\ spin_mutex = NULL
         /\ queue_mutex = NULL /\ h = NULL /\ t = NULL /\ popped = NULL
NoMq == q = NULL /\ l_head = NULL /\ l_tail = NULL /\ m = NULL
NoList == /\ msgs = NULL /\ list = NULL /\ next = NULL /\ index = NULL /\ place = NULL
          /\ item = NULL /\ seen = NULL /\ overflowed = NULL /\ reused = NULL
NoDouban == /\ p_head = NULL /\ p_tail = NULL /\ c_head = NULL /\ c_tail = NULL
            /\ ret = NULL /\ popmsg_list = NULL

MCInit ==
  \/ /\ \/ system = "Single" /\ Single!Init
        \/ system = "SingleShort" /\ SingleShort!Init
     /\ sent = NULL /\ got = NULL /\ lapped = NULL
     /\ NoSerial /\ NoOld /\ NoMq /\ NoList /\ NoDouban
  \/ /\ system = "Serial" /\ Serial!Init
     /\ head = NULL /\ tail = NULL /\ pc = NULL /\ sent = NULL /\ got = NULL /\ lapped = NULL
     /\ pushed = NULL /\ record_list = NULL
     /\ NoOld /\ NoMq /\ NoList /\ NoDouban
  \/ /\ \/ system = "OldClear" /\ OldClear!Init
        \/ system = "OldAcross" /\ OldAcross!Init
     /\ got = NULL /\ lapped = NULL
     /\ NoSingle /\ NoSerial /\ NoMq /\ NoList /\ NoDouban
  \/ /\ \/ system = "MqOne" /\ MqOne!Init
        \/ system = "MqTwo" /\ MqTwo!Init
     /\ entries = NULL
     /\ NoSingle /\ NoSerial /\ NoOld /\ NoList /\ NoDouban
  \/ /\ \/ system = "ListOne" /\ ListOne!Init
        \/ system = "ListTwo" /\ ListTwo!Init
     /\ entries = NULL
     /\ NoSingle /\ NoSerial /\ NoOld /\ NoMq /\ NoDouban
  \/ /\ system = "Douban" /\ Douban!Init
     /\ head = NULL /\ tail = NULL /\ entries = NULL /\ got = NULL /\ lapped = NULL
     /\ list = NULL /\ next = NULL /\ index = NULL /\ place = NULL
     /\ item = NULL /\ seen = NULL /\ overflowed = NULL /\ reused = NULL
     /\ funcType = NULL /\ sequence_type = NULL /\ spin_mutex = NULL
     /\ queue_mutex = NULL /\ t = NULL /\ popped = NULL
     /\ NoSingle /\ NoSerial /\ NoMq

\* What no step of a ring changes: the variables of the others.
KeepSingle == UNCHANGED <<system, sent, got, lapped, ownSerial, ownOld, ownMq, ownList,
                          ownDouban>>
KeepSerial == UNCHANGED <<system, head, tail, pc, sent, got, lapped, pushed, record_list,
                          ownOld, ownMq, ownList, ownDouban>>
KeepOld == UNCHANGED <<system, got, lapped, ownSingle, ownSerial, ownMq, ownList, ownDouban>>
KeepMq == UNCHANGED <<system, entries, ownSingle, ownSerial, ownOld, ownList, ownDouban>>
KeepList == UNCHANGED <<system, entries, ownSingle, ownSerial, ownOld, ownMq, ownDouban>>
KeepDouban == UNCHANGED <<system, head, tail, entries, got, lapped, ownSingle, ownSerial,
                          funcType, sequence_type, spin_mutex, queue_mutex, t, popped, ownMq,
                          list, next, index, place, item, seen, overflowed, reused>>

\* q.h is used up when its bounds are.
ListEnds == system \in {"ListOne", "ListTwo"} /\ UNCHANGED vars

MCNext ==
  \/ system = "Single" /\ Single!Next /\ KeepSingle
  \/ system = "SingleShort" /\ SingleShort!Next /\ KeepSingle
  \/ system = "Serial" /\ Serial!Next /\ KeepSerial
  \/ system = "OldClear" /\ OldClear!Next /\ KeepOld
  \/ system = "OldAcross" /\ OldAcross!Next /\ KeepOld
  \/ system = "MqOne" /\ MqOne!Next /\ KeepMq
  \/ system = "MqTwo" /\ MqTwo!Next /\ KeepMq
  \/ system = "ListOne" /\ ListOne!Next /\ KeepList
  \/ system = "ListTwo" /\ ListTwo!Next /\ KeepList
  \/ system = "Douban" /\ Douban!Next /\ KeepDouban
  \/ ListEnds

\* The scheduler runs every thread that can take a step.
Scheduled(th) ==
  \/ system = "SingleShort" /\ th = p1 /\ SingleShort!push /\ KeepSingle
  \/ system = "SingleShort" /\ th = c1 /\ SingleShort!pop /\ KeepSingle
  \/ system = "MqOne" /\ th \in {p1, p2} /\ MqOne!Push(th) /\ KeepMq
  \/ system = "MqOne" /\ th = c1 /\ MqOne!Pop(th) /\ KeepMq
  \/ system = "ListOne" /\ th \in {p1, p2}
     /\ (ListOne!StartPush(th) \/ ListOne!Push(th)) /\ KeepList
  \/ system = "ListOne" /\ th = c1 /\ (ListOne!Pop(th) \/ ListOne!Push(th)) /\ KeepList
  \/ system = "Douban" /\ th \in {p1, p2} /\ Douban!Push(th) /\ KeepDouban
  \/ system = "Douban" /\ th \in {c1, c2} /\ Douban!Pop(th) /\ KeepDouban

MCSpec == MCInit /\ [][MCNext]_vars /\ \A th \in {p1, p2, c1, c2} : WF_vars(Scheduled(th))

-------------------------------------------------------------------------------
(* Properties.                                                             *)

\* Every variable of the ring at hand stays within its type.
TypeOK ==
  CASE system = "Single" -> Single!TypeOK
    [] system = "SingleShort" -> SingleShort!TypeOK
    [] system = "Serial" -> Serial!TypeOK
    [] system = "OldClear" -> OldClear!TypeOK
    [] system = "OldAcross" -> OldAcross!TypeOK
    [] system = "MqOne" -> MqOne!TypeOK
    [] system = "MqTwo" -> MqTwo!TypeOK
    [] system = "ListOne" -> ListOne!TypeOK
    [] system = "ListTwo" -> ListTwo!TypeOK
    [] system = "Douban" -> Douban!TypeOK

\* SingleRingQueue at any index, the locked pairs of DisruptorRingQueueOld clear
\* of wrap and sign change, and mq.c with one consumer are bounded FIFO queues:
\* each step is one of the queue, or changes nothing of it.
RefinesBoundedQueue ==
  /\ /\ system = "Single" => Single!Abstract!Init
     /\ system = "OldClear" => OldClear!Abstract!Init
     /\ system = "MqOne" => MqOne!Abstract!Init
  /\ [][/\ system = "Single" => Single!Abstract!Next \/ UNCHANGED Single!Abstract!vars
        /\ system = "OldClear" => OldClear!Abstract!Next \/ UNCHANGED OldClear!Abstract!vars
        /\ system = "MqOne" => MqOne!Abstract!Next \/ UNCHANGED MqOne!Abstract!vars]_vars

\* DisruptorRingQueueOld, locked: only a ring whose 32-bit head has wrapped while
\* the locals have 64 bits takes more messages than it has slots, and a pop is
\* refused only by an empty ring, or by a full one that straddles the sign change
\* of its 32-bit locals.
FaultsForCause ==
  [][system = "OldAcross" => OldAcross!OverrunAllowed /\ OldAcross!RefusedForCause]_vars

\* Every message is in one place.  SingleRingQueue: no entry is being written and
\* copied at once.  mq.c: no message is given to two pops, and none is lost nor the
\* queue stopped for good as long as no pop took a slot a lap late.  q.h: it is in
\* the ring, in the list or in somebody's hands, and in one of them only, unless a
\* link was reused, which one consumer never does.
OnePlace ==
  /\ system = "Single" => Single!NoSlotRace
  /\ system = "MqTwo" => MqTwo!PoppedOnce /\ MqTwo!NothingLost /\ MqTwo!WedgedOnlyIfLapped
  /\ system = "ListOne" => ListOne!InOnePlace
  /\ system = "ListTwo" => ListTwo!InOnePlace /\ ListTwo!PoppedOnce

\* Messages arrive in the order of the pushes: in SerialRingQueue all of them and
\* without a gap after every round, although the test ignores calls that fail, and
\* in q.h those of one producer, until a push finds its slot taken.
OrderKept ==
  /\ system = "Serial" => Serial!PopListCorrect
  /\ system = "ListOne" => ListOne!OrderUntilOverflow
  /\ system = "ListTwo" => ListTwo!OrderUntilOverflow

\* Every message is popped in the end: in SingleRingQueue before its indices
\* wrap, in mq.c with one consumer, in q.h unless a push found its slot taken or
\* a thread was a lap behind, and in q3.h always: no thread waits for its turn for
\* ever, and a CAS that keeps failing means that somebody else's succeeds.
AllDelivered ==
  <>CASE system = "SingleShort" -> SingleShort!Finished
      [] system = "MqOne" -> MqOne!Finished
      [] system = "ListOne" -> ListOne!Finished
      [] system = "Douban" -> Douban!Finished
      [] OTHER -> TRUE
===============================================================================
