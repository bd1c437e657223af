----------------------------- MODULE MCPrimitives -----------------------------
(***************************************************************************)
(* What the rings are built from: the sequences of Sequence.h in the ways  *)
(* they are used, and the loops in which threads wait.  They share         *)
(* nothing: "part" says which of them a behaviour is about and "use" which *)
(* use of a sequence; the variables of the other are Nothing.              *)
(***************************************************************************)
EXTENDS Integers, Sequences

CONSTANTS
  Uses,     \* the uses of a sequence: records of the constants of SequenceBase,
            \* and whether the threads are "scheduled"
  Nothing

VARIABLES
  part, use,
  build, value, lock, seqPc, oldValue, newValue, seen, since, seqResult, calls,
  os, loop, other, loop_count, work, gap

ownSequence == <<build, value, lock, seqPc, oldValue, newValue, seen, since, seqResult, calls>>
ownWait == <<os, loop, other, loop_count, work, gap>>
primitiveVars == <<part, use, ownSequence, ownWait>>

\* A sequence used as u says.
Sequence(u) == INSTANCE SequenceBase
  WITH pc <- seqPc, result <- seqResult,
       Builds <- u.Builds, WordModulus <- u.WordModulus, Claimers <- u.Claimers,
       Owners <- u.Owners, Readers <- u.Readers, WriteOp <- u.WriteOp, ReadOp <- u.ReadOp,
       LastValue <- u.LastValue, MaxReads <- u.MaxReads

TaskLoops ==
  {"push_task_spin2", "push_task_spin3", "push_task_disruptor", "push_task_disruptorEx",
   "pop_task_spin2", "pop_task_spin3", "pop_task_disruptor", "pop_task_disruptorEx",
   "only_push_spin2", "only_push_disruptor", "only_push_disruptorEx",
   "only_pop_spin2", "only_pop_disruptor", "only_pop_disruptorEx",
   "single_push_task", "single_pop_task"}
LockLoops ==
  {"waitFor", "waitForEx", "waitForOld", "seq_spin_wait", "spin_push", "spin_pop",
   "spin1_push", "spin1_pop", "spin2_push", "spin2_pop", "spin2_push_", "spin3_push",
   "spin3_pop", "spin8_push", "spin8_pop", "spin9_push", "spin9_pop",
   "old_spin_push", "old_spin_pop", "SpinMutexLock", "SpinMutexYield"}

\* The other becomes ready while the count is small, about a sleep of a
\* millisecond, or before the count wraps.
Wait == INSTANCE WaitLoops
  WITH Platforms <- {"linux", "windows", "mingw"}, Loops <- TaskLoops \cup LockLoops,
       Sleep_1_Intervals <- {0, 32}, YieldThresholds <- {0, 5}, SPIN9_PAUSES <- 60,
       WORK <- 1, CountModulus <- 128,
       StartCounts <- (0..6) \cup (62..70) \cup (124..127)

ASSUME UsesAssumption == \A u \in Uses : Sequence(u)!SequenceAssumption
ASSUME WaitAssumption == Wait!LoopAssumption

-------------------------------------------------------------------------------

NoSequence ==
  /\ use = Nothing /\ build = Nothing /\ value = Nothing /\ lock = Nothing
  /\ seqPc = Nothing /\ oldValue = Nothing /\ newValue = Nothing /\ seen = Nothing
  /\ since = Nothing /\ seqResult = Nothing /\ calls = Nothing
NoWait ==
  /\ os = Nothing /\ loop = Nothing /\ other = Nothing /\ loop_count = Nothing
  /\ work = Nothing /\ gap = Nothing

\* The behaviour is one of a sequence used as u says.
IsSequence(u) == part = "sequence" /\ use = u

PrimitivesInit ==
  \/ \E u \in Uses : IsSequence(u) /\ Sequence(u)!Init /\ NoWait
  \/ part = "wait" /\ Wait!Init /\ NoSequence

KeepSequence == UNCHANGED <<part, use, ownWait>>
KeepWait == UNCHANGED <<part, use, ownSequence>>

\* A sequence is used up when its bounds are, a wait is over when the other has
\* run.
Ends == UNCHANGED primitiveVars

PrimitivesNext ==
  \/ \E u \in Uses : IsSequence(u) /\ Sequence(u)!Next /\ KeepSequence
  \/ part = "wait" /\ Wait!Next /\ KeepWait
  \/ Ends

\* Every thread at a sequence is scheduled.
CallerScheduled(u, t) == IsSequence(u) /\ Sequence(u)!Step(t) /\ KeepSequence
PrimitivesFairness ==
  \A u \in {v \in Uses : v.scheduled} :
    \A t \in Sequence(u)!Callers : WF_primitiveVars(CallerScheduled(u, t))

PrimitivesSpec == PrimitivesInit /\ [][PrimitivesNext]_primitiveVars /\ PrimitivesFairness

-------------------------------------------------------------------------------
(* Properties                                                               *)

\* A sequence: every variable stays within its type, and seq_spinlock is held by
\* one access at a time, exactly while that access is under way.
PrimitivesInv ==
  \A u \in Uses : IsSequence(u) => Sequence(u)!TypeOK /\ Sequence(u)!SpinLockExclusive

\* getOrder returns a value some thread wrote, no older than the newest complete
\* before the call, in the 32-bit builds too, which access a sequence word by
\* word; and so does get in the others.
ReadFresh == \A u \in Uses : IsSequence(u) => Sequence(u)!ReadFresh

\* Every compareAndSwap that succeeds moves the sequence by one, and no two get the
\* same value, also as three plain accesses under seq_spinlock; and the writers of
\* a sequence leave in it what one of them wrote last.
NoWriteLost ==
  \A u \in Uses : IsSequence(u) =>
    Sequence(u)!ClaimsCounted /\ Sequence(u)!ClaimsApart /\ Sequence(u)!FinalWrite

\* A thread that waits in any loop of the repository lets the thread it waits for
\* run within a bounded number of passes, if its loop has a call that reaches it;
\* and a SpinMutex::lock with NeedReset starts its count again after each Sleep(1).
BoundedGap ==
  [][part = "wait" =>
       /\ Wait!BoundedGap'
       /\ Wait!RestartsOf(loop) /\ Wait!Sleeps1 => loop_count' < loop_count]_primitiveVars

\* Every call of a sequence that is scheduled returns: the loop of seq_spinlock ends,
\* whoever holds the lock, and so does the exchange loop of setOrder in the 32-bit
\* build, when the sequence has one writer.  (Each of two may keep finding the
\* other's value where its own load was: CacheLive leaves that build out.)
CallsReturn ==
  \A u \in {v \in Uses : v.scheduled} :
    \A t \in Sequence(u)!Callers : []<>(IsSequence(u) => seqPc[t] = "idle")

-------------------------------------------------------------------------------
(* The instances that are checked *)

AllBuilds == {"x64", "i386", "x64_lock", "i386_lock"}

\* cursor and workSequence: claimed by two threads, read by a third.
Claims ==
  [Builds |-> AllBuilds, WordModulus |-> 4, Claimers |-> {"w1", "w2"}, Owners |-> {},
   Readers |-> {"r1"}, WriteOp |-> "setOrder", ReadOp |-> "getOrder",
   LastValue |-> 2, MaxReads |-> 1, scheduled |-> FALSE]

\* A gating sequence: one owner; as Sequence.h offers it, and as the rings call it.
Gating ==
  [Claims EXCEPT !.Claimers = {}, !.Owners = {"w1"}, !.LastValue = 4, !.MaxReads = 3]
GatingPlain == [Gating EXCEPT !.WriteOp = "set", !.ReadOp = "get"]

\* The same, scheduled: its setOrder loops in the build "i386".
GatingLive == [Gating EXCEPT !.LastValue = 2, !.MaxReads = 2, !.scheduled = TRUE]

\* gatingSequenceCache: two writers.
Cache == [Claims EXCEPT !.Claimers = {}, !.Owners = {"w1", "w2"}, !.Readers = {}]

\* The same, scheduled, in the builds whose setOrder does not loop.
CacheLive ==
  [Cache EXCEPT !.Builds = AllBuilds \ {"i386"}, !.Readers = {"r1"}, !.LastValue = 1,
                !.scheduled = TRUE]

CheckedUses == {Claims, Gating, GatingPlain, GatingLive, Cache, CacheLive}
===============================================================================
