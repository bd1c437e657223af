------------------------------ MODULE PthreadShim ------------------------------
(***************************************************************************)
(* The pthread functions of src/RingQueue/msvc/pthread.c, written over     *)
(* those of Windows, as main.cpp and RingQueue.h call them: main starts    *)
(* workers, places each on a processor and joins it; the workers lock and  *)
(* unlock one mutex, a CRITICAL_SECTION.  Main may also detach a worker    *)
(* and join with a timeout, which the shim offers and nothing calls yet.   *)
(* The pthread_spin functions do nothing and are left out.                 *)
(***************************************************************************)
EXTENDS Naturals, FiniteSets

CONSTANTS
  Workers, Order,     \* the threads and the sequence main starts them in
  Cpus,               \* the processors of the system
  CoreOf,             \* the processor main asks for, by thread
  MaxLoops,           \* 10 in the code
  MaxDepth,           \* nested locks of one worker: a bound
  MaxRounds,          \* locks of one worker in all: a bound
  MaxMoves,           \* changes of the process's affinity by others: a bound
  UsesDetach, UsesTimeout  \* BOOLEAN: whether main makes such calls

Nobody == "nobody"

ShimAssumption ==
  /\ IsFiniteSet(Workers) /\ Workers # {} /\ Nobody \notin Workers
  /\ Order \in [1..Cardinality(Workers) -> Workers]
  /\ \A w \in Workers : \E k \in DOMAIN Order : Order[k] = w
  /\ Cpus # {} /\ CoreOf \in [Workers -> Cpus]
  /\ MaxLoops \in Nat /\ MaxDepth \in Nat \ {0} /\ MaxRounds \in Nat /\ MaxMoves \in Nat
  /\ {UsesDetach, UsesTimeout} \subseteq BOOLEAN

VARIABLES
  pc, k,         \* where main is, and in the call for which worker
  state,         \* of each worker's thread: none, running, ended, terminated
  owner, depth,  \* of the critical section
  holds,         \* the locks each worker was granted and has not given back
  rounds,        \* locks each worker has made
  processMask,   \* the processors the process may use
  seenMask,      \* dwProcessAffinity
  loop_cnt,
  placed,        \* the processors SetThreadAffinityMask gave a worker, {} for none
  returned,      \* what the last call for a worker returned
  moves

mainVars == <<pc, k, seenMask, loop_cnt, returned>>
lockVars == <<owner, depth, holds, rounds>>
vars == <<pc, k, state, owner, depth, holds, rounds, processMask, seenMask, loop_cnt,
          placed, returned, moves>>

W == Order[k]
Running(w) == state[w] = "running"

Init ==
  /\ pc = "create" /\ k = 1
  /\ state = [w \in Workers |-> "none"]
  /\ owner = Nobody /\ depth = 0
  /\ holds = [w \in Workers |-> 0] /\ rounds = [w \in Workers |-> 0]
  /\ processMask \in SUBSET Cpus \ {{}} /\ seenMask = {} /\ loop_cnt = 0
  /\ placed = [w \in Workers |-> {}]
  /\ returned = [w \in Workers |-> "none"]
  /\ moves = 0

\* main's loop goes on to the next worker, or to what follows the loop.
Advance(from, after) ==
  IF k < Cardinality(Workers) THEN pc' = from /\ k' = k + 1 ELSE pc' = after /\ k' = 1

-----------------------------------------------------------------------------
(* Starting a thread *)

\* _beginthreadex may fail: start_thread returns -1 at once.
pthread_create ==
  /\ pc = "create"
  /\ \/ /\ state' = [state EXCEPT ![W] = "running"] /\ pc' = "get" /\ UNCHANGED k
     \/ UNCHANGED state /\ Advance("create", "join")
  /\ UNCHANGED <<lockVars, processMask, seenMask, loop_cnt, placed, returned, moves>>

ReturnFromAffinity(result) ==
  returned' = [returned EXCEPT ![W] = result] /\ Advance("create", "join")

GetMask ==
  /\ pc = "get"
  /\ loop_cnt' = 0
  /\ IF Cardinality(Cpus) <= 1
     THEN ReturnFromAffinity("ok") /\ UNCHANGED seenMask
     ELSE \/ seenMask' = processMask /\ pc' = "loop" /\ UNCHANGED <<k, returned>>
          \/ ReturnFromAffinity("error") /\ UNCHANGED seenMask
  /\ UNCHANGED <<state, lockVars, processMask, placed, moves>>

GiveUp(n) == n > MaxLoops

\* while (dwProcessAffinity != dwSystemAffinity): SetProcessAffinityMask, which
\* may fail.  When it worked the mask is read again after a Sleep(1).
WidenProcess ==
  /\ pc = "loop" /\ seenMask # Cpus
  /\ loop_cnt' = loop_cnt + 1
  /\ \E worked \in BOOLEAN :
       /\ processMask' = IF worked THEN Cpus ELSE processMask
       /\ pc' = IF GiveUp(loop_cnt + 1) THEN "place" ELSE IF worked THEN "again" ELSE "loop"
  /\ UNCHANGED <<k, state, lockVars, seenMask, placed, returned, moves>>

\* A failure leaves dwProcessAffinity as it was.
GetMaskAgain ==
  /\ pc = "again" /\ pc' = "loop"
  /\ seenMask' \in {processMask, seenMask}
  /\ UNCHANGED <<k, state, lockVars, processMask, loop_cnt, placed, returned, moves>>

LeaveLoop ==
  /\ pc = "loop" /\ seenMask = Cpus /\ pc' = "place"
  /\ UNCHANGED <<k, state, lockVars, processMask, seenMask, loop_cnt, placed, returned, moves>>

\* SetThreadAffinityMask(thread, dwAffinityMask & dwProcessAffinity); Windows
\* refuses no processor and one the process may not use by now, and a thread
\* that is gone.
PlaceThread ==
  /\ pc = "place"
  /\ LET mask == {CoreOf[W]} \intersect seenMask IN
       IF mask # {} /\ mask \subseteq processMask /\ Running(W)
       THEN placed' = [placed EXCEPT ![W] = mask] /\ ReturnFromAffinity("ok")
       ELSE UNCHANGED placed /\ ReturnFromAffinity("error")
  /\ UNCHANGED <<state, lockVars, processMask, seenMask, loop_cnt, moves>>

\* Somebody else sets the affinity of the process.
MoveProcess ==
  /\ moves < MaxMoves /\ moves' = moves + 1
  /\ processMask' \in SUBSET Cpus \ {{}}
  /\ UNCHANGED <<mainVars, state, lockVars, placed>>

-----------------------------------------------------------------------------
(* Joining and detaching *)

\* WaitForSingleObject: 0 once the thread is gone.  A handle that was never set
\* fails at once, and so does a wait whose time, *value_ptr, has passed.
pthread_join ==
  /\ pc = "join"
  /\ \/ /\ state[W] \in {"ended", "terminated"}
        /\ returned' = [returned EXCEPT ![W] = "joined"]
     \/ /\ state[W] = "none" \/ UsesTimeout
        /\ returned' = [returned EXCEPT ![W] = "error"]
  /\ Advance("join", "done")
  /\ UNCHANGED <<state, lockVars, processMask, seenMask, loop_cnt, placed, moves>>

\* TerminateThread, wherever the thread is.
pthread_detach ==
  /\ UsesDetach /\ pc = "join" /\ state[W] \in {"running", "ended"}
  /\ state' = [state EXCEPT ![W] = IF Running(W) THEN "terminated" ELSE @]
  /\ returned' = [returned EXCEPT ![W] = IF Running(W) THEN "detached" ELSE "error"]
  /\ Advance("join", "done")
  /\ UNCHANGED <<lockVars, processMask, seenMask, loop_cnt, placed, moves>>

-----------------------------------------------------------------------------
(* The mutex *)

\* Mutant: the section is granted without a look at its owner.
GrantOpen(w) == TRUE

\* A critical section is free, or its owner enters it again.
Grant(w) == owner \in {Nobody, w}

Enter(w) ==
  /\ owner' = w
  /\ depth' = IF owner = w THEN depth + 1 ELSE 1
  /\ holds' = [holds EXCEPT ![w] = holds[w] + 1]
  /\ rounds' = [rounds EXCEPT ![w] = rounds[w] + 1]

MayLock(w) == Running(w) /\ holds[w] < MaxDepth /\ rounds[w] < MaxRounds

\* pthread_mutex_lock and, since it ignores its abstime, pthread_mutex_timedlock;
\* pthread_mutex_trylock when it succeeds.
pthread_mutex_lock(w) ==
  /\ MayLock(w) /\ Grant(w) /\ Enter(w)
  /\ UNCHANGED <<mainVars, state, processMask, placed, moves>>

\* Mutant: the section that is left keeps its owner.
LeaveKeep(w) == depth' = depth - 1 /\ owner' = owner

LeaveCriticalSection(w) ==
  depth' = depth - 1 /\ owner' = IF depth = 1 THEN Nobody ELSE owner

pthread_mutex_unlock(w) ==
  /\ Running(w) /\ holds[w] > 0
  /\ LeaveCriticalSection(w)
  /\ holds' = [holds EXCEPT ![w] = holds[w] - 1]
  /\ UNCHANGED <<mainVars, state, rounds, processMask, placed, moves>>

\* A worker returns when it has made its locks and holds none.
EndWorker(w) ==
  /\ Running(w) /\ rounds[w] = MaxRounds /\ holds[w] = 0
  /\ state' = [state EXCEPT ![w] = "ended"]
  /\ UNCHANGED <<mainVars, lockVars, processMask, placed, moves>>

-----------------------------------------------------------------------------

Affinity == GetMask \/ WidenProcess \/ GetMaskAgain \/ LeaveLoop \/ PlaceThread
Main == pthread_create \/ Affinity \/ pthread_join \/ pthread_detach
Work(w) == pthread_mutex_lock(w) \/ pthread_mutex_unlock(w) \/ EndWorker(w)

Next == Main \/ MoveProcess \/ \E w \in Workers : Work(w)

Spec == Init /\ [][Next]_vars

-----------------------------------------------------------------------------
(* Properties *)

\* Every variable stays within its type, loop_cnt below its limit.
TypeOK ==
  /\ state \in [Workers -> {"none", "running", "ended", "terminated"}]
  /\ owner \in Workers \union {Nobody} /\ depth \in 0..MaxDepth
  /\ holds \in [Workers -> 0..MaxDepth] /\ loop_cnt \in 0..(MaxLoops + 1)
  /\ k \in DOMAIN Order

\* Two workers never hold the mutex at once, although one may hold it several
\* times, through lock, timedlock and trylock alike.
MutexExcludes ==
  /\ \A v, w \in Workers : holds[v] > 0 /\ holds[w] > 0 => v = w
  /\ \A w \in Workers : holds[w] = IF owner = w THEN depth ELSE 0

\* The mutex belongs to a thread that is gone only if that was detached: the
\* shim terminates a detached thread where it stands.
OrphanOnlyByDetach ==
  owner # Nobody /\ ~Running(owner) => \E w \in Workers : returned[w] = "detached"

\* A join that returned 0 means that the thread is gone, and without timeouts
\* every thread main created is gone when main goes on: the globals of a test
\* are reset with no task of the last one left.
JoinedMeansGone ==
  /\ \A w \in Workers : returned[w] = "joined" => ~Running(w)
  /\ pc = "done" /\ ~UsesTimeout => \A w \in Workers : ~Running(w)

\* Main has come to the end of its joins, or terminated a thread that held the
\* mutex.
Finished == pc = "done" \/ (owner # Nobody /\ state[owner] = "terminated")
=============================================================================
