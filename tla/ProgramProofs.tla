----------------------------- MODULE ProgramProofs -----------------------------
(***************************************************************************)
(* Proofs about MCProgram for every configuration of the test program and  *)
(* of the pthread functions, and about SpinMutex for every set of threads, *)
(* which share nothing: SystemInv joins their invariants.  After them, the *)
(* proofs about the sequences of MCPrimitives for every use of one.        *)
(***************************************************************************)
EXTENDS MCProgram, MCPrimitives, FiniteSetTheorems, TLAPS

-----------------------------------------------------------------------------
(* SpinMutex, for every number of threads.                                  *)

\* A fresh mutex satisfies the invariant.
LEMMA MutexInit == Init => Inv
  BY DEF Init, Inv, TypeOK, MutualExclusion, WordMeansOwner, kUnlocked, kLocked

\* A thread that finds the word clear finds nobody inside.
LEMMA ClearMeansFree ==
  ASSUME WordMeansOwner, Status = kUnlocked
  PROVE  \A th \in Threads : pc[th] # "critical"
  BY DEF WordMeansOwner, kUnlocked, kLocked

\* Every step of lock, tryLock and unlock keeps the invariant.
LEMMA MutexStep ==
  ASSUME Inv, [Next]_vars
  PROVE  Inv'
<1> USE DEF Inv
<1>1. ASSUME NEW th \in Threads, Step(th) PROVE TypeOK'
  BY <1>1 DEF TypeOK, Step, LockXchg, LockCAS, TryXchg, TryCAS, Unlock, Goto, Return,
              kUnlocked, kLocked
<1>2. ASSUME NEW th \in Threads, Status = kUnlocked, Status' = kLocked, Goto(th, "critical")
      PROVE  MutualExclusion' /\ WordMeansOwner'
  <2>1. pc' = [pc EXCEPT ![th] = "critical"]
    BY <1>2 DEF Goto
  <2>2. \A o \in Threads : pc'[o] = "critical" <=> o = th
    BY <2>1, <1>2, ClearMeansFree DEF TypeOK
  <2>3. QED
    BY <2>2, <1>2 DEF MutualExclusion, WordMeansOwner
<1>3. ASSUME NEW th \in Threads, NEW where \in {"outside", "spin", "try_again"},
             pc[th] # "critical", Status' = kLocked, Status = kLocked, Goto(th, where)
      PROVE  MutualExclusion' /\ WordMeansOwner'
  <2>1. pc' = [pc EXCEPT ![th] = where]
    BY <1>3 DEF Goto
  <2>2. \A o \in Threads : pc'[o] = "critical" <=> pc[o] = "critical"
    BY <2>1, <1>3 DEF TypeOK
  <2>3. QED
    BY <2>2, <1>3 DEF MutualExclusion, WordMeansOwner
<1>4. ASSUME NEW th \in Threads, LockXchg(th) PROVE MutualExclusion' /\ WordMeansOwner'
  <2>1. CASE Status = kUnlocked
    BY <2>1, <1>4, <1>2 DEF LockXchg
  <2>2. CASE Status # kUnlocked
    BY <2>2, <1>4, <1>3 DEF LockXchg, TypeOK
  <2>3. QED
    BY <2>1, <2>2
<1>5. ASSUME NEW th \in Threads, LockCAS(th) PROVE MutualExclusion' /\ WordMeansOwner'
  BY <1>5, <1>2 DEF LockCAS
<1>6. ASSUME NEW th \in Threads, TryXchg(th) PROVE MutualExclusion' /\ WordMeansOwner'
  <2>1. CASE Status = kUnlocked
    BY <2>1, <1>6, <1>2 DEF TryXchg
  <2>2. CASE Status # kUnlocked
    BY <2>2, <1>6, <1>3 DEF TryXchg, TypeOK
  <2>3. QED
    BY <2>1, <2>2
<1>7. ASSUME NEW th \in Threads, TryCAS(th) PROVE MutualExclusion' /\ WordMeansOwner'
  <2>1. CASE Status = kUnlocked
    BY <2>1, <1>7, <1>2 DEF TryCAS
  <2>2. CASE Status # kUnlocked
    BY <2>2, <1>7, <1>3 DEF TryCAS, TypeOK
  <2>3. QED
    BY <2>1, <2>2
<1>8. ASSUME NEW th \in Threads, Unlock(th) PROVE MutualExclusion' /\ WordMeansOwner'
  <2>1. pc' = [pc EXCEPT ![th] = "outside"] /\ pc[th] = "critical" /\ Status' = kUnlocked
    BY <1>8 DEF Unlock, Goto
  <2>2. \A o \in Threads : pc'[o] # "critical"
    BY <2>1 DEF MutualExclusion, TypeOK
  <2>3. QED
    BY <2>1, <2>2 DEF MutualExclusion, WordMeansOwner, kUnlocked, kLocked
<1>9. CASE UNCHANGED vars
  BY <1>9 DEF vars, TypeOK, MutualExclusion, WordMeansOwner
<1>10. QED
  BY <1>1, <1>4, <1>5, <1>6, <1>7, <1>8, <1>9 DEF Next, Step

\* The invariant holds in every reachable state.
THEOREM MutexInvariance == Spec => []Inv
  BY MutexInit, MutexStep, PTL DEF Spec

\* The word and the result stay in their types.
THEOREM MutexTypeCorrect == Spec => []TypeOK
<1>1. Inv => TypeOK
  BY DEF Inv
<1>2. QED
  BY <1>1, MutexInvariance, PTL

\* lock and tryLock never let two threads in, however many there are.
THEOREM Exclusion == Spec => []MutualExclusion
<1>1. Inv => MutualExclusion
  BY DEF Inv
<1>2. QED
  BY <1>1, MutexInvariance, PTL

\* No loser leaves the word set behind, and none clears it under an owner.
THEOREM WordOwned == Spec => []WordMeansOwner
<1>1. Inv => WordMeansOwner
  BY DEF Inv
<1>2. QED
  BY <1>1, MutexInvariance, PTL

-----------------------------------------------------------------------------
(* The pthread functions, for every number of workers.                      *)

\* Where main is, and what its calls have returned.
ShimControl(s) ==
  /\ mainPc \in {"create", "get", "loop", "again", "place", "join", "done"}
  /\ k \in DOMAIN s.Order
  /\ loop_cnt \in 0..(s.MaxLoops + 1)
  /\ mainPc \in {"loop", "again"} => loop_cnt <= s.MaxLoops
  /\ state \in [s.Workers -> {"none", "running", "ended", "terminated"}]
  /\ returned \in [s.Workers -> {"none", "ok", "error", "joined", "detached"}]

\* Only the owner holds the mutex, as often as it is deep, and it has not ended.
ShimMutex(s) ==
  /\ owner \in s.Workers \union {Shim(s)!Nobody} /\ depth \in 0..s.MaxDepth
  /\ holds \in [s.Workers -> 0..s.MaxDepth]
  /\ \A w \in s.Workers : holds[w] = IF owner = w THEN depth ELSE 0
  /\ owner # Shim(s)!Nobody => depth > 0 /\ state[owner] \in {"running", "terminated"}

\* A worker that was joined or detached is gone, and main has come past it; only
\* a detached one was terminated; and without timeouts all that main has come
\* past are gone.
ShimJoins(s) ==
  /\ \A w \in s.Workers : returned[w] \in {"joined", "detached"} =>
       /\ state[w] \in {"ended", "terminated"}
       /\ mainPc = "done" \/ (mainPc = "join" /\ \E j \in 1..(k-1) : s.Order[j] = w)
  /\ \A w \in s.Workers : state[w] = "terminated" => returned[w] = "detached"
  /\ mainPc = "join" /\ ~s.UsesTimeout => \A j \in 1..(k-1) : ~Shim(s)!Running(s.Order[j])
  /\ mainPc = "done" /\ ~s.UsesTimeout => \A w \in s.Workers : ~Shim(s)!Running(w)
ShimInv(s) == ShimControl(s) /\ ShimMutex(s) /\ ShimJoins(s)

\* An instance counts as FiniteSets does.
LEMMA ShimCardinality ==
  ASSUME NEW s, NEW S
  PROVE  Shim(s)!Cardinality(S) = Cardinality(S) /\ (Shim(s)!IsFiniteSet(S) <=> IsFiniteSet(S))
BY DEF Shim!Cardinality, Cardinality, Shim!IsFiniteSet, IsFiniteSet

\* The order main starts the workers in names each of them once.
LEMMA OrderFacts ==
  ASSUME NEW s \in Shims
  PROVE  /\ DOMAIN s.Order = 1..Cardinality(s.Workers)
         /\ Cardinality(s.Workers) \in Nat \ {0}
         /\ \A j \in 1..Cardinality(s.Workers) : s.Order[j] \in s.Workers
         /\ \A w \in s.Workers : \E j \in 1..Cardinality(s.Workers) : s.Order[j] = w
         /\ \A a, b \in 1..Cardinality(s.Workers) : s.Order[a] = s.Order[b] => a = b
<1> DEFINE m == Cardinality(s.Workers)
<1>1. /\ IsFiniteSet(s.Workers) /\ s.Workers # {}
      /\ s.Order \in [1..m -> s.Workers]
      /\ \A w \in s.Workers : \E j \in DOMAIN s.Order : s.Order[j] = w
  BY ShimsAssumption, ShimCardinality DEF Shim!ShimAssumption
<1>2. m \in Nat /\ m # 0
  BY <1>1, FS_CardinalityType, FS_EmptySet
<1>3. IsFiniteSet(1..m) /\ Cardinality(1..m) = m
  BY <1>2, FS_Interval
<1>4. s.Order \in Surjection(1..m, s.Workers)
  BY <1>1 DEF Surjection
<1>5. s.Order \in Injection(1..m, s.Workers)
  BY <1>1, <1>3, <1>4, FS_SurjSameCardinalityImpliesInj
<1>6. QED
  BY <1>1, <1>2, <1>5 DEF Injection, IsInjective

\* What the assumptions say of the bounds.
LEMMA ShimBounds ==
  ASSUME NEW s \in Shims
  PROVE  /\ s.MaxLoops \in Nat /\ s.MaxDepth \in Nat \ {0}
         /\ Shim(s)!Nobody \notin s.Workers
  BY ShimsAssumption DEF Shim!ShimAssumption

\* The worker main is at.
LEMMA ShimWorker ==
  ASSUME NEW s \in Shims, ShimControl(s)
  PROVE  Shim(s)!W \in s.Workers /\ k \in 1..Cardinality(s.Workers)
  BY OrderFacts DEF ShimControl, Shim!W

\* main's loops stay within the workers.
LEMMA ShimAdvance ==
  ASSUME NEW s \in Shims, ShimControl(s), NEW from, NEW after, Shim(s)!Advance(from, after)
  PROVE  /\ k' \in DOMAIN s.Order
         /\ \/ mainPc' = from /\ k' = k + 1 /\ k < Cardinality(s.Workers)
            \/ mainPc' = after /\ k' = 1 /\ k = Cardinality(s.Workers)
  BY OrderFacts, ShimCardinality DEF ShimControl, Shim!Advance

\* main begins with no thread and a free mutex.
LEMMA ShimInitInv ==
  ASSUME NEW s \in Shims, Shim(s)!Init
  PROVE  ShimInv(s)
<1> USE DEF Shim!Init
<1>1. ShimControl(s)
  BY OrderFacts, ShimBounds DEF ShimControl
<1>2. ShimMutex(s)
  BY ShimBounds DEF ShimMutex
<1>3. ShimJoins(s)
  BY DEF ShimJoins
<1>4. QED
  BY <1>1, <1>2, <1>3 DEF ShimInv

\* Every step keeps main and its calls within their types.
LEMMA ShimStepControl ==
  ASSUME NEW s \in Shims, ShimInv(s), Shim(s)!Next
  PROVE  ShimControl(s)'
<1> USE ShimWorker, ShimBounds DEF ShimInv
<1>1. CASE Shim(s)!pthread_create
  BY <1>1, ShimAdvance DEF Shim!pthread_create, ShimControl
<1>2. ASSUME NEW from \in {"ok", "error"}, Shim(s)!ReturnFromAffinity(from)
      PROVE  /\ returned' \in [s.Workers -> {"none", "ok", "error", "joined", "detached"}]
             /\ k' \in DOMAIN s.Order /\ mainPc' \in {"create", "join"}
  BY <1>2, ShimAdvance DEF Shim!ReturnFromAffinity, ShimControl
<1>3. CASE Shim(s)!GetMask
  BY <1>3, <1>2 DEF Shim!GetMask, ShimControl
<1>4. CASE Shim(s)!WidenProcess
  BY <1>4 DEF Shim!WidenProcess, Shim!GiveUp, ShimControl
<1>5. CASE Shim(s)!GetMaskAgain
  BY <1>5 DEF Shim!GetMaskAgain, ShimControl
<1>6. CASE Shim(s)!LeaveLoop
  BY <1>6 DEF Shim!LeaveLoop, ShimControl
<1>7. CASE Shim(s)!PlaceThread
  BY <1>7, <1>2 DEF Shim!PlaceThread, ShimControl
<1>8. CASE Shim(s)!pthread_join
  BY <1>8, ShimAdvance DEF Shim!pthread_join, ShimControl
<1>9. CASE Shim(s)!pthread_detach
  BY <1>9, ShimAdvance DEF Shim!pthread_detach, ShimControl
<1>10. CASE Shim(s)!MoveProcess
  BY <1>10 DEF Shim!MoveProcess, Shim!mainVars, ShimControl
<1>11. ASSUME NEW w \in s.Workers, Shim(s)!Work(w) PROVE ShimControl(s)'
  BY <1>11 DEF Shim!Work, Shim!pthread_mutex_lock, Shim!pthread_mutex_unlock, Shim!EndWorker,
               Shim!mainVars, ShimControl
<1>12. QED
  BY <1>1, <1>3, <1>4, <1>5, <1>6, <1>7, <1>8, <1>9, <1>10, <1>11
  DEF Shim!Next, Shim!Main, Shim!Affinity

\* Only main's calls and a worker's return change what a thread is doing, and
\* none of them touches the mutex.
LEMMA ShimStepMutex ==
  ASSUME NEW s \in Shims, ShimInv(s), Shim(s)!Next
  PROVE  ShimMutex(s)'
<1> USE ShimWorker, ShimBounds DEF ShimInv
<1>1. ASSUME UNCHANGED <<owner, depth, holds>>,
             \A w \in s.Workers : state[w] \in {"running", "terminated"} =>
                                    state'[w] \in {"running", "terminated"}
      PROVE  ShimMutex(s)'
  BY <1>1 DEF ShimMutex
<1>2. CASE Shim(s)!pthread_create
  BY <1>2, <1>1 DEF Shim!pthread_create, ShimControl, Shim!lockVars
<1>3. CASE Shim(s)!Affinity \/ Shim(s)!pthread_join \/ Shim(s)!MoveProcess
  BY <1>3, <1>1
  DEF Shim!Affinity, Shim!GetMask, Shim!WidenProcess, Shim!GetMaskAgain, Shim!LeaveLoop,
      Shim!PlaceThread, Shim!pthread_join, Shim!MoveProcess, Shim!lockVars
<1>4. CASE Shim(s)!pthread_detach
  BY <1>4, <1>1 DEF Shim!pthread_detach, Shim!Running, ShimControl, Shim!lockVars
<1>5. ASSUME NEW w \in s.Workers, Shim(s)!pthread_mutex_lock(w)
      PROVE  ShimMutex(s)'
  <2>1. /\ owner \in {Shim(s)!Nobody, w} /\ owner' = w /\ state[w] = "running"
        /\ depth' = IF owner = w THEN depth + 1 ELSE 1
        /\ holds' = [holds EXCEPT ![w] = holds[w] + 1] /\ holds[w] < s.MaxDepth
        /\ state' = state
    BY <1>5 DEF Shim!pthread_mutex_lock, Shim!Grant, Shim!Enter, Shim!MayLock, Shim!Running
  <2>2. depth' = holds[w] + 1
    BY <2>1 DEF ShimMutex
  <2>3. holds' \in [s.Workers -> 0..s.MaxDepth] /\ depth' \in 1..s.MaxDepth
    BY <2>1, <2>2 DEF ShimMutex
  <2>4. \A v \in s.Workers : holds'[v] = IF owner' = v THEN depth' ELSE 0
    BY <2>1, <2>2 DEF ShimMutex
  <2>5. QED
    BY <2>1, <2>3, <2>4 DEF ShimMutex
<1>6. ASSUME NEW w \in s.Workers, Shim(s)!pthread_mutex_unlock(w)
      PROVE  ShimMutex(s)'
  <2>1. /\ holds[w] > 0 /\ holds' = [holds EXCEPT ![w] = holds[w] - 1]
        /\ depth' = depth - 1 /\ owner' = IF depth = 1 THEN Shim(s)!Nobody ELSE owner
        /\ state' = state
    BY <1>6 DEF Shim!pthread_mutex_unlock, Shim!LeaveCriticalSection
  <2>2. owner = w /\ depth = holds[w]
    BY <2>1 DEF ShimMutex
  <2>3. holds' \in [s.Workers -> 0..s.MaxDepth] /\ depth' \in 0..s.MaxDepth
    BY <2>1, <2>2 DEF ShimMutex
  <2>4. \A v \in s.Workers : holds'[v] = IF owner' = v THEN depth' ELSE 0
    BY <2>1, <2>2 DEF ShimMutex
  <2>5. QED
    BY <2>1, <2>2, <2>3, <2>4 DEF ShimMutex
<1>7. ASSUME NEW w \in s.Workers, Shim(s)!EndWorker(w)
      PROVE  ShimMutex(s)'
  <2>1. /\ holds[w] = 0 /\ state' = [state EXCEPT ![w] = "ended"]
        /\ UNCHANGED <<owner, depth, holds>>
    BY <1>7 DEF Shim!EndWorker, Shim!lockVars
  <2>2. owner # w
    BY <2>1 DEF ShimMutex
  <2>3. QED
    BY <2>1, <2>2 DEF ShimMutex, ShimControl
<1>8. QED
  BY <1>2, <1>3, <1>4, <1>5, <1>6, <1>7 DEF Shim!Next, Shim!Main, Shim!Work

\* A call for the worker main is at, in the loop of the joins, that finds the
\* thread gone unless it may time out.
LEMMA ShimJoinCall ==
  ASSUME NEW s \in Shims, ShimInv(s), mainPc = "join",
         NEW how \in {"joined", "error", "detached"},
         returned' = [returned EXCEPT ![Shim(s)!W] = how],
         Shim(s)!Advance("join", "done"),
         \A w \in s.Workers \ {Shim(s)!W} : state'[w] = state[w],
         how # "error" => state'[Shim(s)!W] \in {"ended", "terminated"},
         state'[Shim(s)!W] = "terminated" => how = "detached",
         ~s.UsesTimeout => state'[Shim(s)!W] # "running"
  PROVE  ShimJoins(s)'
<1> DEFINE v == Shim(s)!W
<1>1. v \in s.Workers /\ v = s.Order[k] /\ k \in 1..Cardinality(s.Workers)
  BY ShimWorker DEF ShimInv, Shim!W
<1>2. /\ \/ mainPc' = "join" /\ k' = k + 1 /\ k < Cardinality(s.Workers)
         \/ mainPc' = "done" /\ k' = 1 /\ k = Cardinality(s.Workers)
  BY ShimAdvance DEF ShimInv
<1>3. returned'[v] = how /\ \A w \in s.Workers \ {v} : returned'[w] = returned[w]
  BY <1>1 DEF ShimInv, ShimControl
<1> HIDE DEF v
<1>4. /\ how # "error" => state'[v] \in {"ended", "terminated"}
      /\ state'[v] = "terminated" => how = "detached"
      /\ ~s.UsesTimeout => state'[v] # "running"
      /\ \A w \in s.Workers \ {v} : state'[w] = state[w]
  BY DEF v
<1>5. ASSUME NEW w \in s.Workers, returned'[w] \in {"joined", "detached"}
      PROVE  /\ state'[w] \in {"ended", "terminated"}
             /\ mainPc' = "done" \/ (mainPc' = "join" /\ \E j \in 1..(k' - 1) : s.Order[j] = w)
  <2>1. CASE w = v
    <3>1. state'[w] \in {"ended", "terminated"}
      BY <2>1, <1>5, <1>3, <1>4
    <3>2. mainPc' = "join" => k \in 1..(k' - 1)
      BY <1>1, <1>2
    <3>3. QED
      BY <3>1, <3>2, <2>1, <1>1, <1>2
  <2>2. CASE w # v
    <3>1. /\ returned[w] \in {"joined", "detached"} /\ state'[w] = state[w]
          /\ mainPc = "join"
      BY <2>2, <1>5, <1>3, <1>4
    <3>2. state[w] \in {"ended", "terminated"} /\ \E j \in 1..(k - 1) : s.Order[j] = w
      BY <3>1 DEF ShimInv, ShimJoins
    <3>3. \A j \in 1..(k - 1) : mainPc' = "join" => j \in 1..(k' - 1)
      BY <1>1, <1>2
    <3>4. QED
      BY <3>1, <3>2, <3>3, <1>2
  <2>3. QED
    BY <2>1, <2>2
<1>6. ASSUME NEW w \in s.Workers, state'[w] = "terminated"
      PROVE  returned'[w] = "detached"
  BY <1>6, <1>3, <1>4 DEF ShimInv, ShimJoins
<1>7. ASSUME ~s.UsesTimeout, NEW j \in 1..k
      PROVE  state'[s.Order[j]] # "running"
  <2>1. s.Order[j] \in s.Workers
    BY <1>1, OrderFacts
  <2>2. CASE s.Order[j] = v
    BY <2>2, <1>7, <1>4
  <2>3. CASE s.Order[j] # v
    <3>1. j \in 1..(k - 1)
      BY <2>3, <1>1
    <3>2. QED
      BY <3>1, <2>1, <2>3, <1>7, <1>4 DEF ShimInv, ShimJoins, Shim!Running
  <2>4. QED
    BY <2>2, <2>3
<1>8. ASSUME ~s.UsesTimeout, mainPc' = "done", NEW w \in s.Workers
      PROVE  state'[w] # "running"
  BY <1>8, <1>7, <1>2, OrderFacts
<1>9. \A j \in 1..(k' - 1) : mainPc' = "join" => j \in 1..k
  BY <1>1, <1>2
<1>10. QED
  BY <1>5, <1>6, <1>7, <1>8, <1>9 DEF ShimJoins, Shim!Running

\* Steps before the joins find nothing joined, and leave nothing joined.
LEMMA ShimNotJoined ==
  ASSUME NEW s \in Shims, ShimInv(s), ShimControl(s)', mainPc \notin {"join", "done"},
         mainPc' \notin {"done"}, mainPc' = "join" => k' = 1,
         \A w \in s.Workers : /\ state'[w] = "terminated" => state[w] = "terminated"
                              /\ returned'[w] \in {returned[w], "ok", "error"}
  PROVE  ShimJoins(s)'
<1>1. \A w \in s.Workers : returned[w] \notin {"joined", "detached"} /\ state[w] # "terminated"
  BY DEF ShimInv, ShimJoins
<1>2. 1..(1 - 1) = {}
  OBVIOUS
<1>3. QED
  BY <1>1, <1>2 DEF ShimJoins

\* Every step keeps what a join promises.
LEMMA ShimStepJoins ==
  ASSUME NEW s \in Shims, ShimInv(s), Shim(s)!Next
  PROVE  ShimJoins(s)'
<1> USE ShimWorker DEF ShimInv
<1>1. ShimControl(s)'
  BY ShimStepControl
<1>2. CASE Shim(s)!pthread_create
  BY <1>2, <1>1, ShimAdvance, ShimNotJoined DEF Shim!pthread_create, ShimControl
<1>3. ASSUME NEW what \in {"ok", "error"}, Shim(s)!ReturnFromAffinity(what), state' = state,
             mainPc \notin {"join", "done"}
      PROVE  ShimJoins(s)'
  BY <1>3, <1>1, ShimAdvance, ShimNotJoined DEF Shim!ReturnFromAffinity, ShimControl
<1>4. ASSUME UNCHANGED <<state, returned>>, mainPc \notin {"join", "done"},
             mainPc' \notin {"join", "done"}
      PROVE  ShimJoins(s)'
  BY <1>4, <1>1, ShimNotJoined
<1>5. CASE Shim(s)!GetMask
  BY <1>5, <1>3, <1>4 DEF Shim!GetMask
<1>6. CASE Shim(s)!WidenProcess \/ Shim(s)!GetMaskAgain \/ Shim(s)!LeaveLoop
  BY <1>6, <1>4 DEF Shim!WidenProcess, Shim!GetMaskAgain, Shim!LeaveLoop
<1>7. CASE Shim(s)!PlaceThread
  BY <1>7, <1>3 DEF Shim!PlaceThread
<1>8. CASE Shim(s)!pthread_join
  <2>1. mainPc = "join" /\ Shim(s)!Advance("join", "done") /\ state' = state
    BY <1>8 DEF Shim!pthread_join
  <2>2. CASE state[Shim(s)!W] \in {"ended", "terminated"} /\
             returned' = [returned EXCEPT ![Shim(s)!W] = "joined"]
             /\ state[Shim(s)!W] # "terminated"
    BY <2>1, <2>2, ShimJoinCall
  <2>3. CASE returned' = [returned EXCEPT ![Shim(s)!W] = "error"]
             /\ (state[Shim(s)!W] = "none" \/ s.UsesTimeout)
             /\ state[Shim(s)!W] # "terminated"
    BY <2>1, <2>3, ShimJoinCall
  <2>4. state[Shim(s)!W] # "terminated"
    <3>1. ASSUME state[Shim(s)!W] = "terminated" PROVE FALSE
      <4>1. PICK j \in 1..(k - 1) : s.Order[j] = Shim(s)!W
        BY <2>1, <3>1 DEF ShimJoins
      <4>2. QED
        BY <4>1, OrderFacts DEF Shim!W
    <3>2. QED
      BY <3>1
  <2>5. QED
    BY <1>8, <2>2, <2>3, <2>4 DEF Shim!pthread_join
<1>9. CASE Shim(s)!pthread_detach
  <2> DEFINE v == Shim(s)!W
  <2>1. /\ mainPc = "join" /\ Shim(s)!Advance("join", "done")
        /\ state[v] \in {"running", "ended"}
        /\ state' = [state EXCEPT ![v] = IF Shim(s)!Running(v) THEN "terminated" ELSE @]
        /\ returned' = [returned EXCEPT ![v] = IF Shim(s)!Running(v) THEN "detached"
                                                                  ELSE "error"]
    BY <1>9 DEF Shim!pthread_detach
  <2>2. \A w \in s.Workers \ {v} : state'[w] = state[w]
    BY <2>1 DEF ShimControl
  <2>3. state'[v] = IF state[v] = "running" THEN "terminated" ELSE "ended"
    BY <2>1 DEF ShimControl, Shim!Running
  <2>4. CASE state[v] = "running"
    <3>1. returned' = [returned EXCEPT ![v] = "detached"]
      BY <2>1, <2>4 DEF Shim!Running
    <3>2. state'[v] = "terminated"
      BY <2>3, <2>4
    <3> HIDE DEF v
    <3>3. QED
      BY <3>1, <3>2, <2>1, <2>2, ShimJoinCall DEF v
  <2>5. CASE state[v] = "ended"
    <3>1. returned' = [returned EXCEPT ![v] = "error"]
      BY <2>1, <2>5 DEF Shim!Running
    <3>2. QED
      BY <3>1, <2>1, <2>2, <2>3, <2>5, ShimJoinCall
  <2>6. QED
    BY <2>1, <2>4, <2>5
<1>10. ASSUME UNCHANGED <<mainPc, k, returned>>,
              \A w \in s.Workers :
                state'[w] = state[w] \/ (state[w] = "running" /\ state'[w] = "ended")
       PROVE  ShimJoins(s)'
  <2>1. \A w \in s.Workers : returned[w] \in {"joined", "detached"} =>
          state[w] # "running"
    BY DEF ShimJoins
  <2>2. \A j \in 1..(k - 1) : s.Order[j] \in s.Workers
    BY OrderFacts
  <2>3. \A w \in s.Workers : state'[w] = "terminated" => state[w] = "terminated"
    BY <1>10
  <2>4. \A w \in s.Workers : state[w] # "running" => state'[w] = state[w]
    BY <1>10
  <2>5. QED
    BY <1>10, <2>1, <2>2, <2>3, <2>4 DEF ShimJoins, Shim!Running
<1>11. CASE Shim(s)!MoveProcess
  BY <1>11, <1>10 DEF Shim!MoveProcess, Shim!mainVars
<1>12. ASSUME NEW w \in s.Workers, Shim(s)!Work(w) PROVE ShimJoins(s)'
  BY <1>12, <1>10 DEF Shim!Work, Shim!pthread_mutex_lock, Shim!pthread_mutex_unlock,
               Shim!EndWorker, Shim!Running, Shim!mainVars, ShimControl
<1>13. QED
  BY <1>2, <1>5, <1>6, <1>7, <1>8, <1>9, <1>11, <1>12 DEF Shim!Next, Shim!Main, Shim!Affinity

\* Every step of the pthread functions keeps the invariant.
LEMMA ShimStepInv ==
  ASSUME NEW s \in Shims, ShimInv(s), Shim(s)!Next
  PROVE  ShimInv(s)'
  BY ShimStepControl, ShimStepMutex, ShimStepJoins DEF ShimInv

\* The invariant has what the run checks of the pthread functions.
LEMMA ShimProperties ==
  ASSUME NEW s \in Shims, ShimInv(s)
  PROVE  /\ Shim(s)!TypeOK /\ Shim(s)!MutexExcludes /\ Shim(s)!OrphanOnlyByDetach
         /\ Shim(s)!JoinedMeansGone
<1>1. Shim(s)!TypeOK
  BY DEF ShimInv, ShimControl, ShimMutex, Shim!TypeOK
<1>2. Shim(s)!MutexExcludes
  BY DEF ShimInv, ShimMutex, Shim!MutexExcludes
<1>3. Shim(s)!OrphanOnlyByDetach
  BY DEF ShimInv, ShimMutex, ShimJoins, Shim!Running, Shim!OrphanOnlyByDetach
<1>4. Shim(s)!JoinedMeansGone
  BY DEF ShimInv, ShimJoins, Shim!Running, Shim!JoinedMeansGone
<1>5. QED
  BY <1>1, <1>2, <1>3, <1>4

-----------------------------------------------------------------------------
(* The test program.                                                        *)

\* main is in a test that runs tasks.
InTest == mainPc \in {"start", "join", "faulted"}

\* The test main is in or has last been in; its threads, first the producers,
\* by their index in kids.
Test(c) == Tests(c)!Current
Pushers(c) == 0..(Test(c).producers - 1)
Poppers(c) == Test(c).producers..(Test(c).producers + Test(c).consumers - 1)
Ids(c) == 0..(Test(c).producers + Test(c).consumers - 1)

\* Thread j: its handle, whether its task runs, whether it was created, how
\* many messages its task moves and how many it has moved.
Kid(j) == <<n, j + 1>>
Alive(j) == Kid(j) \in DOMAIN running
Created(j) == kids[j] # <<0, 0>>
Quota(c, j) == IF j < Test(c).producers THEN Test(c).push.quota ELSE Test(c).pop.quota
Moved(c, j) ==
  IF Alive(j) THEN running[Kid(j)].count ELSE IF Created(j) THEN Quota(c, j) ELSE 0

\* Where main is: between two tests nothing runs; what main has not started is
\* not created, and what it has joined is gone.
Control(c) ==
  /\ mainPc \in {"next", "start", "join", "done", "faulted"}
  /\ n \in 0..Len(Tests(c)!Program)
  /\ i \in Nat
  /\ InTest => /\ n >= 1 /\ Test(c).kind # "serial"
               /\ DOMAIN kids = Ids(c)
               /\ i <= Test(c).producers + Test(c).consumers
  /\ ~InTest => i = 0 /\ DOMAIN running = {}
  /\ DOMAIN kids = IF n = 0 \/ Test(c).kind = "serial" THEN {} ELSE Ids(c)
  /\ \A j \in DOMAIN kids : kids[j] \in {<<0, 0>>, Kid(j)}
  /\ mainPc = "start" => \A j \in DOMAIN kids : j >= i => ~Created(j)
  /\ mainPc = "join" => \A j \in DOMAIN kids : j < i => ~Alive(j)

\* A running task is that of a thread of this test, and one that has added what
\* it pushed has pushed it.
TaskOf(c, j) ==
  [role : {IF j < Test(c).producers THEN "push" ELSE "pop"},
   idx : {IF j < Test(c).producers THEN j ELSE j - Test(c).producers},
   count : 0..Quota(c, j), added : BOOLEAN]
TasksOK(c) ==
  \A t \in DOMAIN running :
    \E j \in DOMAIN kids :
      /\ t = Kid(j) /\ kids[j] = t
      /\ running[t] \in TaskOf(c, j)
      /\ running[t].added => j \in Pushers(c) /\ running[t].count = Test(c).push.quota

ListsOK(c) ==
  /\ queue \in Seq(Tests(c)!Messages) /\ Len(queue) <= c.QSIZE
  /\ popmsg_list \in [Tests(c)!Places -> {0} \union Tests(c)!Messages]
  /\ dis_popevent_list \in [Tests(c)!Places -> {0} \union Tests(c)!Messages]

OverrunOK(c) ==
  /\ overrun \subseteq 1..n
  /\ Tests(c)!OverrunOnlyIfUneven

\* The list the consumers write and the test verifies, and where a message is.
List(c) == IF Test(c).verifiesEvents THEN dis_popevent_list ELSE popmsg_list
InQueue(m) == \E a \in 1..Len(queue) : queue[a] = m
InList(c, m) == \E p \in Tests(c)!Places : List(c)[p] = m

\* No message is in two places; what a producer has yet to push is in none; and
\* of the entries a consumer is to write those it has written are filled.
Distinct(c) ==
  /\ \A a, b \in 1..Len(queue) : queue[a] = queue[b] => a = b
  /\ \A a \in 1..Len(queue) : ~InList(c, queue[a])
  /\ \A p, q \in Tests(c)!Places : List(c)[p] = List(c)[q] => p = q \/ List(c)[p] = 0
Unsent(c) ==
  \A j \in Pushers(c) : \A x \in 0..(Test(c).push.adds - 1) :
    Moved(c, j) <= x =>
      ~InQueue(Tests(c)!Message(j, x)) /\ ~InList(c, Tests(c)!Message(j, x))
Filled(c) ==
  \A j \in Poppers(c) : \A x \in 0..(Test(c).pop.quota - 1) :
    LET p == Tests(c)!Place(j - Test(c).producers, x) IN
      p \in Tests(c)!Places => (List(c)[p] # 0 <=> x < Moved(c, j))
Data(c) == InTest => Distinct(c) /\ Unsent(c) /\ Filled(c)

\* The totals are the shares of the tasks that have added theirs.
Added(c) == {j \in Pushers(c) : Created(j) /\ (Alive(j) => running[Kid(j)].added)}
Popped(c) == {j \in Poppers(c) : Created(j) /\ ~Alive(j)}
Totals(c) ==
  /\ IF n = 0 \/ Test(c).kind = "serial"
     THEN push_total = 0 /\ pop_total = 0 /\ quit = 0
     ELSE /\ push_total = Cardinality(Added(c)) * Test(c).push.adds
          /\ pop_total = Cardinality(Popped(c)) * Test(c).pop.quota
  /\ quit \in {0, 1} /\ (quit = 1 => push_total = c.MAX_MSG_COUNT)

Reports(c) == Tests(c)!ReportExact /\ Tests(c)!NoFalseReport

TestsInv(c) ==
  Control(c) /\ TasksOK(c) /\ ListsOK(c) /\ OverrunOK(c) /\ Data(c) /\ Totals(c) /\ Reports(c)

\* An instance counts as FiniteSets does.
LEMMA TestsCardinality ==
  ASSUME NEW c, NEW S
  PROVE  Tests(c)!Cardinality(S) = Cardinality(S)
BY DEF Tests!Cardinality, Cardinality

\* Quotient and remainder.
LEMMA Division ==
  ASSUME NEW a \in Nat, NEW b \in Nat \ {0}
  PROVE  /\ a \div b \in Nat /\ a % b \in 0..(b - 1)
         /\ a = b * (a \div b) + (a % b)
  OBVIOUS

\* A pair of digits is determined by its number ...
LEMMA Digits ==
  ASSUME NEW base \in Nat, NEW a \in Nat, NEW b \in Nat,
         NEW x \in 0..(base - 1), NEW y \in 0..(base - 1),
         a * base + x = b * base + y
  PROVE  a = b /\ x = y
<1>1. ASSUME NEW d \in Nat, NEW e \in Nat, d < e,
             NEW u \in 0..(base - 1), NEW v \in 0..(base - 1)
      PROVE  d * base + u < e * base + v
  <2>1. (d + 1) * base <= e * base
    BY <1>1, Z3
  <2>2. (d + 1) * base = d * base + base
    OBVIOUS
  <2>3. d * base \in Nat /\ e * base \in Nat
    OBVIOUS
  <2>4. QED
    BY <2>1, <2>2, <2>3, <1>1
<1>2. a = b
  BY <1>1
<1>3. QED
  BY <1>2

\* ... and stays below the number of pairs.
LEMMA DigitsBelow ==
  ASSUME NEW base \in Nat, NEW rows \in Nat, NEW a \in 0..(rows - 1), NEW x \in 0..(base - 1)
  PROVE  a * base + x \in 0..(rows * base - 1)
  <1>1. (a + 1) * base <= rows * base
    BY Z3
  <1>2. (a + 1) * base = a * base + base
    OBVIOUS
  <1>3. a * base \in Nat /\ rows * base \in Nat
    OBVIOUS
  <1>4. QED
    BY <1>1, <1>2, <1>3

\* The quotas of a producer and of a consumer.
LEMMA Quotas ==
  ASSUME NEW c \in Harnesses
  PROVE  /\ c.MAX_MSG_COUNT \in Nat \ {0} /\ c.QSIZE \in Nat \ {0}
         /\ c.PUSH_CNT \in Nat \ {0} /\ c.POP_CNT \in Nat \ {0}
         /\ Tests(c)!MAX_PUSH_MSG_COUNT \in Nat \ {0}
         /\ Tests(c)!MAX_POP_MSG_COUNT \in Nat \ {0}
         /\ c.PUSH_CNT * Tests(c)!MAX_PUSH_MSG_COUNT <= c.MAX_MSG_COUNT
         /\ c.POP_CNT * Tests(c)!MAX_POP_MSG_COUNT \in 1..c.MAX_MSG_COUNT
         /\ c.MAX_MSG_COUNT % c.POP_CNT = 0 =>
              c.POP_CNT * Tests(c)!MAX_POP_MSG_COUNT = c.MAX_MSG_COUNT
<1>1. /\ c.MAX_MSG_COUNT \in Nat /\ c.QSIZE \in Nat \ {0}
      /\ c.PUSH_CNT \in 1..c.MAX_MSG_COUNT /\ c.POP_CNT \in 1..c.MAX_MSG_COUNT
  BY HarnessesAssumption DEF Tests!HarnessAssumption
<1>2. ASSUME NEW a \in Nat, NEW b \in 1..a
      PROVE  /\ a \div b \in Nat \ {0} /\ b * (a \div b) \in 1..a
             /\ a % b = 0 => b * (a \div b) = a
  <2> DEFINE d == a \div b
             r == a % b
  <2>1. d \in Nat /\ r \in 0..(b - 1) /\ a = b * d + r
    <3>1. b \in Nat \ {0}
      BY <1>2
    <3>2. QED
      BY <3>1, Division
  <2> HIDE DEF d, r
  <2>2. d # 0
    BY <2>1
  <2>3. b * d >= b /\ b * d \in Nat
    BY <2>1, <2>2
  <2>4. QED
    BY <2>1, <2>2, <2>3 DEF d, r
<1>3. /\ Tests(c)!MAX_PUSH_MSG_COUNT \in Nat \ {0}
      /\ c.PUSH_CNT * Tests(c)!MAX_PUSH_MSG_COUNT <= c.MAX_MSG_COUNT
  <2>1. c.PUSH_CNT * (c.MAX_MSG_COUNT \div c.PUSH_CNT) \in 1..c.MAX_MSG_COUNT
    BY <1>1, <1>2, Zenon
  <2>2. c.MAX_MSG_COUNT \div c.PUSH_CNT \in Nat \ {0}
    BY <1>1, <1>2, Zenon
  <2>3. QED
    BY <2>1, <2>2 DEF Tests!MAX_PUSH_MSG_COUNT
<1>4. /\ Tests(c)!MAX_POP_MSG_COUNT \in Nat \ {0}
      /\ c.POP_CNT * Tests(c)!MAX_POP_MSG_COUNT \in 1..c.MAX_MSG_COUNT
      /\ c.MAX_MSG_COUNT % c.POP_CNT = 0 =>
           c.POP_CNT * Tests(c)!MAX_POP_MSG_COUNT = c.MAX_MSG_COUNT
  BY <1>1, <1>2, Zenon DEF Tests!MAX_POP_MSG_COUNT
<1>5. QED
  BY <1>1, <1>3, <1>4

\* What the tests that start tasks have in common: each message has one
\* producer, each entry of the list a consumer that is to write it, and only
\* one consumer of all the messages may go beyond the end.
Threaded(c, T) ==
  /\ T.producers \in 1..c.PUSH_CNT /\ T.consumers \in 1..c.POP_CNT
  /\ T.push.adds \in Nat \ {0} /\ T.push.quota \in {0, T.push.adds}
  /\ T.producers * T.push.adds <= c.MAX_MSG_COUNT
  /\ T.pop.quota \in Nat \ {0} /\ T.consumers * T.pop.quota <= c.MAX_MSG_COUNT
  /\ T.pop.events <=> T.verifiesEvents
OwnMessages(c, T) ==
  \A a, b \in 0..(T.producers - 1) : \A x, y \in 0..(T.push.adds - 1) :
    /\ Tests(c)!Message(a, x) \in Tests(c)!Messages
    /\ Tests(c)!Message(a, x) = Tests(c)!Message(b, y) => a = b /\ x = y
OwnPlaces(c, T) ==
  \A a, b \in 0..(T.consumers - 1) : \A x, y \in 0..(T.pop.quota - 1) :
    Tests(c)!Place(a, x) = Tests(c)!Place(b, y) => a = b /\ x = y
PlacesFit(c, T) ==
  /\ \A a \in 0..(T.consumers - 1) : \A x \in 0..(T.pop.quota - 1) :
       Tests(c)!Place(a, x) \notin Tests(c)!Places =>
         c.MAX_MSG_COUNT % c.POP_CNT # 0 /\ T.kind = "single"
  /\ \A p \in Tests(c)!Places :
       \E a \in 0..(T.consumers - 1) : \E x \in 0..(T.pop.quota - 1) : p = Tests(c)!Place(a, x)
Concurrent(c, T) == Threaded(c, T) /\ OwnMessages(c, T) /\ OwnPlaces(c, T) /\ PlacesFit(c, T)

\* The tests of several producers and consumers, which differ in the quota of
\* a producer without a queue and in the list.
LEMMA ManyTasks ==
  ASSUME NEW c \in Harnesses, NEW T,
         T.producers = c.PUSH_CNT, T.consumers = c.POP_CNT,
         T.push.adds = Tests(c)!MAX_PUSH_MSG_COUNT, T.push.quota \in {0, T.push.adds},
         T.pop.quota = Tests(c)!MAX_POP_MSG_COUNT,
         T.pop.events <=> T.verifiesEvents
  PROVE  Concurrent(c, T)
<1> DEFINE M == Tests(c)!MAX_PUSH_MSG_COUNT
           K == Tests(c)!MAX_POP_MSG_COUNT
<1> USE Quotas
<1>1. Threaded(c, T)
  BY DEF Threaded
<1>2. OwnMessages(c, T)
  <2> SUFFICES ASSUME NEW a \in 0..(T.producers - 1), NEW b \in 0..(T.producers - 1),
                      NEW x \in 0..(T.push.adds - 1), NEW y \in 0..(T.push.adds - 1)
               PROVE  /\ Tests(c)!Message(a, x) \in Tests(c)!Messages
                      /\ Tests(c)!Message(a, x) = Tests(c)!Message(b, y) => a = b /\ x = y
    BY DEF OwnMessages
  <2>1. a \in Nat /\ b \in Nat /\ x \in 0..(M - 1) /\ y \in 0..(M - 1) /\ M \in Nat
    OBVIOUS
  <2>2. a * M + x \in 0..(c.PUSH_CNT * M - 1)
    BY <2>1, DigitsBelow
  <2> HIDE DEF M
  <2>3. a * M + x + 1 \in Tests(c)!Messages
    BY <2>2, <2>1 DEF Tests!Messages, M
  <2>4. a * M \in Nat /\ b * M \in Nat
    BY <2>1
  <2>5. a * M + x + 1 = b * M + y + 1 => a * M + x = b * M + y
    BY <2>4, <2>1
  <2>6. a * M + x = b * M + y => a = b /\ x = y
    BY <2>1, Digits
  <2>7. QED
    BY <2>3, <2>5, <2>6 DEF Tests!Message, M
<1>3. OwnPlaces(c, T) /\ PlacesFit(c, T)
  <2>1. ASSUME NEW a \in 0..(T.consumers - 1), NEW b \in 0..(T.consumers - 1),
               NEW x \in 0..(T.pop.quota - 1), NEW y \in 0..(T.pop.quota - 1)
        PROVE  /\ Tests(c)!Place(a, x) = Tests(c)!Place(b, y) => a = b /\ x = y
               /\ Tests(c)!Place(a, x) \in Tests(c)!Places
    <3>1. a \in Nat /\ b \in Nat /\ x \in 0..(K - 1) /\ y \in 0..(K - 1) /\ K \in Nat
      OBVIOUS
    <3>2. a * K + x \in 0..(c.POP_CNT * K - 1)
      BY <3>1, DigitsBelow
    <3>3. a * K + x = b * K + y => a = b /\ x = y
      BY <3>1, Digits
    <3>4. QED
      BY <3>2, <3>3 DEF Tests!Place, Tests!Places
  <2>2. ASSUME NEW p \in Tests(c)!Places
        PROVE  \E a \in 0..(T.consumers - 1) : \E x \in 0..(T.pop.quota - 1) :
                 p = Tests(c)!Place(a, x)
    <3>1. p \in 0..(c.POP_CNT * K - 1)
      BY <2>2 DEF Tests!Places
    <3>2. p \div K \in Nat /\ p % K \in 0..(K - 1) /\ p = K * (p \div K) + (p % K)
      <4>1. p \in Nat /\ K \in Nat \ {0}
        BY <3>1
      <4> HIDE DEF K
      <4>2. QED
        BY <4>1, Division
    <3> DEFINE a == p \div K
               x == p % K
    <3> HIDE DEF a, x, K
    <3>3. K \in Nat \ {0} /\ a \in Nat /\ x \in 0..(K - 1) /\ p = K * a + x
      BY <3>2 DEF a, x, K
    <3>4. p = a * K + x /\ a * K < c.POP_CNT * K
      BY <3>1, <3>3
    <3>5. a < c.POP_CNT
      <4>1. ASSUME a >= c.POP_CNT PROVE a * K >= c.POP_CNT * K
        BY <4>1, <3>3, Z3
      <4>2. a * K \in Nat /\ c.POP_CNT * K \in Nat
        BY <3>3
      <4>3. QED
        BY <4>1, <4>2, <3>4, <3>3
    <3>6. a \in 0..(T.consumers - 1) /\ x \in 0..(T.pop.quota - 1)
      BY <3>3, <3>5 DEF K
    <3>7. QED
      BY <3>4, <3>6 DEF Tests!Place, K
  <2>3. QED
    BY <2>1, <2>2 DEF OwnPlaces, PlacesFit
<1>4. QED
  BY <1>1, <1>2, <1>3 DEF Concurrent

\* The test of one producer and one consumer.
LEMMA OneTaskEach ==
  ASSUME NEW c \in Harnesses
  PROVE  Concurrent(c, Tests(c)!SingleProducerSingleConsumer_Test)
<1> DEFINE T == Tests(c)!SingleProducerSingleConsumer_Test
           K == Tests(c)!MAX_POP_MSG_COUNT
<1> USE Quotas
<1>1. /\ T.kind = "single" /\ T.producers = 1 /\ T.consumers = 1
      /\ T.push.adds = c.MAX_MSG_COUNT /\ T.push.quota = c.MAX_MSG_COUNT
      /\ T.pop.quota = c.MAX_MSG_COUNT /\ T.pop.events = TRUE /\ T.verifiesEvents = TRUE
  BY DEF Tests!SingleProducerSingleConsumer_Test, Tests!single_push_task, Tests!single_pop_task
<1> HIDE DEF T, K
<1>2. Threaded(c, T)
  <2>1. 1 * c.MAX_MSG_COUNT <= c.MAX_MSG_COUNT
    OBVIOUS
  <2>2. 1 \in 1..c.PUSH_CNT /\ 1 \in 1..c.POP_CNT
    OBVIOUS
  <2>3. QED
    BY <1>1, <2>1, <2>2 DEF Threaded
<1>3. \A x \in Nat : Tests(c)!Message(0, x) = x + 1 /\ Tests(c)!Place(0, x) = x
  BY DEF Tests!Message, Tests!Place
<1>4. OwnMessages(c, T)
  BY <1>1, <1>3 DEF OwnMessages, Tests!Messages
<1>5. OwnPlaces(c, T) /\ PlacesFit(c, T)
  <2>1. Tests(c)!Places \subseteq 0..(c.MAX_MSG_COUNT - 1)
    BY DEF Tests!Places
  <2>2. c.MAX_MSG_COUNT % c.POP_CNT = 0 => Tests(c)!Places = 0..(c.MAX_MSG_COUNT - 1)
    BY DEF Tests!Places
  <2>3. \A a \in 0..(T.consumers - 1) : a = 0
    BY <1>1
  <2>4. \A x \in 0..(T.pop.quota - 1) : x \in Nat /\ x \in 0..(c.MAX_MSG_COUNT - 1)
    BY <1>1
  <2>5. ASSUME NEW p \in Tests(c)!Places
        PROVE  \E a \in 0..(T.consumers - 1) : \E x \in 0..(T.pop.quota - 1) :
                 p = Tests(c)!Place(a, x)
    <3>1. 0 \in 0..(T.consumers - 1) /\ p \in 0..(T.pop.quota - 1) /\ p \in Nat
      BY <2>1, <1>1
    <3>2. QED
      BY <3>1, <1>3
  <2>6. ASSUME NEW a \in 0..(T.consumers - 1), NEW b \in 0..(T.consumers - 1),
               NEW x \in 0..(T.pop.quota - 1), NEW y \in 0..(T.pop.quota - 1)
        PROVE  /\ Tests(c)!Place(a, x) = Tests(c)!Place(b, y) => a = b /\ x = y
               /\ Tests(c)!Place(a, x) \notin Tests(c)!Places =>
                    c.MAX_MSG_COUNT % c.POP_CNT # 0
    <3>1. /\ a = 0 /\ b = 0 /\ Tests(c)!Place(a, x) = x /\ Tests(c)!Place(b, y) = y
          /\ x \in 0..(c.MAX_MSG_COUNT - 1)
      BY <1>3, <2>3, <2>4
    <3>2. Tests(c)!Place(a, x) \notin Tests(c)!Places => c.MAX_MSG_COUNT % c.POP_CNT # 0
      BY <3>1, <2>2, Zenon
    <3>3. QED
      BY <3>1, <3>2, Zenon
  <2>7. QED
    BY <1>1, <2>5, <2>6 DEF OwnPlaces, PlacesFit
<1>6. QED
  BY <1>2, <1>4, <1>5 DEF Concurrent, T

\* The tests main can come to.
KnownTest(c) ==
  {Tests(c)!SerialRingQueue_Test, Tests(c)!SingleProducerSingleConsumer_Test, Tests(c)!q3_test}
  \union {Tests(c)!RingQueue_Test(f) :
            f \in Tests(c)!KnownTypes \union ({c.TEST_FUNC_TYPE} \ {0})}

\* main goes through tests of those kinds only.
LEMMA ProgramKnown ==
  ASSUME NEW c \in Harnesses
  PROVE  /\ Tests(c)!Program \in Seq(KnownTest(c))
         /\ Len(Tests(c)!Program) \in Nat
         /\ \A t \in 1..Len(Tests(c)!Program) : Tests(c)!Program[t] \in KnownTest(c)
<1> DEFINE S == KnownTest(c)
<1>1. \A f \in Tests(c)!KnownTypes : Tests(c)!RingQueue_Test(f) \in S
  BY DEF KnownTest
<1>2. c.TEST_FUNC_TYPE # 0 => Tests(c)!RingQueue_Test(c.TEST_FUNC_TYPE) \in S
  BY DEF KnownTest
<1>3. <<Tests(c)!SerialRingQueue_Test, Tests(c)!SingleProducerSingleConsumer_Test>> \in Seq(S)
  BY DEF KnownTest
<1>4. [t \in 1..5 |-> Tests(c)!RingQueue_Test(<<1, 2, 3, 10, 11>>[t])] \in Seq(S)
  <2>1. \A t \in 1..5 : <<1, 2, 3, 10, 11>>[t] \in Tests(c)!KnownTypes
    BY DEF Tests!KnownTypes, Tests!DisruptorTypes
  <2>2. \A t \in 1..5 : Tests(c)!RingQueue_Test(<<1, 2, 3, 10, 11>>[t]) \in S
    BY <2>1, <1>1
  <2> HIDE DEF S
  <2>3. QED
    BY <2>2
<1>5. c.TEST_FUNC_TYPE # 0 =>
        [t \in 1..3 |-> Tests(c)!RingQueue_Test(c.TEST_FUNC_TYPE)] \in Seq(S)
  <2> HIDE DEF S
  <2>1. QED
    BY <1>2
<1>6. << >> \in Seq(S) /\ <<Tests(c)!q3_test>> \in Seq(S)
  BY DEF KnownTest
<1> HIDE DEF S
<1>7. Tests(c)!Program \in Seq(S)
  BY <1>3, <1>4, <1>5, <1>6 DEF Tests!Program
<1>8. QED
  BY <1>7 DEF S

\* What the tests main can come to are like.
LEMMA KnownShape ==
  ASSUME NEW c \in Harnesses, NEW T \in KnownTest(c)
  PROVE  /\ T.kind \in {"multi", "q3", "single", "serial"}
         /\ T.kind # "serial" => Concurrent(c, T)
         /\ T.kind = "serial" => T.consumers = 0
<1>1. CASE T = Tests(c)!SerialRingQueue_Test
  BY <1>1 DEF Tests!SerialRingQueue_Test
<1>2. CASE T = Tests(c)!SingleProducerSingleConsumer_Test
  <2>1. T.kind = "single"
    BY <1>2 DEF Tests!SingleProducerSingleConsumer_Test
  <2>2. QED
    BY <1>2, <2>1, OneTaskEach
<1>3. CASE T = Tests(c)!q3_test
  <2>1. /\ T.producers = c.PUSH_CNT /\ T.consumers = c.POP_CNT /\ T.kind = "q3"
        /\ T.push.adds = Tests(c)!MAX_PUSH_MSG_COUNT /\ T.push.quota = T.push.adds
        /\ T.pop.quota = Tests(c)!MAX_POP_MSG_COUNT
        /\ T.pop.events = FALSE /\ T.verifiesEvents = FALSE
    BY <1>3 DEF Tests!q3_test, Tests!push_task, Tests!pop_task
  <2>2. QED
    BY <2>1, ManyTasks
<1>4. ASSUME NEW f \in Tests(c)!KnownTypes \union ({c.TEST_FUNC_TYPE} \ {0}),
             T = Tests(c)!RingQueue_Test(f)
      PROVE  T.kind = "multi" /\ Concurrent(c, T)
  <2>1. T = [kind |-> "multi", producers |-> c.PUSH_CNT, consumers |-> c.POP_CNT,
             push |-> Tests(c)!RingQueue_push_task(f), pop |-> Tests(c)!RingQueue_pop_task(f),
             verifiesEvents |-> f \in Tests(c)!DisruptorTypes]
    BY <1>4 DEF Tests!RingQueue_Test
  <2>2. /\ T.push.adds = Tests(c)!MAX_PUSH_MSG_COUNT /\ T.push.quota \in {0, T.push.adds}
    BY <2>1 DEF Tests!RingQueue_push_task
  <2>3. T.pop.quota = Tests(c)!MAX_POP_MSG_COUNT
    BY <2>1, <1>4 DEF Tests!RingQueue_pop_task
  <2>4. T.pop.events <=> T.verifiesEvents
    <3>1. T.verifiesEvents <=> f \in Tests(c)!DisruptorTypes
      BY <2>1
    <3>2. T.pop.events <=> f \in Tests(c)!DisruptorTypes
      BY <2>1 DEF Tests!RingQueue_pop_task
    <3>3. QED
      BY <3>1, <3>2
  <2>5. T.producers = c.PUSH_CNT /\ T.consumers = c.POP_CNT /\ T.kind = "multi"
    BY <2>1
  <2>6. QED
    BY <2>2, <2>3, <2>4, <2>5, ManyTasks
<1>5. QED
  BY <1>1, <1>2, <1>3, <1>4 DEF KnownTest

\* The test main is in is one of them.
LEMMA CurrentShape ==
  ASSUME NEW c \in Harnesses, n \in 1..Len(Tests(c)!Program)
  PROVE  /\ Test(c).kind \in {"multi", "q3", "single", "serial"}
         /\ Test(c).kind # "serial" => Concurrent(c, Test(c))
         /\ Test(c).kind = "serial" => Test(c).consumers = 0
  BY ProgramKnown, KnownShape DEF Test, Tests!Current

\* main stays in its test while n does.
LEMMA TestSame ==
  ASSUME NEW c, n' = n
  PROVE  Test(c)' = Test(c)
  BY DEF Test, Tests!Current

\* A list that has no message twice is reported without an overlay; all its
\* places filled, it is reported in full; and a message that is not in it or
\* a place that is empty is missing in the report.
LEMMA Verified ==
  ASSUME NEW c \in Harnesses,
         NEW list \in [Tests(c)!Places -> {0} \union Tests(c)!Messages],
         \A p, q \in Tests(c)!Places : list[p] = list[q] => p = q \/ list[p] = 0
  PROVE  LET v == Tests(c)!Verify(list) IN
         /\ v.overlay = 0
         /\ (\A p \in Tests(c)!Places : list[p] # 0) =>
              v = [empty |-> c.MAX_MSG_COUNT - Cardinality(Tests(c)!Places), overlay |-> 0,
                   correct |-> Cardinality(Tests(c)!Places)]
         /\ (\E p \in Tests(c)!Places : list[p] = 0) => v.correct < c.MAX_MSG_COUNT
         /\ (\E m \in Tests(c)!Messages : \A p \in Tests(c)!Places : list[p] # m) =>
              v.correct < c.MAX_MSG_COUNT
<1> DEFINE P == Tests(c)!Places
           M == Tests(c)!Messages
           MAX == c.MAX_MSG_COUNT
           At(m) == {p \in P : list[p] = m}
           F == {p \in P : list[p] # 0}
           Found == {m \in M : \E p \in P : list[p] = m}
<1>1. /\ MAX \in Nat \ {0} /\ IsFiniteSet(M) /\ Cardinality(M) = MAX
      /\ IsFiniteSet(P) /\ Cardinality(P) \in 1..MAX
  <2>1. /\ MAX \in Nat \ {0}
        /\ c.POP_CNT * Tests(c)!MAX_POP_MSG_COUNT \in 1..MAX
    BY Quotas
  <2>2. ASSUME NEW b \in Nat \ {0} PROVE IsFiniteSet(1..b) /\ Cardinality(1..b) = b
    BY FS_Interval
  <2>3. ASSUME NEW b \in 1..MAX PROVE IsFiniteSet(0..(b - 1)) /\ Cardinality(0..(b - 1)) = b
    BY FS_Interval
  <2>4. M = 1..MAX /\ P = 0..(c.POP_CNT * Tests(c)!MAX_POP_MSG_COUNT - 1)
    BY DEF Tests!Messages, Tests!Places
  <2> HIDE DEF P, M, MAX
  <2>5. QED
    BY <2>1, <2>2, <2>3, <2>4
<1>2. 0 \notin M
  BY DEF Tests!Messages
<1>3. DOMAIN list = P /\ \A p \in P : list[p] \in {0} \union M
  OBVIOUS
<1>4. \A p, q \in P : list[p] = list[q] => p = q \/ list[p] = 0
  OBVIOUS
<1>5. \A m : Tests(c)!Times(list, m) = Cardinality(At(m))
  BY <1>3, TestsCardinality DEF Tests!Times
<1> HIDE DEF P, M, MAX
<1>6. \A m \in M : Cardinality(At(m)) = IF m \in Found THEN 1 ELSE 0
  <2> SUFFICES ASSUME NEW m \in M
               PROVE  Cardinality(At(m)) = IF m \in Found THEN 1 ELSE 0
    OBVIOUS
  <2>1. CASE m \in Found
    <3>1. PICK p \in P : list[p] = m
      BY <2>1
    <3>2. At(m) = {p}
      BY <3>1, <1>2, <1>4
    <3>3. QED
      BY <3>2, <2>1, FS_Singleton
  <2>2. CASE m \notin Found
    <3>1. At(m) = {}
      BY <2>2
    <3>2. QED
      BY <3>1, <2>2, FS_EmptySet
  <2>3. QED
    BY <2>1, <2>2
<1>7. /\ {m \in M : Tests(c)!Times(list, m) = 0} = M \ Found
      /\ {m \in M : Tests(c)!Times(list, m) > 1} = {}
      /\ {m \in M : Tests(c)!Times(list, m) = 1} = Found
  <2>1. \A m \in M : Tests(c)!Times(list, m) = IF m \in Found THEN 1 ELSE 0
    BY <1>5, <1>6
  <2> HIDE DEF Found
  <2>2. Found \subseteq M
    BY DEF Found
  <2>3. QED
    BY <2>1, <2>2
<1>8. Tests(c)!Verify(list) =
        [empty |-> Cardinality(M \ Found), overlay |-> 0, correct |-> Cardinality(Found)]
  <2>1. Tests(c)!Verify(list) =
          [empty |-> Cardinality({m \in M : Tests(c)!Times(list, m) = 0}),
           overlay |-> Cardinality({m \in M : Tests(c)!Times(list, m) > 1}),
           correct |-> Cardinality({m \in M : Tests(c)!Times(list, m) = 1})]
    BY TestsCardinality DEF Tests!Verify, M
  <2>2. QED
    BY <2>1, <1>7, FS_EmptySet
<1>9. /\ IsFiniteSet(Found) /\ Cardinality(Found) \in Nat
      /\ Cardinality(M \ Found) = MAX - Cardinality(Found)
      /\ Cardinality(Found) <= MAX
      /\ Cardinality(Found) = MAX => Found = M
  <2>1. Found \subseteq M /\ M \cap Found = Found
    OBVIOUS
  <2> HIDE DEF Found
  <2>2. Found \in SUBSET M
    BY <2>1
  <2>3. QED
    BY <1>1, <2>1, <2>2, FS_Subset, FS_Difference, FS_CardinalityType
\* The filled places and the messages found are as many.
<1>10. Cardinality(Found) = Cardinality(F) /\ IsFiniteSet(F)
  <2> DEFINE f == [p \in F |-> list[p]]
  <2>1. F \in SUBSET P
    OBVIOUS
  <2>2. IsFiniteSet(F)
    BY <2>1, <1>1, FS_Subset
  <2>3. f \in [F -> Found]
    BY <1>3
  <2>4. \A m \in Found : \E p \in F : f[p] = m
    BY <1>2
  <2>5. \A p, q \in F : f[p] = f[q] => p = q
    BY <1>4
  <2> HIDE DEF f, F, Found
  <2>6. f \in Bijection(F, Found)
    BY <2>3, <2>4, <2>5 DEF Bijection, Injection, Surjection, IsInjective
  <2>7. QED
    BY <2>2, <2>6, FS_Bijection DEF ExistsBijection
<1>11. ASSUME \A p \in P : list[p] # 0
       PROVE  Cardinality(Found) = Cardinality(P)
  <2>1. F = P
    BY <1>11
  <2>2. QED
    BY <2>1, <1>10
<1>12. ASSUME NEW p \in P, list[p] = 0
       PROVE  Cardinality(Found) < MAX
  <2>1. F \in SUBSET P /\ F # P
    BY <1>12
  <2> HIDE DEF F, Found
  <2>2. Cardinality(F) <= Cardinality(P) /\ Cardinality(F) # Cardinality(P)
    BY <2>1, <1>1, FS_Subset
  <2>3. QED
    BY <2>2, <1>1, <1>9, <1>10
<1>13. ASSUME NEW m \in M, \A p \in P : list[p] # m
       PROVE  Cardinality(Found) < MAX
  <2>1. Found # M
    BY <1>13
  <2> HIDE DEF Found
  <2>2. QED
    BY <2>1, <1>1, <1>9
<1> HIDE DEF Found, F
<1>14. QED
  BY <1>8, <1>9, <1>11, <1>12, <1>13, <1>1 DEF P, M, MAX

\* While tasks run, main is in one of the tests that start them.
LEMMA InTestShape ==
  ASSUME NEW c \in Harnesses, Control(c), InTest
  PROVE  /\ Concurrent(c, Test(c)) /\ n \in Nat
         /\ Test(c).producers \in Nat \ {0} /\ Test(c).consumers \in Nat \ {0}
         /\ DOMAIN kids = Ids(c)
         /\ Pushers(c) \subseteq Ids(c) /\ Poppers(c) \subseteq Ids(c)
         /\ \A j \in Ids(c) : j \in Nat /\ (j \in Pushers(c) \/ j \in Poppers(c))
<1>1. n \in 1..Len(Tests(c)!Program) /\ Test(c).kind # "serial" /\ DOMAIN kids = Ids(c)
  <2>1. /\ n \in 0..Len(Tests(c)!Program) /\ n >= 1
        /\ Test(c).kind # "serial" /\ DOMAIN kids = Ids(c)
    BY DEF Control
  <2>2. Len(Tests(c)!Program) \in Nat
    BY ProgramKnown
  <2>3. QED
    BY <2>1, <2>2
<1>2. Concurrent(c, Test(c))
  BY <1>1, CurrentShape
<1>3. Test(c).producers \in Nat \ {0} /\ Test(c).consumers \in Nat \ {0}
  BY <1>2, Quotas DEF Concurrent, Threaded
<1>4. n \in Nat
  BY <1>1, ProgramKnown
<1>5. QED
  BY <1>1, <1>2, <1>3, <1>4 DEF Ids, Pushers, Poppers

\* The program begins before its first test, with nothing created or recorded.
LEMMA TestsInitInv ==
  ASSUME NEW c \in Harnesses, Tests(c)!Init
  PROVE  TestsInv(c)
<1> USE DEF Tests!Init
<1>1. Control(c)
  <2>1. Len(Tests(c)!Program) \in Nat
    BY ProgramKnown
  <2>2. QED
    BY <2>1 DEF Control, InTest
<1>2. TasksOK(c)
  BY DEF TasksOK
<1>3. ListsOK(c)
  BY Quotas DEF ListsOK, Tests!Blank
<1>4. OverrunOK(c)
  BY DEF OverrunOK, Tests!OverrunOnlyIfUneven
<1>5. Data(c)
  BY DEF Data, InTest
<1>6. Totals(c)
  BY Quotas DEF Totals
<1>7. Reports(c)
  BY DEF Reports, Tests!ReportExact, Tests!NoFalseReport, Tests!Reported
<1>8. QED
  BY <1>1, <1>2, <1>3, <1>4, <1>5, <1>6, <1>7 DEF TestsInv

\* A task belongs to a thread of the test main is in that was created.
LEMMA TaskKnown ==
  ASSUME NEW c \in Harnesses, Control(c), TasksOK(c), NEW t \in DOMAIN running
  PROVE  /\ InTest
         /\ \E j \in Ids(c) : /\ t = Kid(j) /\ kids[j] = t /\ Alive(j) /\ Created(j)
                              /\ running[t] \in TaskOf(c, j)
                              /\ running[t].added =>
                                   j \in Pushers(c) /\ running[t].count = Test(c).push.quota
                              /\ j \in Pushers(c) <=> running[t].role = "push"
                              /\ j \in Poppers(c) <=> running[t].role = "pop"
<1>1. InTest
  BY DEF Control
<1>2. PICK j \in DOMAIN kids :
        /\ t = Kid(j) /\ kids[j] = t
        /\ running[t] \in TaskOf(c, j)
        /\ running[t].added => j \in Pushers(c) /\ running[t].count = Test(c).push.quota
  BY DEF TasksOK
<1>3. j \in Ids(c) /\ j \in Nat /\ n \in Nat /\ Test(c).producers \in Nat
  BY <1>1, <1>2, InTestShape
<1>4. Alive(j) /\ Created(j)
  BY <1>2, <1>3 DEF Alive, Created, Kid
<1>5. /\ j \in Pushers(c) <=> running[t].role = "push"
      /\ j \in Poppers(c) <=> running[t].role = "pop"
  BY <1>2, <1>3 DEF TaskOf, Pushers, Poppers, Ids
<1>6. QED
  BY <1>1, <1>2, <1>3, <1>4, <1>5

\* main's control and the handles.
LEMMA MainControl ==
  ASSUME NEW c \in Harnesses, Control(c), TasksOK(c), Tests(c)!Main
  PROVE  Control(c)'
<1> DEFINE L == Len(Tests(c)!Program)
<1>0. L \in Nat /\ \A t \in 1..L : Tests(c)!Program[t] \in KnownTest(c)
  BY ProgramKnown
<1>1. CASE Tests(c)!BeginTest
  <2>1. /\ mainPc = "next" /\ n < L /\ n' = n + 1 /\ i' = 0 /\ mainPc' = "start"
        /\ running' = running /\ Tests(c)!Program[n + 1].kind # "serial"
        /\ kids' = [t \in 0..(Tests(c)!Program[n + 1].producers
                               + Tests(c)!Program[n + 1].consumers - 1) |-> <<0, 0>>]
    BY <1>1 DEF Tests!BeginTest, Tests!NoKid
  <2>2. Test(c)' = Tests(c)!Program[n + 1]
    BY <2>1 DEF Test, Tests!Current
  <2>3. n \in 0..L
    BY DEF Control
  <2>4. n + 1 \in 1..L /\ n' # 0
    BY <1>0, <2>1, <2>3
  <2>5. Concurrent(c, Tests(c)!Program[n + 1])
    BY <1>0, <2>1, <2>4, KnownShape
  <2>6. (Test(c)').producers \in Nat /\ (Test(c)').consumers \in Nat
    BY <2>2, <2>5, Quotas DEF Concurrent, Threaded
  <2>7. kids' = [t \in Ids(c)' |-> <<0, 0>>]
    BY <2>1, <2>2 DEF Ids
  <2>8. ~(mainPc' = "join")
    BY <2>1
  <2>9. \A j \in DOMAIN kids' : kids'[j] = <<0, 0>>
    BY <2>7
  <2>10. QED
    BY <1>0, <2>1, <2>2, <2>4, <2>6, <2>7, <2>8, <2>9 DEF Control, InTest, Created
<1>2. CASE Tests(c)!SerialTest
  <2>1. /\ mainPc = "next" /\ n < L /\ n' = n + 1 /\ i' = i /\ mainPc' = "next"
        /\ running' = running /\ Tests(c)!Program[n + 1].kind = "serial"
        /\ kids' = << >>
    BY <1>2 DEF Tests!SerialTest
  <2>2. Test(c)' = Tests(c)!Program[n + 1]
    BY <2>1 DEF Test, Tests!Current
  <2>3. n \in 0..L /\ i = 0 /\ DOMAIN running = {}
    BY <2>1 DEF Control, InTest
  <2>4. n' \in 0..L
    BY <1>0, <2>1, <2>3
  <2>5. QED
    BY <2>1, <2>2, <2>3, <2>4 DEF Control, InTest
<1>3. CASE Tests(c)!StartTask
  <2>1. /\ mainPc = "start" /\ mainPc' = mainPc /\ i \in DOMAIN kids /\ i' = i + 1 /\ n' = n
    BY <1>3 DEF Tests!StartTask
  <2>2. /\ kids' = [kids EXCEPT ![i] = <<n, i + 1>>] \/ kids' = kids
    BY <1>3 DEF Tests!StartTask
  <2>3. Test(c)' = Test(c) /\ Ids(c)' = Ids(c)
    BY <2>1, TestSame DEF Ids
  <2>4. InTest /\ InTest' /\ DOMAIN kids = Ids(c) /\ \A j \in Ids(c) : j \in Nat
    BY <2>1, InTestShape DEF InTest
  <2>5. DOMAIN kids' = DOMAIN kids /\ \A j \in DOMAIN kids : kids'[j] \in {kids[j], Kid(j)}
    BY <2>2 DEF Kid
  <2>6. \A j \in DOMAIN kids : kids'[j] \in {<<0, 0>>, Kid(j)} /\ Kid(j)' = Kid(j)
    BY <2>5, <2>1 DEF Control, Kid
  <2>7. \A j \in DOMAIN kids : j >= i + 1 => kids'[j] = kids[j] /\ ~Created(j)
    BY <2>2, <2>1, <2>4 DEF Control
  <2>8. i + 1 \in Nat /\ i + 1 <= Test(c).producers + Test(c).consumers
    BY <2>1, <2>4, InTestShape DEF Ids
  <2>9. QED
    BY <2>1, <2>3, <2>4, <2>5, <2>6, <2>7, <2>8 DEF Control, Created, InTest
<1>4. CASE Tests(c)!AllStarted
  <2>1. /\ mainPc = "start" /\ mainPc' = "join" /\ i' = 0 /\ n' = n
        /\ kids' = kids /\ running' = running
    BY <1>4 DEF Tests!AllStarted
  <2>2. Test(c)' = Test(c) /\ Ids(c)' = Ids(c)
    BY <2>1, TestSame DEF Ids
  <2>3. InTest /\ InTest' /\ \A j \in DOMAIN kids : j \in Nat
    BY <2>1, InTestShape DEF InTest
  <2>4. i' \in Nat /\ i' <= Test(c).producers + Test(c).consumers
    BY <2>1, <2>3, InTestShape
  <2>5. \A j \in DOMAIN kids : ~(j < i')
    BY <2>1, <2>3
  <2>6. QED
    BY <2>1, <2>2, <2>3, <2>4, <2>5 DEF Control, Kid, InTest
<1>5. CASE Tests(c)!Join
  <2>1. /\ mainPc = "join" /\ i \in DOMAIN kids /\ kids[i] \notin DOMAIN running /\ n' = n
        /\ kids' = kids /\ running' = running
    BY <1>5 DEF Tests!Join, Tests!Joined
  <2>2. (mainPc' = "join" /\ i' = i + 1) \/ (mainPc' = "faulted" /\ i' = i)
    BY <1>5 DEF Tests!Join
  <2>3. Test(c)' = Test(c) /\ Ids(c)' = Ids(c)
    BY <2>1, TestSame DEF Ids
  <2>4. InTest /\ InTest' /\ DOMAIN kids = Ids(c) /\ \A j \in DOMAIN kids : j \in Nat
    BY <2>1, <2>2, InTestShape DEF InTest
  <2>5. ~Alive(i)
    <3> SUFFICES ASSUME Alive(i) PROVE FALSE
      OBVIOUS
    <3>1. PICK j \in Ids(c) : Kid(i) = Kid(j) /\ kids[j] = Kid(i)
      BY TaskKnown DEF Alive
    <3>2. i = j
      BY <3>1, <2>1, <2>4 DEF Kid
    <3>3. QED
      BY <3>1, <3>2, <2>1 DEF Alive
  <2>6. \A j \in DOMAIN kids : j < i + 1 => ~Alive(j)
    BY <2>1, <2>4, <2>5 DEF Control
  <2>7. i + 1 \in Nat /\ i + 1 <= Test(c).producers + Test(c).consumers
    BY <2>1, <2>4, InTestShape DEF Ids
  <2>8. QED
    BY <2>1, <2>2, <2>3, <2>4, <2>6, <2>7 DEF Control, Kid, Alive, InTest
<1>6. CASE Tests(c)!EndTest
  <2>1. /\ mainPc = "join" /\ i \notin DOMAIN kids /\ i' = 0 /\ n' = n /\ mainPc' = "next"
        /\ kids' = kids /\ running' = running
    BY <1>6 DEF Tests!EndTest, Tests!Joined
  <2>2. Test(c)' = Test(c) /\ Ids(c)' = Ids(c)
    BY <2>1, TestSame DEF Ids
  <2>3. InTest /\ ~InTest' /\ DOMAIN kids = Ids(c) /\ \A j \in DOMAIN kids : j \in Nat
    BY <2>1, InTestShape DEF InTest
  <2>4. \A j \in DOMAIN kids : j < i
    BY <2>1, <2>3, InTestShape DEF Control, Ids
  <2>5. DOMAIN running = {}
    <3>1. ASSUME NEW t \in DOMAIN running PROVE FALSE
      <4>1. PICK j \in Ids(c) : Alive(j)
        BY TaskKnown
      <4>2. QED
        BY <4>1, <2>1, <2>3, <2>4 DEF Control
    <3>2. QED
      BY <3>1
  <2>6. QED
    BY <2>1, <2>2, <2>3, <2>5 DEF Control, Kid
<1>7. CASE Tests(c)!Done
  <2>1. /\ mainPc = "next" /\ i' = i /\ n' = n /\ mainPc' = "done"
        /\ kids' = kids /\ running' = running
    BY <1>7 DEF Tests!Done
  <2>2. Test(c)' = Test(c) /\ Ids(c)' = Ids(c)
    BY <2>1, TestSame DEF Ids
  <2>3. QED
    BY <2>1, <2>2 DEF Control, Kid, InTest
<1>8. QED
  BY <1>1, <1>2, <1>3, <1>4, <1>5, <1>6, <1>7 DEF Tests!Main

\* What a task's step leaves alone.
LEMMA TaskFrame ==
  ASSUME NEW c \in Harnesses, NEW t \in DOMAIN running, Tests(c)!Task(t)
  PROVE  /\ mainPc' = mainPc /\ n' = n /\ i' = i /\ kids' = kids /\ report' = report
         /\ DOMAIN running' \subseteq DOMAIN running
         /\ \A u \in DOMAIN running' : u # t => running'[u] = running[u]
  BY DEF Tests!Task, Tests!TaskPush, Tests!TaskPushTotal, Tests!TaskPushQuit, Tests!TaskPop,
         Tests!TaskPopTotal, Tests!mainVars, Tests!Count, Tests!Return

\* The tasks' steps leave main's control alone.
LEMMA TaskControl ==
  ASSUME NEW c \in Harnesses, Control(c), TasksOK(c),
         NEW t \in DOMAIN running, Tests(c)!Task(t)
  PROVE  Control(c)'
<1>1. /\ mainPc' = mainPc /\ n' = n /\ i' = i /\ kids' = kids
      /\ DOMAIN running' \subseteq DOMAIN running
  BY TaskFrame
<1>2. Test(c)' = Test(c) /\ Ids(c)' = Ids(c)
  BY <1>1, TestSame DEF Ids
<1>3. QED
  BY <1>1, <1>2 DEF Control, Kid, Alive, Created, InTest

\* A step of the program is one of main or of a task.
LEMMA TestsNext ==
  ASSUME NEW c \in Harnesses, Tests(c)!Next
  PROVE  Tests(c)!Main \/ \E t \in DOMAIN running : Tests(c)!Task(t)
  BY DEF Tests!Next

\* Every step keeps main's control.
LEMMA StepControl ==
  ASSUME NEW c \in Harnesses, Control(c), TasksOK(c), Tests(c)!Next
  PROVE  Control(c)'
  BY TestsNext, MainControl, TaskControl

\* The tasks.
LEMMA StepTasks ==
  ASSUME NEW c \in Harnesses, Control(c), TasksOK(c), Tests(c)!Next
  PROVE  TasksOK(c)'
<1>1. CASE Tests(c)!BeginTest \/ Tests(c)!SerialTest \/ Tests(c)!Done
  <2>1. mainPc = "next" /\ running' = running
    BY <1>1 DEF Tests!BeginTest, Tests!SerialTest, Tests!Done
  <2>2. DOMAIN running = {}
    BY <2>1 DEF Control, InTest
  <2>3. QED
    BY <2>1, <2>2 DEF TasksOK
<1>2. CASE Tests(c)!AllStarted \/ Tests(c)!Join \/ Tests(c)!EndTest
  <2>1. n' = n /\ kids' = kids /\ running' = running
    BY <1>2 DEF Tests!AllStarted, Tests!Join, Tests!EndTest
  <2>2. Test(c)' = Test(c)
    BY <2>1, TestSame
  <2>3. QED
    BY <2>1, <2>2 DEF TasksOK, TaskOf, Kid, Pushers, Quota
<1>3. CASE Tests(c)!StartTask
  <2>1. /\ mainPc = "start" /\ i \in DOMAIN kids /\ n' = n
    BY <1>3 DEF Tests!StartTask
  <2>2. \/ kids' = kids /\ running' = running
        \/ /\ kids' = [kids EXCEPT ![i] = Kid(i)]
           /\ running' = [u \in DOMAIN running \union {Kid(i)} |->
                            IF u \in DOMAIN running THEN running[u] ELSE Tests(c)!NewTask(i)]
    BY <1>3 DEF Tests!StartTask, Kid
  <2>3. Test(c)' = Test(c) /\ Pushers(c)' = Pushers(c)
    BY <2>1, TestSame DEF Pushers
  <2>4. \A j : TaskOf(c, j)' = TaskOf(c, j) /\ Kid(j)' = Kid(j)
    BY <2>1, <2>3 DEF TaskOf, Kid, Quota
  <2>5. InTest /\ Concurrent(c, Test(c)) /\ i \in Ids(c) /\ i \in Nat
    BY <2>1, InTestShape DEF InTest
  <2>6. ~Created(i)
    BY <2>1, <2>5 DEF Control
  <2>7. CASE kids' = kids /\ running' = running
    BY <2>3, <2>4, <2>7 DEF TasksOK
  <2>8. CASE /\ kids' = [kids EXCEPT ![i] = Kid(i)]
             /\ running' = [u \in DOMAIN running \union {Kid(i)} |->
                             IF u \in DOMAIN running THEN running[u] ELSE Tests(c)!NewTask(i)]
    <3>1. ASSUME NEW u \in DOMAIN running
          PROVE  \E j \in DOMAIN kids' :
                   /\ u = Kid(j) /\ kids'[j] = u /\ running'[u] \in TaskOf(c, j)
                   /\ running'[u].added =>
                        j \in Pushers(c) /\ running'[u].count = Test(c).push.quota
      <4>1. PICK j \in DOMAIN kids :
                   /\ u = Kid(j) /\ kids[j] = u /\ running[u] \in TaskOf(c, j)
                   /\ running[u].added => j \in Pushers(c) /\ running[u].count = Test(c).push.quota
        BY DEF TasksOK
      <4>2. j \in DOMAIN kids' /\ kids'[j] = u /\ running'[u] = running[u]
        BY <2>8, <4>1
      <4>3. QED
        BY <4>1, <4>2
    <3>2. ASSUME NEW u, u = Kid(i), u \notin DOMAIN running
          PROVE  /\ i \in DOMAIN kids' /\ kids'[i] = u /\ running'[u] \in TaskOf(c, i)
                 /\ ~running'[u].added
      <4>1. running'[u] = Tests(c)!NewTask(i) /\ i \in DOMAIN kids' /\ kids'[i] = u
        BY <2>8, <2>1, <3>2
      <4>2. Test(c).producers \in Nat /\ Quota(c, i) \in Nat
        BY <2>5, Quotas DEF Concurrent, Threaded, Quota
      <4>3. Tests(c)!NewTask(i) =
              [role |-> IF i < Test(c).producers THEN "push" ELSE "pop",
               idx |-> IF i < Test(c).producers THEN i ELSE i - Test(c).producers,
               count |-> 0, added |-> FALSE]
        BY DEF Tests!NewTask, Test
      <4>4. Tests(c)!NewTask(i) \in TaskOf(c, i) /\ ~Tests(c)!NewTask(i).added
        BY <4>2, <4>3 DEF TaskOf
      <4>5. QED
        BY <4>1, <4>4
    <3>3. DOMAIN running' = DOMAIN running \union {Kid(i)}
      BY <2>8
    <3>4. QED
      BY <3>1, <3>2, <3>3, <2>3, <2>4 DEF TasksOK
  <2>9. QED
    BY <2>2, <2>7, <2>8
<1>4. ASSUME NEW t \in DOMAIN running, Tests(c)!Task(t)
      PROVE  TasksOK(c)'
  <2>1. /\ n' = n /\ kids' = kids /\ DOMAIN running' \subseteq DOMAIN running
        /\ \A u \in DOMAIN running' : u # t => running'[u] = running[u]
    BY <1>4, TaskFrame
  <2>2. Test(c)' = Test(c) /\ Pushers(c)' = Pushers(c)
    BY <2>1, TestSame DEF Pushers
  <2>3. \A j : TaskOf(c, j)' = TaskOf(c, j) /\ Kid(j)' = Kid(j)
    BY <2>1, <2>2 DEF TaskOf, Kid, Quota
  <2>4. PICK j \in Ids(c) :
          /\ t = Kid(j) /\ kids[j] = t /\ running[t] \in TaskOf(c, j)
          /\ running[t].added => j \in Pushers(c) /\ running[t].count = Test(c).push.quota
          /\ j \in Pushers(c) <=> running[t].role = "push"
          /\ j \in Poppers(c) <=> running[t].role = "pop"
    BY TaskKnown
  <2>5. InTest /\ Concurrent(c, Test(c)) /\ j \in DOMAIN kids
    BY TaskKnown, InTestShape
  <2>6. /\ t[1] = n /\ Tests(c)!TestOf(t) = Test(c)
    BY <2>4 DEF Tests!TestOf, Kid, Test, Tests!Current
  <2>7. Test(c).push.quota \in Nat /\ Test(c).pop.quota \in Nat /\ Test(c).producers \in Nat
    BY <2>5, Quotas DEF Concurrent, Threaded
  <2>8. /\ j \in Pushers(c) => Quota(c, j) = Test(c).push.quota
        /\ j \in Poppers(c) => Quota(c, j) = Test(c).pop.quota
    BY <2>7 DEF Pushers, Poppers, Quota
  <2>9. t \in DOMAIN running' =>
          /\ running'[t] \in TaskOf(c, j)
          /\ running'[t].added => j \in Pushers(c) /\ running'[t].count = Test(c).push.quota
    <3>1. CASE Tests(c)!TaskPush(t)
      <4>1. /\ running' = [running EXCEPT ![t].count = running[t].count + 1]
            /\ running[t].role = "push" /\ running[t].count < Test(c).push.quota
        BY <3>1, <2>6 DEF Tests!TaskPush, Tests!Count
      <4>2. QED
        BY <4>1, <2>4, <2>7, <2>8 DEF TaskOf
    <3>2. CASE Tests(c)!TaskPushTotal(t)
      <4>1. /\ running[t].role = "push" /\ running[t].count = Test(c).push.quota
            /\ t \in DOMAIN running' =>
                 running'[t] = [running[t] EXCEPT !.added = TRUE]
        BY <3>2, <2>6 DEF Tests!TaskPushTotal, Tests!Return
      <4>2. j \in Pushers(c) /\ running[t] \in TaskOf(c, j)
        BY <4>1, <2>4
      <4>3. /\ [running[t] EXCEPT !.added = TRUE] \in TaskOf(c, j)
            /\ [running[t] EXCEPT !.added = TRUE].count = running[t].count
        BY <4>2 DEF TaskOf
      <4>4. QED
        BY <4>1, <4>2, <4>3
    <3>3. CASE Tests(c)!TaskPushQuit(t) \/ Tests(c)!TaskPopTotal(t)
      BY <3>3 DEF Tests!TaskPushQuit, Tests!TaskPopTotal, Tests!Return
    <3>4. CASE Tests(c)!TaskPop(t)
      <4>1. /\ running' = [running EXCEPT ![t].count = running[t].count + 1]
            /\ running[t].role = "pop" /\ running[t].count < Test(c).pop.quota
        BY <3>4, <2>6 DEF Tests!TaskPop, Tests!Count
      <4>2. ~(j \in Pushers(c))
        BY <4>1, <2>4
      <4>3. QED
        BY <4>1, <4>2, <2>4, <2>7, <2>8 DEF TaskOf
    <3>5. QED
      BY <1>4, <3>1, <3>2, <3>3, <3>4 DEF Tests!Task
  <2>10. ASSUME NEW u \in DOMAIN running'
         PROVE  \E o \in DOMAIN kids' :
                   /\ u = Kid(o) /\ kids'[o] = u /\ running'[u] \in TaskOf(c, o)
                   /\ running'[u].added =>
                        o \in Pushers(c) /\ running'[u].count = Test(c).push.quota
    <3>1. CASE u = t
      BY <2>1, <2>4, <2>5, <2>9, <2>10, <3>1
    <3>2. CASE u # t
      BY <2>1, <2>10, <3>2 DEF TasksOK
    <3>3. QED
      BY <3>1, <3>2
  <2>11. QED
    BY <2>10, <2>2, <2>3 DEF TasksOK
<1>5. QED
  BY TestsNext, <1>1, <1>2, <1>3, <1>4 DEF Tests!Main

\* What a task's step does to the data: it moves its next message into the
\* queue, or from there to its next place, or moves nothing.
MovedBy(c, j, d) ==
  /\ Moved(c, j)' = Moved(c, j) + d
  /\ \A o \in Ids(c) : o # j => Moved(c, o)' = Moved(c, o)
PushEffect(c) ==
  \E j \in Pushers(c) :
    /\ Moved(c, j) \in 0..(Test(c).push.adds - 1)
    /\ Len(queue) < c.QSIZE
    /\ queue' = Append(queue, Tests(c)!Message(j, Moved(c, j)))
    /\ UNCHANGED <<popmsg_list, dis_popevent_list, overrun>>
    /\ MovedBy(c, j, 1)
PopEffect(c) ==
  \E j \in Poppers(c) : \E p :
    /\ Moved(c, j) \in 0..(Test(c).pop.quota - 1)
    /\ p = Tests(c)!Place(j - Test(c).producers, Moved(c, j))
    /\ queue # << >> /\ queue' = Tail(queue)
    /\ p \notin Tests(c)!Places =>
         overrun' = overrun \union {n} /\ UNCHANGED <<popmsg_list, dis_popevent_list>>
    /\ p \in Tests(c)!Places /\ Test(c).verifiesEvents =>
         /\ dis_popevent_list' = [dis_popevent_list EXCEPT ![p] = Head(queue)]
         /\ UNCHANGED <<popmsg_list, overrun>>
    /\ p \in Tests(c)!Places /\ ~Test(c).verifiesEvents =>
         /\ popmsg_list' = [popmsg_list EXCEPT ![p] = Head(queue)]
         /\ UNCHANGED <<dis_popevent_list, overrun>>
    /\ MovedBy(c, j, 1)
NoEffect(c) ==
  /\ UNCHANGED <<queue, popmsg_list, dis_popevent_list, overrun>>
  /\ \A o \in Ids(c) : Moved(c, o)' = Moved(c, o)

\* A step of task t, which is thread j's, changes what j has moved only.
LEMMA OthersKeep ==
  ASSUME NEW c \in Harnesses, Control(c), TasksOK(c), NEW t \in DOMAIN running, Tests(c)!Task(t),
         NEW j \in Ids(c), t = Kid(j), NEW o \in Ids(c), o # j
  PROVE  Moved(c, o)' = Moved(c, o)
<1>1. /\ n' = n /\ kids' = kids /\ Test(c)' = Test(c)
      /\ DOMAIN running' \subseteq DOMAIN running
      /\ \A u \in DOMAIN running' : u # t => running'[u] = running[u]
  BY TaskFrame, TestSame
<1>2. DOMAIN running \ {t} \subseteq DOMAIN running'
  BY DEF Tests!Task, Tests!TaskPush, Tests!TaskPushTotal, Tests!TaskPushQuit, Tests!TaskPop,
         Tests!TaskPopTotal, Tests!Count, Tests!Return
<1>3. Kid(o) # t /\ Kid(o)' = Kid(o)
  <2>1. j \in Nat /\ o \in Nat
    BY TaskKnown, InTestShape
  <2>2. QED
    BY <2>1, <1>1 DEF Kid
<1>4. Alive(o)' = Alive(o) /\ (Alive(o) => running'[Kid(o)] = running[Kid(o)])
  BY <1>1, <1>2, <1>3 DEF Alive
<1>5. Quota(c, o)' = Quota(c, o) /\ Created(o)' = Created(o)
  BY <1>1 DEF Quota, Created
<1>6. QED
  BY <1>1, <1>3, <1>4, <1>5 DEF Moved

\* Those are all the effects a task's step can have.
LEMMA TaskEffects ==
  ASSUME NEW c \in Harnesses, Control(c), TasksOK(c), NEW t \in DOMAIN running, Tests(c)!Task(t)
  PROVE  PushEffect(c) \/ PopEffect(c) \/ NoEffect(c)
<1>1. /\ n' = n /\ kids' = kids /\ Test(c)' = Test(c)
  BY TaskFrame, TestSame
<1>2. PICK j \in Ids(c) :
        /\ t = Kid(j) /\ kids[j] = t /\ Alive(j) /\ Created(j)
        /\ running[t] \in TaskOf(c, j)
        /\ running[t].added => j \in Pushers(c) /\ running[t].count = Test(c).push.quota
        /\ j \in Pushers(c) <=> running[t].role = "push"
        /\ j \in Poppers(c) <=> running[t].role = "pop"
  BY TaskKnown
<1>3. InTest /\ Concurrent(c, Test(c)) /\ j \in DOMAIN kids
  BY TaskKnown, InTestShape
<1>4. /\ t[1] = n /\ Tests(c)!TestOf(t) = Test(c)
  BY <1>2 DEF Tests!TestOf, Kid, Test, Tests!Current
<1>5. /\ Test(c).push.quota \in Nat /\ Test(c).pop.quota \in Nat /\ Test(c).producers \in Nat
      /\ Test(c).push.adds \in Nat /\ Test(c).push.quota <= Test(c).push.adds
      /\ Test(c).pop.events <=> Test(c).verifiesEvents
  BY <1>3, Quotas DEF Concurrent, Threaded
<1>6. /\ j \in Pushers(c) => Quota(c, j) = Test(c).push.quota
      /\ j \in Poppers(c) => Quota(c, j) = Test(c).pop.quota
  BY <1>5 DEF Pushers, Poppers, Quota
<1>7. Moved(c, j) = running[t].count /\ running[t].count \in Nat
  <2>1. Quota(c, j) \in Nat
    BY <1>5 DEF Quota
  <2>2. QED
    BY <1>2, <2>1 DEF Moved, TaskOf
<1>8. Quota(c, j)' = Quota(c, j) /\ Created(j)' /\ Kid(j)' = t
  BY <1>1, <1>2 DEF Quota, Created, Kid
<1>9. ASSUME running' = [running EXCEPT ![t].count = running[t].count + 1]
      PROVE  MovedBy(c, j, 1)
  <2>1. t \in DOMAIN running' /\ running'[t].count = running[t].count + 1
    BY <1>9, <1>2 DEF TaskOf
  <2>2. Moved(c, j)' = running[t].count + 1
    BY <2>1, <1>8 DEF Moved, Alive
  <2>3. QED
    BY <2>2, <1>2, <1>7, OthersKeep DEF MovedBy
<1>10. ASSUME running' = [u \in DOMAIN running \ {t} |-> running[u]],
              running[t].count = Quota(c, j)
       PROVE  \A o \in Ids(c) : Moved(c, o)' = Moved(c, o)
  <2>1. t \notin DOMAIN running'
    BY <1>10
  <2>2. Moved(c, j)' = Quota(c, j)
    BY <2>1, <1>8 DEF Moved, Alive
  <2>3. QED
    BY <2>2, <1>2, <1>7, <1>10, OthersKeep
<1>11. CASE Tests(c)!TaskPush(t)
  <2>1. /\ running' = [running EXCEPT ![t].count = running[t].count + 1]
        /\ running[t].role = "push" /\ running[t].count < Test(c).push.quota
        /\ Len(queue) < c.QSIZE
        /\ queue' = Append(queue, Tests(c)!Message(running[t].idx, running[t].count))
        /\ UNCHANGED <<popmsg_list, dis_popevent_list, overrun>>
    BY <1>11, <1>4 DEF Tests!TaskPush, Tests!Count
  <2>2. j \in Pushers(c) /\ running[t].idx = j
    BY <2>1, <1>2, <1>5 DEF TaskOf, Pushers
  <2>3. running[t].count \in 0..(Test(c).push.adds - 1)
    BY <2>1, <1>5, <1>7
  <2>4. QED
    BY <2>1, <2>2, <2>3, <1>7, <1>9 DEF PushEffect
<1>12. CASE Tests(c)!TaskPop(t)
  <2> DEFINE p == Tests(c)!Place(running[t].idx, running[t].count)
  <2>1. /\ running' = [running EXCEPT ![t].count = running[t].count + 1]
        /\ running[t].role = "pop" /\ running[t].count < Test(c).pop.quota
        /\ queue # << >> /\ queue' = Tail(queue)
    BY <1>12, <1>4 DEF Tests!TaskPop, Tests!Count
  <2>2. /\ p \notin Tests(c)!Places =>
             overrun' = overrun \union {n} /\ UNCHANGED <<popmsg_list, dis_popevent_list>>
        /\ p \in Tests(c)!Places /\ Test(c).verifiesEvents =>
             /\ dis_popevent_list' = [dis_popevent_list EXCEPT ![p] = Head(queue)]
             /\ UNCHANGED <<popmsg_list, overrun>>
        /\ p \in Tests(c)!Places /\ ~Test(c).verifiesEvents =>
             /\ popmsg_list' = [popmsg_list EXCEPT ![p] = Head(queue)]
             /\ UNCHANGED <<dis_popevent_list, overrun>>
    BY <1>12, <1>4, <1>5 DEF Tests!TaskPop
  <2>3. j \in Poppers(c) /\ running[t].idx = j - Test(c).producers
    BY <2>1, <1>2, <1>5 DEF TaskOf, Poppers
  <2>4. running[t].count \in 0..(Test(c).pop.quota - 1)
    BY <2>1, <1>5, <1>7
  <2>5. MovedBy(c, j, 1)
    BY <2>1, <1>9
  <2>6. p = Tests(c)!Place(j - Test(c).producers, Moved(c, j))
    BY <2>3, <1>7
  <2>7. QED
    BY <2>1, <2>2, <2>3, <2>4, <2>5, <2>6, <1>7 DEF PopEffect
<1>13. CASE Tests(c)!TaskPushTotal(t)
  <2>1. /\ UNCHANGED <<queue, popmsg_list, dis_popevent_list, overrun>>
        /\ running[t].role = "push" /\ running[t].count = Test(c).push.quota
        /\ \/ running' = [running EXCEPT ![t].added = TRUE]
           \/ running' = [u \in DOMAIN running \ {t} |-> running[u]]
    BY <1>13, <1>4 DEF Tests!TaskPushTotal, Tests!Return
  <2>2. running[t].count = Quota(c, j)
    BY <2>1, <1>2, <1>6
  <2>3. CASE running' = [running EXCEPT ![t].added = TRUE]
    <3>1. t \in DOMAIN running' /\ running'[t].count = running[t].count
      BY <2>3, <1>2 DEF TaskOf
    <3>2. Moved(c, j)' = running[t].count
      BY <3>1, <1>8 DEF Moved, Alive
    <3>3. QED
      BY <2>1, <3>2, <1>2, <1>7, OthersKeep DEF NoEffect
  <2>4. CASE running' = [u \in DOMAIN running \ {t} |-> running[u]]
    BY <2>1, <2>2, <2>4, <1>10 DEF NoEffect
  <2>5. QED
    BY <2>1, <2>3, <2>4
<1>14. CASE Tests(c)!TaskPushQuit(t)
  <2>1. /\ UNCHANGED <<queue, popmsg_list, dis_popevent_list, overrun>>
        /\ running[t].role = "push" /\ running[t].added
        /\ running' = [u \in DOMAIN running \ {t} |-> running[u]]
    BY <1>14 DEF Tests!TaskPushQuit, Tests!Return
  <2>2. QED
    BY <2>1, <1>2, <1>6, <1>10 DEF NoEffect
<1>15. CASE Tests(c)!TaskPopTotal(t)
  <2>1. /\ UNCHANGED <<queue, popmsg_list, dis_popevent_list, overrun>>
        /\ running[t].role = "pop" /\ running[t].count = Test(c).pop.quota
        /\ running' = [u \in DOMAIN running \ {t} |-> running[u]]
    BY <1>15, <1>4 DEF Tests!TaskPopTotal, Tests!Return
  <2>2. QED
    BY <2>1, <1>2, <1>6, <1>10 DEF NoEffect
<1>16. QED
  BY <1>11, <1>12, <1>13, <1>14, <1>15 DEF Tests!Task

\* When main starts a task, thread a is new and has no task yet; the other
\* threads and their tasks are as before.
LEMMA StartedTask ==
  ASSUME NEW c \in Harnesses, Control(c), TasksOK(c), Tests(c)!Main,
         ~Tests(c)!BeginTest, ~Tests(c)!SerialTest, ~(kids' = kids /\ running' = running)
  PROVE  /\ InTest /\ n' = n
         /\ \E a \in Ids(c) :
              /\ ~Created(a) /\ ~Alive(a) /\ Alive(a)'
              /\ running'[Kid(a)].count = 0 /\ ~running'[Kid(a)].added
              /\ \A o \in Ids(c) : o # a =>
                   /\ Created(o)' = Created(o) /\ Alive(o)' = Alive(o)
                   /\ Alive(o) => running'[Kid(o)] = running[Kid(o)]
<1>1. Tests(c)!StartTask
  BY DEF Tests!Main, Tests!AllStarted, Tests!Join, Tests!EndTest, Tests!Done
<1>2. /\ mainPc = "start" /\ i \in DOMAIN kids /\ n' = n
      /\ kids' = [kids EXCEPT ![i] = Kid(i)]
      /\ running' = [u \in DOMAIN running \union {Kid(i)} |->
                       IF u \in DOMAIN running THEN running[u] ELSE Tests(c)!NewTask(i)]
  BY <1>1 DEF Tests!StartTask, Kid
<1>3. InTest /\ DOMAIN kids = Ids(c) /\ \A o \in Ids(c) : o \in Nat
  BY <1>2, InTestShape DEF InTest
<1>4. ~Created(i)
  BY <1>2, <1>3 DEF Control
<1>5. ~Alive(i)
  <2> SUFFICES ASSUME Alive(i) PROVE FALSE
    OBVIOUS
  <2>1. PICK j \in Ids(c) : Kid(i) = Kid(j) /\ kids[j] = Kid(i) /\ Created(j)
    BY TaskKnown DEF Alive
  <2>2. i = j
    BY <2>1, <1>2, <1>3 DEF Kid
  <2>3. QED
    BY <2>1, <2>2, <1>4
<1>6. PICK a \in Ids(c) : a = i
  BY <1>2, <1>3
<1>7. /\ Kid(a) \in DOMAIN running' /\ running'[Kid(a)].count = 0 /\ ~running'[Kid(a)].added
      /\ Kid(a)' = Kid(a)
  BY <1>2, <1>5, <1>6 DEF Alive, Tests!NewTask, Kid
<1>8. ASSUME NEW o \in Ids(c), o # a
      PROVE  /\ Created(o)' = Created(o) /\ Alive(o)' = Alive(o)
             /\ Alive(o) => running'[Kid(o)] = running[Kid(o)]
  <2>1. Kid(o) # Kid(a) /\ Kid(o)' = Kid(o)
    BY <1>2, <1>8, <1>3 DEF Kid
  <2>2. /\ Kid(o) \in DOMAIN running' <=> Kid(o) \in DOMAIN running
        /\ Kid(o) \in DOMAIN running => running'[Kid(o)] = running[Kid(o)]
        /\ kids'[o] = kids[o]
    BY <2>1, <1>2, <1>3, <1>6, <1>8
  <2>3. QED
    BY <2>1, <2>2 DEF Alive, Created
<1>9. QED
  BY <1>2, <1>3, <1>4, <1>5, <1>6, <1>7, <1>8 DEF Alive

\* Within a test main's steps move nothing either.
LEMMA MainKeeps ==
  ASSUME NEW c \in Harnesses, Control(c), TasksOK(c), Tests(c)!Main,
         ~Tests(c)!BeginTest, ~Tests(c)!SerialTest
  PROVE  n' = n /\ NoEffect(c) /\ (InTest' => InTest)
<1>1. /\ n' = n /\ UNCHANGED <<queue, popmsg_list, dis_popevent_list, overrun>>
      /\ InTest' => InTest
  BY DEF Tests!Main, Tests!StartTask, Tests!AllStarted, Tests!Join, Tests!EndTest, Tests!Done,
         InTest
<1>2. Test(c)' = Test(c) /\ \A o : Quota(c, o)' = Quota(c, o) /\ Kid(o)' = Kid(o)
  BY <1>1, TestSame DEF Quota, Kid
<1>3. CASE kids' = kids /\ running' = running
  BY <1>1, <1>2, <1>3 DEF NoEffect, Moved, Alive, Created
<1>4. CASE ~(kids' = kids /\ running' = running)
  <2>1. PICK a \in Ids(c) :
          /\ ~Created(a) /\ ~Alive(a) /\ Alive(a)' /\ running'[Kid(a)].count = 0
          /\ \A o \in Ids(c) : o # a =>
               /\ Created(o)' = Created(o) /\ Alive(o)' = Alive(o)
               /\ Alive(o) => running'[Kid(o)] = running[Kid(o)]
    BY <1>4, StartedTask
  <2>2. Moved(c, a)' = 0 /\ Moved(c, a) = 0
    BY <2>1, <1>2 DEF Moved
  <2>3. \A o \in Ids(c) : o # a => Moved(c, o)' = Moved(c, o)
    BY <2>1, <1>2 DEF Moved
  <2>4. QED
    BY <1>1, <2>2, <2>3 DEF NoEffect
<1>5. QED
  BY <1>3, <1>4

\* A step of the program, as far as the data is concerned.
LEMMA Effects ==
  ASSUME NEW c \in Harnesses, Control(c), TasksOK(c), Tests(c)!Next
  PROVE  \/ Tests(c)!BeginTest
         \/ Tests(c)!SerialTest
         \/ /\ n' = n /\ (InTest' => InTest)
            /\ NoEffect(c) \/ (InTest /\ (PushEffect(c) \/ PopEffect(c)))
<1>1. CASE Tests(c)!Main
  BY <1>1, MainKeeps
<1>2. ASSUME NEW t \in DOMAIN running, Tests(c)!Task(t)
      PROVE  /\ n' = n /\ (InTest' => InTest) /\ InTest
             /\ NoEffect(c) \/ PushEffect(c) \/ PopEffect(c)
  BY <1>2, TaskEffects, TaskFrame, TaskKnown DEF InTest
<1>3. QED
  BY <1>1, <1>2, TestsNext

\* The queue and the lists keep their types and the queue its capacity.
LEMMA StepLists ==
  ASSUME NEW c \in Harnesses, Control(c), TasksOK(c), ListsOK(c), Tests(c)!Next
  PROVE  ListsOK(c)'
<1> DEFINE M == Tests(c)!Messages
           P == Tests(c)!Places
<1>1. CASE Tests(c)!BeginTest
  <2>1. queue' = << >> /\ popmsg_list' = [p \in P |-> 0] /\ dis_popevent_list' = [p \in P |-> 0]
    BY <1>1 DEF Tests!BeginTest, Tests!pop_list_reset, Tests!Blank
  <2> HIDE DEF P, M
  <2>2. QED
    BY <2>1, Quotas DEF ListsOK, P, M
<1>2. CASE Tests(c)!SerialTest
  <2>1. queue' = << >> /\ popmsg_list' = [p \in P |-> 0] /\ dis_popevent_list' = [p \in P |-> p + 1]
    BY <1>2 DEF Tests!SerialTest, Tests!Blank
  <2>2. \A p \in P : p + 1 \in M
    BY Quotas DEF Tests!Places, Tests!Messages
  <2> HIDE DEF P, M
  <2>3. dis_popevent_list' \in [P -> {0} \union M] /\ popmsg_list' \in [P -> {0} \union M]
    BY <2>1, <2>2
  <2>4. queue' \in Seq(M) /\ Len(queue') <= c.QSIZE
    BY <2>1, Quotas
  <2>5. QED
    BY <2>3, <2>4 DEF ListsOK, P, M
<1>3. CASE NoEffect(c)
  BY <1>3 DEF ListsOK, NoEffect
<1>4. CASE InTest /\ PushEffect(c)
  <2>1. PICK j \in Pushers(c) :
          /\ Moved(c, j) \in 0..(Test(c).push.adds - 1)
          /\ Len(queue) < c.QSIZE
          /\ queue' = Append(queue, Tests(c)!Message(j, Moved(c, j)))
          /\ UNCHANGED <<popmsg_list, dis_popevent_list>>
    BY <1>4 DEF PushEffect
  <2>2. Tests(c)!Message(j, Moved(c, j)) \in M
    BY <2>1, <1>4, InTestShape DEF Concurrent, OwnMessages, Pushers
  <2> HIDE DEF P, M
  <2>3. queue' \in Seq(M) /\ Len(queue') <= c.QSIZE
    BY <2>1, <2>2, Quotas DEF ListsOK, P, M
  <2>4. QED
    BY <2>1, <2>3 DEF ListsOK, P, M
<1>5. CASE InTest /\ PopEffect(c)
  <2>1. PICK j, p :
          /\ j \in Poppers(c)
          /\ queue # << >> /\ queue' = Tail(queue)
          /\ p \notin Tests(c)!Places => UNCHANGED <<popmsg_list, dis_popevent_list>>
          /\ p \in Tests(c)!Places /\ Test(c).verifiesEvents =>
               /\ dis_popevent_list' = [dis_popevent_list EXCEPT ![p] = Head(queue)]
               /\ UNCHANGED popmsg_list
          /\ p \in Tests(c)!Places /\ ~Test(c).verifiesEvents =>
               /\ popmsg_list' = [popmsg_list EXCEPT ![p] = Head(queue)]
               /\ UNCHANGED dis_popevent_list
    BY <1>5 DEF PopEffect
  <2> HIDE DEF P, M
  <2>2. queue' \in Seq(M) /\ Len(queue') <= c.QSIZE /\ Head(queue) \in M
    BY <2>1, Quotas DEF ListsOK, P, M
  <2>3. popmsg_list' \in [P -> {0} \union M] /\ dis_popevent_list' \in [P -> {0} \union M]
    BY <2>1, <2>2 DEF ListsOK, P, M
  <2>4. QED
    BY <2>2, <2>3 DEF ListsOK, P, M
<1>6. QED
  BY <1>1, <1>2, <1>3, <1>4, <1>5, Effects

\* A list is overrun only where the consumers' places go beyond its end.
LEMMA StepOverrun ==
  ASSUME NEW c \in Harnesses, Control(c), TasksOK(c), OverrunOK(c), Tests(c)!Next
  PROVE  OverrunOK(c)'
<1>1. ASSUME NEW u \in overrun
      PROVE  /\ u \in 1..n /\ c.MAX_MSG_COUNT % c.POP_CNT # 0
             /\ Tests(c)!Program[u].kind \in {"serial", "single"}
  BY DEF OverrunOK, Tests!OverrunOnlyIfUneven
<1>2. n \in Nat
  BY ProgramKnown DEF Control
<1>3. CASE Tests(c)!BeginTest
  <2>1. n' = n + 1 /\ overrun' = overrun
    BY <1>3 DEF Tests!BeginTest
  <2>2. QED
    BY <2>1, <1>1, <1>2 DEF OverrunOK, Tests!OverrunOnlyIfUneven
<1>4. CASE Tests(c)!SerialTest
  <2>1. /\ n' = n + 1 /\ Tests(c)!Program[n + 1].kind = "serial"
        /\ overrun' = overrun \union
             (IF c.MAX_MSG_COUNT > Cardinality(Tests(c)!Places) THEN {n + 1} ELSE {})
    BY <1>4, TestsCardinality DEF Tests!SerialTest
  <2>2. c.MAX_MSG_COUNT % c.POP_CNT = 0 => Cardinality(Tests(c)!Places) = c.MAX_MSG_COUNT
    <3>1. \A b \in Nat : Cardinality(0..(b - 1)) = b
      BY FS_Interval
    <3>2. c.POP_CNT * Tests(c)!MAX_POP_MSG_COUNT \in Nat
      BY Quotas
    <3>3. Cardinality(Tests(c)!Places) = c.POP_CNT * Tests(c)!MAX_POP_MSG_COUNT
      BY <3>1, <3>2 DEF Tests!Places
    <3>4. QED
      BY <3>3, Quotas, Zenon
  <2>3. n + 1 \in overrun' \ overrun => c.MAX_MSG_COUNT % c.POP_CNT # 0
    <3>1. c.MAX_MSG_COUNT \in Nat
      BY Quotas
    <3>2. c.MAX_MSG_COUNT > Cardinality(Tests(c)!Places) => c.MAX_MSG_COUNT % c.POP_CNT # 0
      BY <3>1, <2>2
    <3>3. QED
      BY <3>2, <2>1, Zenon
  <2>4. \A u \in overrun' : u \in overrun \/ u = n + 1
    BY <2>1
  <2>5. \A u \in overrun' : u \in 1..(n + 1)
    BY <2>4, <1>1, <1>2
  <2>6. \A u \in overrun' : c.MAX_MSG_COUNT % c.POP_CNT # 0
    BY <2>3, <2>4, <1>1, Zenon
  <2>7. \A u \in overrun' : Tests(c)!Program[u].kind \in {"serial", "single"}
    BY <2>1, <2>4, <1>1, Zenon
  <2>8. QED
    BY <2>1, <2>5, <2>6, <2>7 DEF OverrunOK, Tests!OverrunOnlyIfUneven
<1>5. CASE n' = n /\ (NoEffect(c) \/ PushEffect(c))
  BY <1>1, <1>5 DEF OverrunOK, Tests!OverrunOnlyIfUneven, NoEffect, PushEffect
<1>6. CASE n' = n /\ InTest /\ PopEffect(c)
  <2>1. PICK j \in Poppers(c) :
          /\ Moved(c, j) \in 0..(Test(c).pop.quota - 1)
          /\ overrun' = overrun \/
               /\ overrun' = overrun \union {n}
               /\ Tests(c)!Place(j - Test(c).producers, Moved(c, j)) \notin Tests(c)!Places
    BY <1>6 DEF PopEffect
  <2>2. j - Test(c).producers \in 0..(Test(c).consumers - 1)
    BY <1>6, InTestShape DEF Poppers
  <2>3. overrun' # overrun => c.MAX_MSG_COUNT % c.POP_CNT # 0 /\ Test(c).kind = "single"
    <3>1. PlacesFit(c, Test(c))
      BY <1>6, InTestShape DEF Concurrent
    <3>2. \A a \in 0..(Test(c).consumers - 1) : \A x \in 0..(Test(c).pop.quota - 1) :
            Tests(c)!Place(a, x) \notin Tests(c)!Places =>
              c.MAX_MSG_COUNT % c.POP_CNT # 0 /\ Test(c).kind = "single"
      BY <3>1, Zenon DEF PlacesFit
    <3>3. QED
      BY <3>2, <2>1, <2>2, Zenon
  <2>4. \A u \in overrun' : u \in overrun \/ (u = n /\ overrun' # overrun)
    BY <2>1
  <2>5. n \in 1..n
    BY <1>6, <1>2 DEF Control
  <2>6. \A u \in overrun' : u \in 1..n
    BY <2>4, <2>5, <1>1, Zenon
  <2>7. \A u \in overrun' : /\ c.MAX_MSG_COUNT % c.POP_CNT # 0
                             /\ Tests(c)!Program[u].kind \in {"serial", "single"}
    BY <2>3, <2>4, <1>1, Zenon DEF Test, Tests!Current
  <2>8. QED
    BY <1>6, <2>6, <2>7, Zenon DEF OverrunOK, Tests!OverrunOnlyIfUneven
<1>7. QED
  BY <1>3, <1>4, <1>5, <1>6, Effects

\* A test that begins is one that starts tasks, and has none yet.
LEMMA BegunTest ==
  ASSUME NEW c \in Harnesses, Control(c), TasksOK(c), Tests(c)!BeginTest
  PROVE  /\ InTest' /\ n' # 0 /\ Concurrent(c, Test(c)') /\ (Test(c)').kind # "serial"
         /\ (Test(c)').producers \in Nat /\ (Test(c)').consumers \in Nat
         /\ (Test(c)').push.adds \in Nat /\ (Test(c)').pop.quota \in Nat
         /\ (Pushers(c) \subseteq Ids(c) /\ Poppers(c) \subseteq Ids(c))'
         /\ \A j \in Ids(c)' : ~Created(j)' /\ ~Alive(j)'
<1>1. /\ mainPc = "next" /\ mainPc' = "start" /\ running' = running
      /\ \A j \in DOMAIN kids' : kids'[j] = <<0, 0>>
  BY DEF Tests!BeginTest, Tests!NoKid
<1>2. Control(c)' /\ InTest'
  BY <1>1, MainControl DEF Tests!Main, InTest
<1>3. n' # 0 /\ n' \in 1..Len(Tests(c)!Program)
  <2>1. n' \in 0..Len(Tests(c)!Program) /\ n' >= 1
    BY <1>2 DEF Control
  <2>2. Len(Tests(c)!Program) \in Nat
    BY ProgramKnown
  <2>3. QED
    BY <2>1, <2>2
<1>4. (Test(c)').kind # "serial" /\ DOMAIN kids' = Ids(c)'
  BY <1>2 DEF Control
<1>5. Test(c)' \in KnownTest(c)
  BY <1>3, ProgramKnown DEF Test, Tests!Current
<1>6. Concurrent(c, Test(c)')
  BY <1>4, <1>5, KnownShape
<1>7. (Test(c)').push.adds \in Nat /\ (Test(c)').pop.quota \in Nat
  BY <1>6 DEF Concurrent, Threaded
<1>8. (Test(c)').producers \in Nat /\ (Test(c)').consumers \in Nat
  BY <1>6, Quotas DEF Concurrent, Threaded
<1>9. (Pushers(c) \subseteq Ids(c) /\ Poppers(c) \subseteq Ids(c))'
  BY <1>8 DEF Pushers, Poppers, Ids
<1>10. DOMAIN running = {}
  BY <1>1 DEF Control, InTest
<1>11. \A j \in Ids(c)' : ~Created(j)' /\ ~Alive(j)'
  BY <1>1, <1>4, <1>10 DEF Created, Alive
<1>12. QED
  BY <1>2, <1>3, <1>4, <1>6, <1>7, <1>8, <1>9, <1>11

\* At its start a test has nothing in its queue and its lists.
LEMMA BeginData ==
  ASSUME NEW c \in Harnesses, Control(c), TasksOK(c), Tests(c)!BeginTest
  PROVE  Data(c)'
<1> DEFINE P == Tests(c)!Places
<1>1. /\ queue' = << >>
      /\ popmsg_list' = [p \in P |-> 0] /\ dis_popevent_list' = [p \in P |-> 0]
  BY DEF Tests!BeginTest, Tests!pop_list_reset, Tests!Blank
<1>2. /\ Concurrent(c, Test(c)')
      /\ (Pushers(c) \subseteq Ids(c) /\ Poppers(c) \subseteq Ids(c))'
      /\ \A j \in Ids(c)' : ~Created(j)' /\ ~Alive(j)'
  BY BegunTest
<1>3. \A j \in Ids(c)' : Moved(c, j)' = 0
  BY <1>2 DEF Moved
<1>4. \A p \in P : List(c)'[p] = 0
  BY <1>1 DEF List
<1>5. \A m : ~InQueue(m)'
  BY <1>1 DEF InQueue
<1>6. \A m \in Tests(c)!Messages : ~InList(c, m)'
  BY <1>4 DEF InList, Tests!Messages
<1>7. Distinct(c)'
  BY <1>1, <1>4 DEF Distinct
<1>8. Unsent(c)'
  <2>1. \A j \in Pushers(c)' : \A x \in 0..((Test(c)').push.adds - 1) :
          Tests(c)!Message(j, x) \in Tests(c)!Messages
    BY <1>2 DEF Concurrent, OwnMessages, Pushers
  <2>2. QED
    BY <2>1, <1>5, <1>6 DEF Unsent, Tests!Message
<1>9. Filled(c)'
  <2>1. \A j \in Poppers(c)' : Moved(c, j)' = 0
    BY <1>2, <1>3
  <2>2. \A x \in 0..((Test(c)').pop.quota - 1) : ~(x < 0)
    OBVIOUS
  <2> HIDE DEF P
  <2>3. QED
    BY <2>1, <2>2, <1>4 DEF Filled, Tests!Place, P
<1>10. QED
  BY <1>7, <1>8, <1>9 DEF Data

\* A push that succeeds.
LEMMA PushData ==
  ASSUME NEW c \in Harnesses, Control(c), ListsOK(c), Data(c), InTest, n' = n, PushEffect(c)
  PROVE  Data(c)'
<1>1. PICK j \in Pushers(c) :
        /\ Moved(c, j) \in 0..(Test(c).push.adds - 1)
        /\ queue' = Append(queue, Tests(c)!Message(j, Moved(c, j)))
        /\ UNCHANGED <<popmsg_list, dis_popevent_list>>
        /\ MovedBy(c, j, 1)
  BY DEF PushEffect
<1> DEFINE x == Moved(c, j)
           m == Tests(c)!Message(j, x)
<1>2. /\ Concurrent(c, Test(c)) /\ Distinct(c) /\ Unsent(c) /\ Filled(c)
      /\ Pushers(c) \subseteq Ids(c) /\ Poppers(c) \subseteq Ids(c)
      /\ Test(c).producers \in Nat
  BY InTestShape DEF Data
<1>3. /\ Test(c)' = Test(c) /\ List(c)' = List(c) /\ Pushers(c)' = Pushers(c)
      /\ Poppers(c)' = Poppers(c)
  BY <1>1, TestSame DEF List, Pushers, Poppers
<1>4. ~InQueue(m) /\ ~InList(c, m)
  BY <1>1, <1>2 DEF Unsent
<1>5. /\ queue \in Seq(Tests(c)!Messages)
      /\ Len(queue) \in Nat /\ Len(queue') = Len(queue) + 1
      /\ \A a \in 1..Len(queue) : queue'[a] = queue[a]
      /\ queue'[Len(queue) + 1] = m
  BY <1>1 DEF ListsOK
<1> HIDE DEF m
<1>6. \A o : InList(c, o)' = InList(c, o)
  BY <1>3 DEF InList
<1>7. \A o : InQueue(o)' => InQueue(o) \/ o = m
  BY <1>5 DEF InQueue
<1>8. Distinct(c)'
  <2>1. \A a \in 1..Len(queue) : queue[a] # m
    BY <1>4 DEF InQueue
  <2>2. \A a, b \in 1..Len(queue') : queue'[a] = queue'[b] => a = b
    <3>1. \A a \in 1..Len(queue') : a \in 1..Len(queue) \/ a = Len(queue) + 1
      BY <1>5
    <3>2. QED
      BY <3>1, <2>1, <1>2, <1>5 DEF Distinct
  <2>3. \A a \in 1..Len(queue') : ~InList(c, queue'[a])
    BY <1>2, <1>4, <1>5 DEF Distinct
  <2>4. QED
    BY <1>2, <1>3, <1>6, <2>2, <2>3 DEF Distinct, InList
<1>9. Unsent(c)'
  <2> SUFFICES ASSUME NEW o \in Pushers(c), NEW y \in 0..(Test(c).push.adds - 1),
                      Moved(c, o)' <= y
               PROVE  ~InQueue(Tests(c)!Message(o, y))' /\ ~InList(c, Tests(c)!Message(o, y))
    BY <1>3, <1>6 DEF Unsent, Tests!Message, InQueue
  <2>1. Moved(c, o) <= y /\ ~(o = j /\ y = x)
    BY <1>1, <1>2 DEF MovedBy
  <2>2. Tests(c)!Message(o, y) # m
    BY <2>1, <1>1, <1>2 DEF Concurrent, OwnMessages, Pushers, m
  <2>3. ~InQueue(Tests(c)!Message(o, y)) /\ ~InList(c, Tests(c)!Message(o, y))
    BY <2>1, <1>2 DEF Unsent
  <2>4. QED
    BY <2>2, <2>3, <1>7 DEF Tests!Message, InQueue
<1>10. Filled(c)'
  <2>1. \A o \in Poppers(c) : Moved(c, o)' = Moved(c, o)
    <3>1. \A o \in Poppers(c) : o # j /\ o \in Ids(c)
      BY <1>2 DEF Pushers, Poppers
    <3>2. QED
      BY <3>1, <1>1 DEF MovedBy
  <2>2. QED
    BY <2>1, <1>2, <1>3 DEF Filled, Tests!Place
<1>11. QED
  BY <1>8, <1>9, <1>10 DEF Data

\* A pop that succeeds.
LEMMA PopData ==
  ASSUME NEW c \in Harnesses, Control(c), ListsOK(c), Data(c), InTest, n' = n, PopEffect(c)
  PROVE  Data(c)'
<1> DEFINE P == Tests(c)!Places
           h == Head(queue)
<1>1. PICK j, p :
        /\ j \in Poppers(c)
        /\ Moved(c, j) \in 0..(Test(c).pop.quota - 1)
        /\ p = Tests(c)!Place(j - Test(c).producers, Moved(c, j))
        /\ queue # << >> /\ queue' = Tail(queue)
        /\ p \notin P => UNCHANGED <<popmsg_list, dis_popevent_list>>
        /\ p \in P /\ Test(c).verifiesEvents =>
             dis_popevent_list' = [dis_popevent_list EXCEPT ![p] = h]
        /\ p \in P /\ ~Test(c).verifiesEvents =>
             popmsg_list' = [popmsg_list EXCEPT ![p] = h]
        /\ MovedBy(c, j, 1)
  BY DEF PopEffect
<1>j. j \in Poppers(c)
  BY <1>1
<1>2. /\ Concurrent(c, Test(c)) /\ Distinct(c) /\ Unsent(c) /\ Filled(c)
      /\ Pushers(c) \subseteq Ids(c) /\ Poppers(c) \subseteq Ids(c)
      /\ Test(c).producers \in Nat /\ Test(c).consumers \in Nat
  BY InTestShape DEF Data
<1>3. /\ Test(c)' = Test(c) /\ Pushers(c)' = Pushers(c) /\ Poppers(c)' = Poppers(c)
  BY TestSame DEF Pushers, Poppers
<1>4. /\ DOMAIN List(c) = P
      /\ \A q \in P : List(c)'[q] = IF q = p THEN h ELSE List(c)[q]
  BY <1>1, <1>3 DEF List, ListsOK
<1>5. /\ queue \in Seq(Tests(c)!Messages)
      /\ Len(queue) \in Nat \ {0} /\ Len(queue') = Len(queue) - 1
      /\ \A a \in 1..Len(queue') : a + 1 \in 1..Len(queue) /\ queue'[a] = queue[a + 1]
      /\ h = queue[1] /\ h \in Tests(c)!Messages
  BY <1>1 DEF ListsOK
<1>6. h # 0
  BY <1>5 DEF Tests!Messages
<1> HIDE DEF h, P
<1>7. \A o : InQueue(o)' => InQueue(o)
  BY <1>5 DEF InQueue
<1>8. \A o : InList(c, o)' => InList(c, o) \/ o = h
  BY <1>4 DEF InList, P
<1>9. InQueue(h) /\ ~InList(c, h)
  BY <1>2, <1>5 DEF InQueue, Distinct
<1>10. Distinct(c)'
  <2>1. \A a, b \in 1..Len(queue') : queue'[a] = queue'[b] => a = b
    <3> SUFFICES ASSUME NEW a \in 1..Len(queue'), NEW b \in 1..Len(queue'),
                        queue'[a] = queue'[b]
                 PROVE  a = b
      OBVIOUS
    <3>1. a + 1 = b + 1
      BY <1>2, <1>5 DEF Distinct
    <3>2. QED
      BY <3>1, <1>5
  <2>2. \A a \in 1..Len(queue') : \A q \in P : List(c)'[q] # queue'[a]
    <3> SUFFICES ASSUME NEW a \in 1..Len(queue') PROVE \A q \in P : List(c)'[q] # queue'[a]
      OBVIOUS
    <3>1. queue'[a] = queue[a + 1] /\ a + 1 # 1 /\ a + 1 \in 1..Len(queue) /\ 1 \in 1..Len(queue)
      BY <1>5
    <3>2. queue'[a] # h /\ \A q \in P : List(c)[q] # queue[a + 1]
      BY <3>1, <1>2, <1>5 DEF Distinct, InList, P
    <3>3. QED
      BY <3>1, <3>2, <1>4
  <2>3. \A q, r \in P : List(c)'[q] = List(c)'[r] => q = r \/ List(c)'[q] = 0
    BY <1>2, <1>4, <1>9 DEF Distinct, InList, P
  <2>4. QED
    BY <2>1, <2>2, <2>3 DEF Distinct, InList, P
<1>11. Unsent(c)'
  <2> SUFFICES ASSUME NEW o \in Pushers(c), NEW y \in 0..(Test(c).push.adds - 1),
                      Moved(c, o)' <= y
               PROVE  /\ ~InQueue(Tests(c)!Message(o, y))'
                      /\ ~InList(c, Tests(c)!Message(o, y))'
    BY <1>3 DEF Unsent, Tests!Message
  <2>1. Moved(c, o)' = Moved(c, o)
    <3>1. o # j /\ o \in Ids(c)
      BY <1>2, <1>j DEF Pushers, Poppers
    <3>2. QED
      BY <3>1, <1>1 DEF MovedBy
  <2>2. ~InQueue(Tests(c)!Message(o, y)) /\ ~InList(c, Tests(c)!Message(o, y))
    BY <2>1, <1>2 DEF Unsent
  <2>3. QED
    BY <2>2, <1>7, <1>8, <1>9 DEF Tests!Message, InQueue, InList
<1>12. Filled(c)'
  <2> SUFFICES ASSUME NEW o \in Poppers(c), NEW y \in 0..(Test(c).pop.quota - 1),
                      Tests(c)!Place(o - Test(c).producers, y) \in P
               PROVE  List(c)'[Tests(c)!Place(o - Test(c).producers, y)] # 0 <=> y < Moved(c, o)'
    BY <1>3 DEF Filled, Tests!Place, P
  <2> DEFINE q == Tests(c)!Place(o - Test(c).producers, y)
  <2>1. List(c)[q] # 0 <=> y < Moved(c, o)
    BY <1>2 DEF Filled, P
  <2>2. q = p => o = j /\ y = Moved(c, j)
    <3>1. /\ o - Test(c).producers \in 0..(Test(c).consumers - 1)
          /\ j - Test(c).producers \in 0..(Test(c).consumers - 1)
      BY <1>2, <1>j DEF Poppers
    <3>2. OwnPlaces(c, Test(c))
      BY <1>2 DEF Concurrent
    <3>3. \A a, b \in 0..(Test(c).consumers - 1) : \A x, z \in 0..(Test(c).pop.quota - 1) :
            Tests(c)!Place(a, x) = Tests(c)!Place(b, z) => a = b /\ x = z
      BY <3>2 DEF OwnPlaces
    <3> HIDE DEF q
    <3>4. q = p => o - Test(c).producers = j - Test(c).producers /\ y = Moved(c, j)
      BY <3>1, <3>3, <1>1 DEF q
    <3>5. QED
      BY <3>4, <1>2, <1>j DEF Poppers
  <2> HIDE DEF q
  <2>3. CASE q = p
    <3>1. List(c)'[q] # 0
      BY <2>3, <1>4, <1>6 DEF q
    <3>2. y < Moved(c, o)'
      BY <2>2, <2>3, <1>1 DEF MovedBy
    <3>3. QED
      BY <3>1, <3>2 DEF q
  <2>4. CASE q # p
    <3>1. List(c)'[q] = List(c)[q]
      BY <2>4, <1>4 DEF q
    <3>2. CASE o # j
      <4>1. Moved(c, o)' = Moved(c, o)
        BY <3>2, <1>1, <1>2 DEF MovedBy
      <4>2. QED
        BY <4>1, <3>1, <2>1 DEF q
    <3>3. CASE o = j
      <4>1. y # Moved(c, j)
        BY <2>4, <3>3, <1>1 DEF q
      <4>2. Moved(c, j)' = Moved(c, j) + 1
        BY <1>1 DEF MovedBy
      <4>3. y < Moved(c, o)' <=> y < Moved(c, o)
        BY <4>1, <4>2, <3>3, <1>1
      <4>4. QED
        BY <4>3, <3>1, <2>1 DEF q
    <3>4. QED
      BY <3>2, <3>3
  <2>5. QED
    BY <2>3, <2>4 DEF q
<1>13. QED
  BY <1>10, <1>11, <1>12 DEF Data

\* Where the messages are.
LEMMA StepData ==
  ASSUME NEW c \in Harnesses, Control(c), TasksOK(c), ListsOK(c), Data(c), Tests(c)!Next
  PROVE  Data(c)'
<1>1. CASE Tests(c)!SerialTest
  BY <1>1 DEF Tests!SerialTest, Data, InTest
<1>2. CASE n' = n /\ (InTest' => InTest) /\ NoEffect(c)
  <2> SUFFICES ASSUME InTest' PROVE Data(c)'
    BY DEF Data
  <2>1. /\ Test(c)' = Test(c) /\ Pushers(c)' = Pushers(c) /\ Poppers(c)' = Poppers(c)
        /\ queue' = queue /\ List(c)' = List(c)
    BY <1>2, TestSame DEF Pushers, Poppers, NoEffect, List
  <2>2. \A o \in Ids(c) : Moved(c, o)' = Moved(c, o)
    BY <1>2 DEF NoEffect
  <2>3. /\ Distinct(c) /\ Unsent(c) /\ Filled(c)
        /\ Pushers(c) \subseteq Ids(c) /\ Poppers(c) \subseteq Ids(c)
    BY <1>2, InTestShape DEF Data
  <2>4. Distinct(c)'
    BY <2>1, <2>3 DEF Distinct, InList
  <2>5. Unsent(c)'
    BY <2>1, <2>2, <2>3 DEF Unsent, InQueue, InList, Tests!Message
  <2>6. Filled(c)'
    BY <2>1, <2>2, <2>3 DEF Filled, Tests!Place
  <2>7. QED
    BY <2>4, <2>5, <2>6 DEF Data
<1>3. QED
  BY <1>1, <1>2, Effects, BeginData, PushData, PopData

\* A product grows with its factor.
LEMMA ProductMonotone ==
  ASSUME NEW a \in Nat, NEW b \in Nat, a <= b, NEW d \in Nat
  PROVE  a * d \in Nat /\ a * d <= b * d
<1>1. PICK e \in Nat : b = a + e
  <2>1. b - a \in Nat /\ b = a + (b - a)
    OBVIOUS
  <2>2. QED
    BY <2>1
<1>2. (a + e) * d = a * d + e * d /\ a * d \in Nat /\ e * d \in Nat
  OBVIOUS
<1>3. QED
  BY <1>1, <1>2

\* A test, begun or over, that starts tasks.
WithTasks(c) == n # 0 /\ Test(c).kind # "serial"

\* What such a test is like.
LEMMA WithTasksShape ==
  ASSUME NEW c \in Harnesses, Control(c), WithTasks(c)
  PROVE  /\ Concurrent(c, Test(c)) /\ n \in Nat \ {0} /\ DOMAIN kids = Ids(c)
         /\ Test(c).producers \in Nat \ {0} /\ Test(c).consumers \in Nat \ {0}
         /\ Test(c).push.adds \in Nat \ {0} /\ Test(c).pop.quota \in Nat \ {0}
         /\ Test(c).producers * Test(c).push.adds <= c.MAX_MSG_COUNT
         /\ Test(c).consumers * Test(c).pop.quota <= c.MAX_MSG_COUNT
<1>1. n \in 1..Len(Tests(c)!Program) /\ DOMAIN kids = Ids(c) /\ Test(c).kind # "serial"
  <2>1. n \in 0..Len(Tests(c)!Program) /\ DOMAIN kids = Ids(c)
    BY DEF Control, WithTasks
  <2>2. Len(Tests(c)!Program) \in Nat
    BY ProgramKnown
  <2>3. QED
    BY <2>1, <2>2 DEF WithTasks
<1>2. Concurrent(c, Test(c))
  BY <1>1, CurrentShape
<1>3. n \in Nat \ {0}
  BY <1>1, ProgramKnown
<1>4. /\ Test(c).push.adds \in Nat \ {0} /\ Test(c).pop.quota \in Nat \ {0}
      /\ Test(c).producers * Test(c).push.adds <= c.MAX_MSG_COUNT
      /\ Test(c).consumers * Test(c).pop.quota <= c.MAX_MSG_COUNT
  BY <1>2 DEF Concurrent, Threaded
<1>5. Test(c).producers \in 1..c.PUSH_CNT /\ Test(c).consumers \in 1..c.POP_CNT
  BY <1>2 DEF Concurrent, Threaded
<1>6. Test(c).producers \in Nat \ {0} /\ Test(c).consumers \in Nat \ {0}
  BY <1>5, Quotas
<1>7. QED
  BY <1>1, <1>2, <1>3, <1>4, <1>6

\* The totals stay within the number of messages.
LEMMA TotalsBounded ==
  ASSUME NEW c \in Harnesses, Control(c), WithTasks(c)
  PROVE  /\ IsFiniteSet(Added(c)) /\ Cardinality(Added(c)) \in 0..Test(c).producers
         /\ IsFiniteSet(Popped(c)) /\ Cardinality(Popped(c)) \in 0..Test(c).consumers
         /\ Cardinality(Added(c)) * Test(c).push.adds \in 0..c.MAX_MSG_COUNT
         /\ Cardinality(Popped(c)) * Test(c).pop.quota \in 0..c.MAX_MSG_COUNT
<1> DEFINE T == Test(c)
           A == Added(c)
           B == Popped(c)
<1>1. /\ T.producers \in Nat \ {0} /\ T.consumers \in Nat \ {0}
      /\ T.push.adds \in Nat \ {0} /\ T.pop.quota \in Nat \ {0}
      /\ T.producers * T.push.adds <= c.MAX_MSG_COUNT
      /\ T.consumers * T.pop.quota <= c.MAX_MSG_COUNT
      /\ c.MAX_MSG_COUNT \in Nat
  BY WithTasksShape, Quotas
<1>2. A \in SUBSET (0..(T.producers - 1))
  BY DEF Added, Pushers
<1>3. B \in SUBSET (T.producers..(T.producers + T.consumers - 1))
  BY DEF Popped, Poppers
<1> HIDE DEF T, A, B
<1>4. ASSUME NEW a \in Nat, NEW b \in Nat \ {0}, NEW S \in SUBSET (a..(a + b - 1))
      PROVE  IsFiniteSet(S) /\ Cardinality(S) \in Nat /\ Cardinality(S) <= b
  <2>1. IsFiniteSet(a..(a + b - 1)) /\ Cardinality(a..(a + b - 1)) = b
    BY FS_Interval
  <2>2. QED
    BY <2>1, FS_Subset, FS_CardinalityType
<1>5. IsFiniteSet(A) /\ Cardinality(A) \in Nat /\ Cardinality(A) <= T.producers
  BY <1>1, <1>2, <1>4
<1>6. IsFiniteSet(B) /\ Cardinality(B) \in Nat /\ Cardinality(B) <= T.consumers
  BY <1>1, <1>3, <1>4
<1>7. /\ Cardinality(A) * T.push.adds \in Nat
      /\ Cardinality(A) * T.push.adds <= T.producers * T.push.adds
  BY <1>1, <1>5, ProductMonotone
<1>8. /\ Cardinality(B) * T.pop.quota \in Nat
      /\ Cardinality(B) * T.pop.quota <= T.consumers * T.pop.quota
  BY <1>1, <1>6, ProductMonotone
<1>9. T.producers * T.push.adds \in Nat /\ T.consumers * T.pop.quota \in Nat
  BY <1>1
<1>10. QED
  BY <1>1, <1>5, <1>6, <1>7, <1>8, <1>9 DEF T, A, B

\* What main's steps within a test do to the totals: nothing.
LEMMA MainTotals ==
  ASSUME NEW c \in Harnesses, Control(c), TasksOK(c), Tests(c)!Main,
         ~Tests(c)!BeginTest, ~Tests(c)!SerialTest
  PROVE  /\ n' = n /\ UNCHANGED <<push_total, pop_total, quit>>
         /\ WithTasks(c) => Added(c)' = Added(c) /\ Popped(c)' = Popped(c)
<1>1. n' = n /\ UNCHANGED <<push_total, pop_total, quit>>
  BY DEF Tests!Main, Tests!StartTask, Tests!AllStarted, Tests!Join, Tests!EndTest, Tests!Done
<1>2. /\ Test(c)' = Test(c) /\ Pushers(c)' = Pushers(c) /\ Poppers(c)' = Poppers(c)
      /\ \A o : Kid(o)' = Kid(o)
  BY <1>1, TestSame DEF Pushers, Poppers, Kid
<1>3. CASE kids' = kids /\ running' = running
  BY <1>1, <1>2, <1>3 DEF Added, Popped, Created, Alive
<1>4. CASE ~(kids' = kids /\ running' = running)
  <2>1. PICK a \in Ids(c) :
          /\ ~Created(a) /\ ~Alive(a) /\ Alive(a)' /\ ~running'[Kid(a)].added
          /\ \A o \in Ids(c) : o # a =>
               /\ Created(o)' = Created(o) /\ Alive(o)' = Alive(o)
               /\ Alive(o) => running'[Kid(o)] = running[Kid(o)]
    BY <1>4, StartedTask
  <2>2. Pushers(c) \subseteq Ids(c) /\ Poppers(c) \subseteq Ids(c)
    BY <1>4, StartedTask, InTestShape
  <2>3. \A o \in Pushers(c) : o \in Added(c)' <=> o \in Added(c)
    BY <2>1, <2>2, <1>2 DEF Added
  <2>4. \A o \in Poppers(c) : o \in Popped(c)' <=> o \in Popped(c)
    BY <2>1, <2>2, <1>2 DEF Popped
  <2>5. /\ Added(c)' \subseteq Pushers(c) /\ Added(c) \subseteq Pushers(c)
        /\ Popped(c)' \subseteq Poppers(c) /\ Popped(c) \subseteq Poppers(c)
    BY <1>2 DEF Added, Popped
  <2>6. QED
    BY <1>1, <2>3, <2>4, <2>5
<1>5. QED
  BY <1>3, <1>4

\* What a task's step does to the totals: it adds its share, once, or nothing.
PushAdds(c) ==
  /\ \E j \in Pushers(c) : j \notin Added(c) /\ Added(c)' = Added(c) \union {j}
  /\ push_total' = push_total + Test(c).push.adds
  /\ Popped(c)' = Popped(c) /\ UNCHANGED <<pop_total, quit>>
PopAdds(c) ==
  /\ \E j \in Poppers(c) : j \notin Popped(c) /\ Popped(c)' = Popped(c) \union {j}
  /\ pop_total' = pop_total + Test(c).pop.quota
  /\ Added(c)' = Added(c) /\ UNCHANGED <<push_total, quit>>
NothingAdded(c) ==
  /\ Added(c)' = Added(c) /\ Popped(c)' = Popped(c)
  /\ UNCHANGED <<push_total, pop_total>>
  /\ quit' = quit \/ (quit' = 1 /\ push_total = c.MAX_MSG_COUNT)

\* Those are all the steps a task can take.
LEMMA TaskTotals ==
  ASSUME NEW c \in Harnesses, Control(c), TasksOK(c), NEW t \in DOMAIN running, Tests(c)!Task(t)
  PROVE  PushAdds(c) \/ PopAdds(c) \/ NothingAdded(c)
<1>1. /\ n' = n /\ kids' = kids /\ Test(c)' = Test(c)
      /\ Pushers(c)' = Pushers(c) /\ Poppers(c)' = Poppers(c)
      /\ DOMAIN running' \subseteq DOMAIN running
      /\ \A u \in DOMAIN running' : u # t => running'[u] = running[u]
      /\ \A o : Kid(o)' = Kid(o) /\ Created(o)' = Created(o)
  BY TaskFrame, TestSame DEF Pushers, Poppers, Kid, Created
<1>2. PICK j \in Ids(c) :
        /\ t = Kid(j) /\ kids[j] = t /\ Alive(j) /\ Created(j)
        /\ running[t] \in TaskOf(c, j)
        /\ running[t].added => j \in Pushers(c) /\ running[t].count = Test(c).push.quota
        /\ j \in Pushers(c) <=> running[t].role = "push"
        /\ j \in Poppers(c) <=> running[t].role = "pop"
  BY TaskKnown
<1>3. /\ InTest /\ DOMAIN kids = Ids(c) /\ n \in Nat /\ \A o \in Ids(c) : o \in Nat
      /\ Pushers(c) \subseteq Ids(c) /\ Poppers(c) \subseteq Ids(c)
  BY TaskKnown, InTestShape
<1>4. /\ t[1] = n /\ Tests(c)!TestOf(t) = Test(c)
  BY <1>2 DEF Tests!TestOf, Kid, Test, Tests!Current
<1>5. DOMAIN running \ {t} \subseteq DOMAIN running'
  BY DEF Tests!Task, Tests!TaskPush, Tests!TaskPushTotal, Tests!TaskPushQuit, Tests!TaskPop,
         Tests!TaskPopTotal, Tests!Count, Tests!Return
<1>6. ASSUME NEW o \in Ids(c), o # j
      PROVE  /\ Alive(o)' = Alive(o) /\ (Alive(o) => running'[Kid(o)] = running[Kid(o)])
  <2>1. Kid(o) # t
    BY <1>2, <1>3, <1>6 DEF Kid
  <2>2. QED
    BY <2>1, <1>1, <1>5 DEF Alive
<1>7. /\ \A o \in Ids(c) : o # j => (o \in Added(c)' <=> o \in Added(c))
      /\ \A o \in Ids(c) : o # j => (o \in Popped(c)' <=> o \in Popped(c))
      /\ Added(c)' \subseteq Ids(c) /\ Added(c) \subseteq Ids(c)
      /\ Popped(c)' \subseteq Ids(c) /\ Popped(c) \subseteq Ids(c)
      /\ j \notin Popped(c)
  BY <1>1, <1>2, <1>3, <1>6 DEF Added, Popped
<1>8. /\ j \in Added(c) <=> j \in Pushers(c) /\ running[t].added
      /\ j \in Added(c)' <=> j \in Pushers(c) /\ (t \in DOMAIN running' => running'[t].added)
      /\ j \in Popped(c)' <=> j \in Poppers(c) /\ t \notin DOMAIN running'
  BY <1>1, <1>2 DEF Added, Popped, Alive
<1>9. j \in Pushers(c) => j \notin Poppers(c)
  BY <1>2
<1>10. CASE Tests(c)!TaskPush(t) \/ Tests(c)!TaskPop(t)
  <2>1. /\ UNCHANGED <<push_total, pop_total, quit>>
        /\ running' = [running EXCEPT ![t].count = running[t].count + 1]
    BY <1>10 DEF Tests!TaskPush, Tests!TaskPop, Tests!Count
  <2>2. t \in DOMAIN running' /\ running'[t].added = running[t].added
    BY <2>1, <1>2 DEF TaskOf
  <2>3. QED
    BY <2>1, <2>2, <1>7, <1>8 DEF NothingAdded
<1>11. CASE Tests(c)!TaskPushTotal(t)
  <2>1. /\ UNCHANGED <<pop_total, quit>> /\ push_total' = push_total + Test(c).push.adds
        /\ running[t].role = "push" /\ ~running[t].added
        /\ t \in DOMAIN running' => running' = [running EXCEPT ![t].added = TRUE]
    BY <1>11, <1>4 DEF Tests!TaskPushTotal, Tests!Return
  <2>2. t \in DOMAIN running' => running'[t].added
    BY <2>1, <1>2 DEF TaskOf
  <2>3. QED
    BY <2>1, <2>2, <1>2, <1>7, <1>8, <1>9 DEF PushAdds
<1>12. CASE Tests(c)!TaskPushQuit(t)
  <2>1. /\ UNCHANGED <<push_total, pop_total>>
        /\ running[t].role = "push" /\ running[t].added
        /\ t \notin DOMAIN running'
        /\ quit' = IF push_total = c.MAX_MSG_COUNT THEN 1 ELSE quit
    BY <1>12 DEF Tests!TaskPushQuit, Tests!Return
  <2>2. QED
    BY <2>1, <1>2, <1>7, <1>8, <1>9 DEF NothingAdded
<1>13. CASE Tests(c)!TaskPopTotal(t)
  <2>1. /\ UNCHANGED <<push_total, quit>> /\ pop_total' = pop_total + running[t].count
        /\ running[t].role = "pop" /\ running[t].count = Test(c).pop.quota
        /\ t \notin DOMAIN running'
    BY <1>13, <1>4 DEF Tests!TaskPopTotal, Tests!Return
  <2>2. QED
    BY <2>1, <1>2, <1>7, <1>8, <1>9 DEF PopAdds
<1>14. QED
  BY <1>10, <1>11, <1>12, <1>13 DEF Tests!Task

\* While a producer has not added, fewer than all have.
LEMMA NotAllAdded ==
  ASSUME NEW c \in Harnesses, Control(c), WithTasks(c),
         NEW j \in Pushers(c), j \notin Added(c)
  PROVE  Cardinality(Added(c)) + 1 <= Test(c).producers
<1> DEFINE T == Test(c).producers
           A == Added(c)
<1>1. T \in Nat \ {0} /\ A \in SUBSET (0..(T - 1)) /\ A # 0..(T - 1)
      /\ Cardinality(A) \in Nat /\ Cardinality(A) <= T
  BY WithTasksShape, TotalsBounded DEF Added, Pushers
<1> HIDE DEF T, A
<1>2. IsFiniteSet(0..(T - 1)) /\ Cardinality(0..(T - 1)) = T
  BY <1>1, FS_Interval
<1>3. Cardinality(A) # T
  BY <1>1, <1>2, FS_Subset
<1>4. QED
  BY <1>1, <1>3 DEF T, A

\* The totals.
LEMMA StepTotals ==
  ASSUME NEW c \in Harnesses, Control(c), TasksOK(c), Totals(c), Tests(c)!Next
  PROVE  Totals(c)'
<1> DEFINE Sum(c0) == /\ push_total = Cardinality(Added(c0)) * Test(c0).push.adds
                     /\ pop_total = Cardinality(Popped(c0)) * Test(c0).pop.quota
<1>1. /\ quit \in {0, 1} /\ (quit = 1 => push_total = c.MAX_MSG_COUNT)
      /\ WithTasks(c) => Sum(c)
      /\ ~WithTasks(c) => push_total = 0 /\ pop_total = 0 /\ quit = 0
  BY DEF Totals, WithTasks
<1>2. c.MAX_MSG_COUNT \in Nat \ {0}
  BY Quotas
<1>3. CASE Tests(c)!SerialTest
  <2>1. /\ push_total' = 0 /\ pop_total' = 0 /\ quit' = 0
        /\ n' = n + 1 /\ Tests(c)!Program[n + 1].kind = "serial"
    BY <1>3 DEF Tests!SerialTest, Tests!init_globals
  <2>2. (Test(c)').kind = "serial"
    BY <2>1 DEF Test, Tests!Current
  <2>3. QED
    BY <2>1, <2>2 DEF Totals
<1>4. CASE Tests(c)!BeginTest
  <2>1. push_total' = 0 /\ pop_total' = 0 /\ quit' = 0
    BY <1>4 DEF Tests!BeginTest, Tests!init_globals
  <2>2. WithTasks(c)'
    BY <1>4, BegunTest DEF WithTasks
  <2>3. (Test(c)').push.adds \in Nat /\ (Test(c)').pop.quota \in Nat
    BY <1>4, BegunTest
  <2>4. Added(c)' = {} /\ Popped(c)' = {}
    BY <1>4, BegunTest DEF Added, Popped
  <2>5. Cardinality({}) = 0
    BY FS_EmptySet
  <2>6. 0 = 0 * (Test(c)').push.adds /\ 0 = 0 * (Test(c)').pop.quota
    BY <2>3
  <2>7. Sum(c)'
    BY <2>1, <2>4, <2>5, <2>6
  <2>8. QED
    BY <2>1, <2>2, <2>7, <1>2 DEF Totals, WithTasks
<1>5. ASSUME Tests(c)!Main, ~Tests(c)!BeginTest, ~Tests(c)!SerialTest
      PROVE  Totals(c)'
  <2>1. /\ n' = n /\ UNCHANGED <<push_total, pop_total, quit>>
        /\ WithTasks(c) => Added(c)' = Added(c) /\ Popped(c)' = Popped(c)
    BY <1>5, MainTotals
  <2>2. Test(c)' = Test(c)
    BY <2>1, TestSame
  <2>3. QED
    BY <2>1, <2>2, <1>1 DEF Totals, WithTasks
<1>6. ASSUME NEW t \in DOMAIN running, Tests(c)!Task(t)
      PROVE  Totals(c)'
  <2>1. InTest /\ n' = n /\ Test(c)' = Test(c) /\ Control(c)'
    BY <1>6, TaskKnown, TaskFrame, TestSame, TaskControl
  <2>2. WithTasks(c) /\ WithTasks(c)'
    BY <2>1 DEF Control, WithTasks
  <2>3. /\ IsFiniteSet(Added(c)) /\ IsFiniteSet(Popped(c))
        /\ Cardinality(Added(c)) \in Nat /\ Cardinality(Popped(c)) \in Nat
        /\ Test(c).push.adds \in Nat \ {0} /\ Test(c).pop.quota \in Nat \ {0}
    BY <2>2, TotalsBounded, WithTasksShape
  <2>4. /\ push_total = Cardinality(Added(c)) * Test(c).push.adds
        /\ pop_total = Cardinality(Popped(c)) * Test(c).pop.quota
    BY <1>1, <2>2
  <2>5. \A a \in Nat : \A d \in Nat : (a + 1) * d = a * d + d
    OBVIOUS
  <2>6. CASE NothingAdded(c)
    <3>1. Sum(c)'
      BY <2>1, <2>4, <2>6 DEF NothingAdded
    <3>2. quit' \in {0, 1} /\ (quit' = 1 => push_total' = c.MAX_MSG_COUNT)
      BY <1>1, <2>6 DEF NothingAdded
    <3>3. QED
      BY <3>1, <3>2, <2>2 DEF Totals, WithTasks
  <2>7. CASE PushAdds(c)
    <3>1. PICK j : j \notin Added(c) /\ Added(c)' = Added(c) \union {j}
      BY <2>7 DEF PushAdds
    <3>2. Cardinality(Added(c)') = Cardinality(Added(c)) + 1
      BY <3>1, <2>3, FS_AddElement
    <3>3. Cardinality(Added(c)') * Test(c).push.adds
            = Cardinality(Added(c)) * Test(c).push.adds + Test(c).push.adds
      BY <3>2, <2>3, <2>5
    <3>4. /\ push_total' = push_total + Test(c).push.adds
          /\ Popped(c)' = Popped(c) /\ UNCHANGED <<pop_total, quit>>
      BY <2>7 DEF PushAdds
    <3>5. Sum(c)'
      BY <3>3, <3>4, <2>1, <2>4
    \* Without all the messages, since the task adds what nobody had added yet.
    <3>6. push_total # c.MAX_MSG_COUNT
      <4>1. Cardinality(Added(c)) + 1 <= Test(c).producers
        BY <2>2, <2>7, NotAllAdded DEF PushAdds
      <4>2. (Cardinality(Added(c)) + 1) * Test(c).push.adds
              <= Test(c).producers * Test(c).push.adds
        <5>1. /\ Cardinality(Added(c)) + 1 \in Nat /\ Test(c).producers \in Nat
              /\ Test(c).push.adds \in Nat
          BY <2>2, <2>3, WithTasksShape
        <5>2. QED
          BY <4>1, <5>1, ProductMonotone, Zenon
      <4>3. (Cardinality(Added(c)) + 1) * Test(c).push.adds \in Nat
            /\ Test(c).producers * Test(c).push.adds \in Nat
            /\ Test(c).producers * Test(c).push.adds <= c.MAX_MSG_COUNT
        BY <2>2, <2>3, WithTasksShape
      <4>4. push_total' <= c.MAX_MSG_COUNT /\ push_total \in Nat
        <5>1. push_total' = (Cardinality(Added(c)) + 1) * Test(c).push.adds
          BY <3>2, <3>5, <2>1
        <5>2. QED
          BY <5>1, <4>2, <4>3, <2>3, <2>4, <1>2
      <4>5. QED
        BY <4>4, <3>4, <2>3, <1>2
    <3>7. QED
      BY <3>4, <3>5, <3>6, <1>1, <2>2 DEF Totals, WithTasks
  <2>8. CASE PopAdds(c)
    <3>1. PICK j : j \notin Popped(c) /\ Popped(c)' = Popped(c) \union {j}
      BY <2>8 DEF PopAdds
    <3>2. Cardinality(Popped(c)') = Cardinality(Popped(c)) + 1
      BY <3>1, <2>3, FS_AddElement
    <3>3. Cardinality(Popped(c)') * Test(c).pop.quota
            = Cardinality(Popped(c)) * Test(c).pop.quota + Test(c).pop.quota
      BY <3>2, <2>3, <2>5
    <3>4. /\ pop_total' = pop_total + Test(c).pop.quota
          /\ Added(c)' = Added(c) /\ UNCHANGED <<push_total, quit>>
      BY <2>8 DEF PopAdds
    <3>5. Sum(c)'
      BY <3>3, <3>4, <2>1, <2>4
    <3>6. QED
      BY <3>4, <3>5, <1>1, <2>2 DEF Totals, WithTasks
  <2>9. QED
    BY <1>6, TaskTotals, <2>6, <2>7, <2>8
<1>7. QED
  BY TestsNext, <1>3, <1>4, <1>5, <1>6

\* When main has joined every handle no task is left.
LEMMA NoneAlive ==
  ASSUME NEW c \in Harnesses, Control(c), mainPc = "join", i \notin DOMAIN kids
  PROVE  \A j \in Ids(c) : ~Alive(j)
<1>1. DOMAIN kids = Ids(c) /\ \A j \in DOMAIN kids : j \in Nat
  BY InTestShape DEF InTest
<1>2. \A j \in DOMAIN kids : j < i
  <2>1. InTest /\ i \in Nat
    BY DEF Control, InTest
  <2>2. QED
    BY <1>1, <2>1, InTestShape DEF Control, Ids
<1>3. QED
  BY <1>1, <1>2 DEF Control

\* What a test verifies.
LEMMA EndReport ==
  ASSUME NEW c \in Harnesses, Control(c), ListsOK(c), Data(c), Tests(c)!EndTest
  PROVE  /\ Tests(c)!EveryTaskStarted =>
              report' = [empty |-> c.MAX_MSG_COUNT - Cardinality(Tests(c)!Places),
                         overlay |-> 0, correct |-> Cardinality(Tests(c)!Places)]
         /\ ~Tests(c)!EveryTaskStarted =>
              report'.correct < c.MAX_MSG_COUNT /\ report'.overlay = 0
<1> DEFINE P == Tests(c)!Places
           M == Tests(c)!Messages
           L == List(c)
           T == Test(c)
<1>1. /\ mainPc = "join" /\ i \notin DOMAIN kids /\ InTest
      /\ report' = Tests(c)!Verify(L)
  BY DEF Tests!EndTest, Tests!Joined, InTest, List, Tests!pop_list_verify,
         Tests!disruptor_pop_list_verify, Test
<1>2. /\ Concurrent(c, T) /\ Distinct(c) /\ Unsent(c) /\ Filled(c)
      /\ DOMAIN kids = Ids(c)
      /\ T.producers \in Nat \ {0} /\ T.consumers \in Nat \ {0}
      /\ Pushers(c) \subseteq Ids(c) /\ Poppers(c) \subseteq Ids(c)
      /\ \A j \in Ids(c) : j \in Nat /\ (j \in Pushers(c) \/ j \in Poppers(c))
  BY <1>1, InTestShape DEF Data
<1>3. /\ T.push.adds \in Nat \ {0} /\ T.pop.quota \in Nat \ {0}
      /\ T.consumers \in 1..c.POP_CNT
  BY <1>2 DEF Concurrent, Threaded
<1>4. \A j \in Ids(c) : Moved(c, j) = IF Created(j) THEN Quota(c, j) ELSE 0
  BY <1>1, NoneAlive DEF Moved
<1>5. /\ L \in [P -> {0} \union M]
      /\ \A p, q \in P : L[p] = L[q] => p = q \/ L[p] = 0
  BY <1>2 DEF ListsOK, List, Distinct
<1>6. /\ Tests(c)!Verify(L).overlay = 0
      /\ (\A p \in P : L[p] # 0) =>
           Tests(c)!Verify(L) = [empty |-> c.MAX_MSG_COUNT - Cardinality(P), overlay |-> 0,
                                 correct |-> Cardinality(P)]
      /\ (\E p \in P : L[p] = 0) => Tests(c)!Verify(L).correct < c.MAX_MSG_COUNT
      /\ (\E m \in M : \A p \in P : L[p] # m) => Tests(c)!Verify(L).correct < c.MAX_MSG_COUNT
  <2> HIDE DEF L
  <2>1. QED
    BY <1>5, Verified
<1> HIDE DEF P, M, L, T
<1>7. ASSUME Tests(c)!EveryTaskStarted
      PROVE  \A p \in P : L[p] # 0
  <2> SUFFICES ASSUME NEW p \in P PROVE L[p] # 0
    OBVIOUS
  <2>1. PICK a \in 0..(T.consumers - 1), x \in 0..(T.pop.quota - 1) : p = Tests(c)!Place(a, x)
    <3>1. PlacesFit(c, T)
      BY <1>2 DEF Concurrent
    <3>2. QED
      BY <3>1 DEF PlacesFit, P
  <2> DEFINE j == a + T.producers
  <2>2. j \in Poppers(c) /\ j - T.producers = a /\ a \in Nat /\ j >= T.producers
    BY <1>2 DEF Poppers, T
  <2>3. Created(j)
    BY <1>7, <1>2, <2>2 DEF Tests!EveryTaskStarted, Tests!NoKid, Created
  <2>4. Quota(c, j) = T.pop.quota
    BY <2>2, <1>2 DEF Quota, T
  <2> HIDE DEF j
  <2>5. Moved(c, j) = T.pop.quota
    BY <1>2, <1>4, <2>2, <2>3, <2>4
  <2>6. x < Moved(c, j)
    BY <2>5, <1>3
  <2>7. L[Tests(c)!Place(j - T.producers, x)] # 0
    BY <1>2, <2>1, <2>2, <2>6 DEF Filled, P, L, T
  <2>8. QED
    BY <2>1, <2>2, <2>7
<1>8. ASSUME ~Tests(c)!EveryTaskStarted
      PROVE  (\E p \in P : L[p] = 0) \/ (\E m \in M : \A p \in P : L[p] # m)
  <2>1. PICK j \in Ids(c) : ~Created(j)
    BY <1>2, <1>8 DEF Tests!EveryTaskStarted, Tests!NoKid, Created
  <2>2. Moved(c, j) = 0
    BY <1>4, <2>1
  <2>3. CASE j \in Pushers(c)
    <3>1. 0 \in 0..(T.push.adds - 1) /\ Moved(c, j) <= 0
      BY <1>3, <2>2
    <3>2. ~InList(c, Tests(c)!Message(j, 0))
      BY <1>2, <2>3, <3>1 DEF Unsent, T
    <3>3. Tests(c)!Message(j, 0) \in M
      BY <1>2, <2>3, <3>1 DEF Concurrent, OwnMessages, Pushers, M, T
    <3>4. QED
      BY <3>2, <3>3 DEF InList, P, L
  <2>4. CASE j \in Poppers(c)
    <3>1. j - T.producers \in 0..(c.POP_CNT - 1)
      BY <1>2, <1>3, <2>4, Quotas DEF Poppers, T
    <3>2. Tests(c)!Place(j - T.producers, 0) \in P
      <4>1. ASSUME NEW a \in 0..(c.POP_CNT - 1)
            PROVE  a * Tests(c)!MAX_POP_MSG_COUNT + 0
                     \in 0..(c.POP_CNT * Tests(c)!MAX_POP_MSG_COUNT - 1)
        <5>1. 0 \in 0..(Tests(c)!MAX_POP_MSG_COUNT - 1)
          BY Quotas
        <5>2. QED
          BY <5>1, DigitsBelow, Quotas
      <4>2. QED
        BY <3>1, <4>1 DEF Tests!Place, Tests!Places, P
    <3>3. 0 \in 0..(T.pop.quota - 1) /\ ~(0 < Moved(c, j))
      BY <1>3, <2>2
    <3>4. L[Tests(c)!Place(j - T.producers, 0)] = 0
      BY <1>2, <2>4, <3>2, <3>3 DEF Filled, P, L, T
    <3>5. QED
      BY <3>2, <3>4
  <2>5. QED
    BY <1>2, <2>1, <2>3, <2>4
<1>9. QED
  BY <1>1, <1>6, <1>7, <1>8 DEF P

\* What the serial test verifies.
LEMMA SerialReport ==
  ASSUME NEW c \in Harnesses, Tests(c)!SerialTest
  PROVE  /\ report' = [empty |-> c.MAX_MSG_COUNT - Cardinality(Tests(c)!Places),
                       overlay |-> 0, correct |-> Cardinality(Tests(c)!Places)]
         /\ (Tests(c)!EveryTaskStarted)'
<1> DEFINE P == Tests(c)!Places
           L == [p \in P |-> p + 1]
<1>1. report' = Tests(c)!Verify(L) /\ kids' = << >>
  BY DEF Tests!SerialTest
<1>2. \A p \in P : p \in Nat /\ p + 1 \in Tests(c)!Messages
  BY Quotas DEF Tests!Places, Tests!Messages
<1> HIDE DEF P
<1>3. /\ L \in [P -> {0} \union Tests(c)!Messages]
      /\ \A p \in P : L[p] # 0
      /\ \A p, q \in P : L[p] = L[q] => p = q
  BY <1>2
<1> HIDE DEF L
<1>4. Tests(c)!Verify(L) = [empty |-> c.MAX_MSG_COUNT - Cardinality(P), overlay |-> 0,
                            correct |-> Cardinality(P)]
  BY <1>3, Verified DEF P
<1>5. QED
  BY <1>1, <1>4 DEF P, Tests!EveryTaskStarted

\* What the program has reported.
LEMMA StepReports ==
  ASSUME NEW c \in Harnesses, Control(c), TasksOK(c), ListsOK(c), Data(c), Reports(c),
         Tests(c)!Next
  PROVE  Reports(c)'
<1>1. CASE Tests(c)!SerialTest
  <2>1. QED
    BY <1>1, SerialReport, TestsCardinality
       DEF Reports, Tests!ReportExact, Tests!NoFalseReport, Tests!EveryTaskStarted
<1>2. CASE Tests(c)!EndTest
  <2>1. kids' = kids
    BY <1>2 DEF Tests!EndTest
  <2>2. (Tests(c)!EveryTaskStarted)' <=> Tests(c)!EveryTaskStarted
    BY <2>1 DEF Tests!EveryTaskStarted
  <2>3. QED
    BY <1>2, <2>2, EndReport, TestsCardinality DEF Reports, Tests!ReportExact, Tests!NoFalseReport
<1>3. CASE Tests(c)!Main /\ ~Tests(c)!SerialTest /\ ~Tests(c)!EndTest
  <2>1. mainPc' # "next"
    BY <1>3 DEF Tests!Main, Tests!BeginTest, Tests!StartTask, Tests!AllStarted, Tests!Join,
                Tests!Done
  <2>2. QED
    BY <2>1 DEF Reports, Tests!ReportExact, Tests!NoFalseReport, Tests!Reported
<1>4. ASSUME NEW t \in DOMAIN running, Tests(c)!Task(t)
      PROVE  Reports(c)'
  <2>1. mainPc' # "next"
    BY <1>4, TaskKnown, TaskFrame DEF InTest
  <2>2. QED
    BY <2>1 DEF Reports, Tests!ReportExact, Tests!NoFalseReport, Tests!Reported
<1>5. QED
  BY TestsNext, <1>1, <1>2, <1>3, <1>4

LEMMA TestsStepInv ==
  ASSUME NEW c \in Harnesses, TestsInv(c), Tests(c)!Next
  PROVE  TestsInv(c)'
  BY StepControl, StepTasks, StepLists, StepOverrun, StepData, StepTotals, StepReports DEF TestsInv

\* What the invariant says of the program.
LEMMA TestsProperties ==
  ASSUME NEW c \in Harnesses, TestsInv(c)
  PROVE  /\ Tests(c)!TypeOK /\ Tests(c)!NoTaskOutlivesTest
         /\ Tests(c)!ReportExact /\ Tests(c)!TotalsExact /\ Tests(c)!NoFalseReport
         /\ Tests(c)!OverrunOnlyIfUneven
<1> USE DEF TestsInv
<1>1. Tests(c)!NoTaskOutlivesTest
  <2>1. \A t \in DOMAIN running : InTest /\ \E j \in Ids(c) : t = Kid(j)
    BY TaskKnown
  <2>2. QED
    BY <2>1 DEF Tests!NoTaskOutlivesTest, Kid, InTest
<1>2. Tests(c)!TotalsExact
  <2> SUFFICES ASSUME mainPc = "next", n > 0, Test(c).kind # "serial", Tests(c)!EveryTaskStarted
               PROVE  /\ pop_total = Test(c).consumers * Test(c).pop.quota
                      /\ push_total = Test(c).producers * Test(c).push.adds
                      /\ quit = 1 => push_total = c.MAX_MSG_COUNT
    BY DEF Tests!TotalsExact, Tests!Reported, Tests!Delivered, Test
  <2>1. WithTasks(c)
    BY DEF WithTasks
  <2>2. /\ DOMAIN kids = Ids(c) /\ Test(c).producers \in Nat \ {0}
        /\ Test(c).consumers \in Nat \ {0}
    BY <2>1, WithTasksShape
  <2>3. \A j \in DOMAIN kids : Created(j) /\ ~Alive(j)
    BY DEF Tests!EveryTaskStarted, Tests!NoKid, Created, Alive, Control, InTest
  <2>4. Added(c) = 0..(Test(c).producers - 1)
    BY <2>2, <2>3 DEF Added, Pushers, Ids
  <2>5. Popped(c) = Test(c).producers..(Test(c).producers + Test(c).consumers - 1)
    BY <2>2, <2>3 DEF Popped, Poppers, Ids
  <2>6. ASSUME NEW a \in Nat \ {0}, NEW b \in Nat \ {0}, NEW S,
               S = 0..(a - 1) \/ S = b..(b + a - 1)
        PROVE  Cardinality(S) = a
    BY <2>6, FS_Interval
  <2>7. Cardinality(Added(c)) = Test(c).producers /\ Cardinality(Popped(c)) = Test(c).consumers
    BY <2>2, <2>4, <2>5, <2>6
  <2>8. QED
    BY <2>1, <2>7 DEF Totals, WithTasks
<1>3. Tests(c)!TypeOK
  <2>1. /\ mainPc \in {"next", "start", "join", "done", "faulted"}
        /\ n \in 0..Len(Tests(c)!Program)
    BY DEF Control
  <2>2. i \in 0..(c.PUSH_CNT + c.POP_CNT)
    <3>1. CASE InTest
      <4>1. Test(c).producers \in 1..c.PUSH_CNT /\ Test(c).consumers \in 1..c.POP_CNT
        BY <3>1, InTestShape DEF Concurrent, Threaded
      <4>2. i \in Nat /\ i <= Test(c).producers + Test(c).consumers
        BY <3>1 DEF Control
      <4>3. QED
        BY <4>1, <4>2, Quotas
    <3>2. CASE ~InTest
      BY <3>2, Quotas DEF Control
    <3>3. QED
      BY <3>1, <3>2
  <2>3. \A u \in DOMAIN kids : kids[u] \in Tests(c)!ThreadHandles \union {Tests(c)!NoKid}
    <3> SUFFICES ASSUME NEW j \in DOMAIN kids
                 PROVE  kids[j] \in Tests(c)!ThreadHandles \union {<<0, 0>>}
      BY DEF Tests!NoKid
    <3>1. kids[j] \in {<<0, 0>>, Kid(j)} /\ WithTasks(c)
      BY DEF Control, WithTasks
    <3>2. Test(c).producers \in 1..c.PUSH_CNT /\ Test(c).consumers \in 1..c.POP_CNT /\ j \in Ids(c)
      BY <3>1, WithTasksShape DEF Concurrent, Threaded
    <3>3. j + 1 \in 1..(c.PUSH_CNT + c.POP_CNT)
      BY <3>2, Quotas DEF Ids
    <3>4. n \in 1..Len(Tests(c)!Program)
      BY <2>1, <3>1, ProgramKnown DEF WithTasks
    <3>5. QED
      BY <3>1, <3>3, <3>4 DEF Kid, Tests!ThreadHandles
  <2>4. \A t \in DOMAIN running :
          running[t] \in [role : {"push", "pop"}, idx : Nat, count : Nat, added : BOOLEAN]
    <3> SUFFICES ASSUME NEW t \in DOMAIN running
                 PROVE  running[t] \in
                          [role : {"push", "pop"}, idx : Nat, count : Nat, added : BOOLEAN]
      OBVIOUS
    <3>1. PICK j \in Ids(c) : running[t] \in TaskOf(c, j)
      BY TaskKnown
    <3>2. /\ Test(c).producers \in Nat /\ j \in Nat /\ Concurrent(c, Test(c))
      BY TaskKnown, InTestShape
    <3>3. Quota(c, j) \in Nat
      BY <3>2 DEF Quota, Concurrent, Threaded
    <3>4. (IF j < Test(c).producers THEN j ELSE j - Test(c).producers) \in Nat
      BY <3>2
    <3>5. QED
      BY <3>1, <3>3, <3>4 DEF TaskOf
  <2>5. /\ queue \in Seq(Tests(c)!Messages) /\ Len(queue) <= c.QSIZE
        /\ {popmsg_list, dis_popevent_list} \subseteq
             [Tests(c)!Places -> {0} \union Tests(c)!Messages]
    BY DEF ListsOK
  <2>6. overrun \subseteq 1..n
    BY DEF OverrunOK
  <2>7. push_total \in 0..c.MAX_MSG_COUNT /\ pop_total \in 0..c.MAX_MSG_COUNT /\ quit \in {0, 1}
    <3>1. CASE WithTasks(c)
      BY <3>1, TotalsBounded DEF Totals, WithTasks
    <3>2. CASE ~WithTasks(c)
      BY <3>2, Quotas DEF Totals, WithTasks
    <3>3. QED
      BY <3>1, <3>2
  <2>8. QED
    BY <2>1, <2>2, <2>3, <2>4, <2>5, <2>6, <2>7 DEF Tests!TypeOK
<1>4. QED
  BY <1>1, <1>2, <1>3 DEF Reports, OverrunOK

-----------------------------------------------------------------------------
(* The systems together.                                                    *)

\* A step of something else leaves the test program's invariant as it was.
LEMMA TestsStutter ==
  ASSUME NEW c \in Harnesses, TestsInv(c), UNCHANGED <<mainPc, ownHarness>>
  PROVE  TestsInv(c)'
<1>1. /\ UNCHANGED <<mainPc, n, i, kids, running, queue, popmsg_list, dis_popevent_list>>
      /\ UNCHANGED <<push_total, pop_total, quit, overrun, report>>
  BY DEF ownHarness
<1>2. /\ Test(c)' = Test(c) /\ Ids(c)' = Ids(c) /\ Pushers(c)' = Pushers(c)
      /\ Poppers(c)' = Poppers(c) /\ List(c)' = List(c) /\ (InTest' <=> InTest)
      /\ \A o : /\ Kid(o)' = Kid(o) /\ Alive(o)' = Alive(o) /\ Created(o)' = Created(o)
                /\ Quota(c, o)' = Quota(c, o)
  BY <1>1, TestSame DEF Ids, Pushers, Poppers, List, InTest, Kid, Alive, Created, Quota
<1>3. Control(c)'
  BY <1>1, <1>2 DEF TestsInv, Control
<1>4. TasksOK(c)'
  BY <1>1, <1>2 DEF TestsInv, TasksOK, TaskOf
<1>5. ListsOK(c)'
  BY <1>1 DEF TestsInv, ListsOK
<1>6. OverrunOK(c)'
  BY <1>1 DEF TestsInv, OverrunOK, Tests!OverrunOnlyIfUneven
<1>7. Data(c)'
  <2>1. \A o : Moved(c, o)' = Moved(c, o)
    BY <1>1, <1>2 DEF Moved
  <2>2. \A m : InQueue(m)' <=> InQueue(m)
    BY <1>1 DEF InQueue
  <2>3. \A m : InList(c, m)' <=> InList(c, m)
    BY <1>2 DEF InList
  <2>4. Distinct(c) => Distinct(c)'
    BY <1>1, <1>2 DEF Distinct, InList
  <2>5. Unsent(c) => Unsent(c)'
    BY <1>1, <1>2, <2>1 DEF Unsent, InQueue, InList, Tests!Message
  <2>6. Filled(c) => Filled(c)'
    BY <1>1, <1>2, <2>1 DEF Filled, Tests!Place
  <2>7. QED
    BY <1>2, <2>4, <2>5, <2>6 DEF TestsInv, Data
<1>8. Totals(c)'
  <2>1. Added(c)' = Added(c) /\ Popped(c)' = Popped(c)
    BY <1>1, <1>2 DEF Added, Popped
  <2>2. QED
    BY <1>1, <1>2, <2>1 DEF TestsInv, Totals
<1>9. Reports(c)'
  BY <1>1 DEF TestsInv, Reports, Tests!ReportExact, Tests!NoFalseReport, Tests!Reported,
              Tests!EveryTaskStarted
<1>10. QED
  BY <1>3, <1>4, <1>5, <1>6, <1>7, <1>8, <1>9 DEF TestsInv

\* Nor does it change that of the pthread functions.
LEMMA ShimStutter ==
  ASSUME NEW s \in Shims, ShimInv(s), UNCHANGED <<mainPc, ownShim>>
  PROVE  ShimInv(s)'
<1>1. UNCHANGED <<mainPc, k, state, owner, depth, holds, loop_cnt, returned>>
  BY DEF ownShim
<1>2. ShimControl(s)'
  BY <1>1 DEF ShimInv, ShimControl
<1>3. ShimMutex(s)'
  BY <1>1 DEF ShimInv, ShimMutex
<1>4. ShimJoins(s)'
  BY <1>1 DEF ShimInv, ShimJoins, Shim!Running
<1>5. QED
  BY <1>2, <1>3, <1>4 DEF ShimInv

\* The invariant: that of SpinMutex always, and that of the system at hand.
SystemInv ==
  /\ system \in {"SpinMutex", "tests", "pthread"}
  /\ Inv
  /\ \A c \in Harnesses : IsTests(c) => TestsInv(c)
  /\ \A s \in Shims : IsShim(s) => ShimInv(s)

\* Each system begins in its own initial state.
LEMMA SystemInit ==
  ASSUME MCInit
  PROVE  SystemInv
<1>1. Inv
  BY MutexInit DEF MCInit
<1>2. CASE system = "SpinMutex"
  BY <1>1, <1>2 DEF SystemInv, IsTests, IsShim
<1>3. ASSUME NEW c \in Harnesses, IsTests(c), Tests(c)!Init
      PROVE  SystemInv
  BY <1>1, <1>3, TestsInitInv DEF SystemInv, IsTests, IsShim
<1>4. ASSUME NEW s \in Shims, IsShim(s), Shim(s)!Init
      PROVE  SystemInv
  BY <1>1, <1>4, ShimInitInv DEF SystemInv, IsTests, IsShim
<1>5. QED
  BY <1>2, <1>3, <1>4 DEF MCInit

\* A step of one system is a stutter of the others.
LEMMA SystemStep ==
  ASSUME SystemInv, [MCNext]_allVars
  PROVE  SystemInv'
<1>1. CASE system = "SpinMutex" /\ Next /\ KeepMutex
  <2>1. Inv'
    BY <1>1, MutexStep DEF SystemInv
  <2>2. system' = system
    BY <1>1 DEF KeepMutex
  <2>3. QED
    BY <1>1, <2>1, <2>2 DEF SystemInv, IsTests, IsShim
<1>2. ASSUME NEW c \in Harnesses, IsTests(c), Tests(c)!Next, KeepHarness
      PROVE  SystemInv'
  <2>1. UNCHANGED <<system, config, vars>>
    BY <1>2 DEF KeepHarness
  <2>2. Inv'
    BY <2>1, MutexStep DEF SystemInv
  <2>3. TestsInv(c)'
    BY <1>2, TestsStepInv DEF SystemInv
  <2>4. QED
    BY <1>2, <2>1, <2>2, <2>3 DEF SystemInv, IsTests, IsShim
<1>3. ASSUME NEW s \in Shims, IsShim(s), Shim(s)!Next, KeepShim
      PROVE  SystemInv'
  <2>1. UNCHANGED <<system, config, vars>>
    BY <1>3 DEF KeepShim
  <2>2. Inv'
    BY <2>1, MutexStep DEF SystemInv
  <2>3. ShimInv(s)'
    BY <1>3, ShimStepInv DEF SystemInv
  <2>4. QED
    BY <1>3, <2>1, <2>2, <2>3 DEF SystemInv, IsTests, IsShim
<1>4. CASE UNCHANGED allVars
  <2>1. UNCHANGED <<system, config, vars, mainPc, ownHarness, ownShim>>
    BY <1>4 DEF allVars
  <2>2. Inv'
    BY <2>1, MutexStep DEF SystemInv
  <2>3. \A c \in Harnesses : TestsInv(c) => TestsInv(c)'
    BY <2>1, TestsStutter
  <2>4. \A s \in Shims : ShimInv(s) => ShimInv(s)'
    BY <2>1, ShimStutter
  <2>5. QED
    BY <2>1, <2>2, <2>3, <2>4 DEF SystemInv, IsTests, IsShim
<1>5. QED
  BY <1>1, <1>2, <1>3, <1>4 DEF MCNext

\* Every system keeps its invariant, whatever the configuration.
THEOREM SystemInvariance == MCSpec => []SystemInv
  BY SystemInit, SystemStep, PTL DEF MCSpec

\* The test program's variables and those of the pthread functions stay within
\* their types, the mutex of pthread.c excludes, and a mutex left behind is that
\* of a detached worker.
THEOREM ProgramSafe == MCSpec => []ProgramInv
<1>1. SystemInv => ProgramInv
  BY TestsProperties, ShimProperties DEF SystemInv, ProgramInv
<1>2. QED
  BY <1>1, SystemInvariance, PTL

\* SpinMutex excludes here too.
THEOREM ProgramExclusion == MCSpec => []MutualExclusion
<1>1. SystemInv => MutualExclusion
  BY DEF SystemInv, Inv
<1>2. QED
  BY <1>1, SystemInvariance, PTL

\* No task of a test is left when main goes on, however many tasks a test has,
\* whichever of them could not be started and however main's joins and the
\* tasks' last steps interleave; and no thread a join of pthread.c returned 0 for.
THEOREM EveryTaskJoined == MCSpec => []NoTaskOutlivesTest
<1>1. SystemInv => NoTaskOutlivesTest
  BY TestsProperties, ShimProperties DEF SystemInv, NoTaskOutlivesTest
<1>2. QED
  BY <1>1, SystemInvariance, PTL

\* A test's report and totals are those of its own messages, each counted once,
\* for every number of tasks and messages; with a task missing the report shows it.
THEOREM ReportRight == MCSpec => []ReportExact
<1>1. SystemInv => ReportExact
  BY TestsProperties DEF SystemInv, ReportExact
<1>2. QED
  BY <1>1, SystemInvariance, PTL

\* The lists are overrun by no test that divides them among its consumers, and
\* by the two others only if POP_CNT does not divide the number of messages.
THEOREM ListsWithinBounds == MCSpec => []OverrunOnlyIfUneven
<1>1. SystemInv => OverrunOnlyIfUneven
  BY TestsProperties DEF SystemInv, OverrunOnlyIfUneven
<1>2. QED
  BY <1>1, SystemInvariance, PTL

-----------------------------------------------------------------------------
(* The words of a sequence, and the values they make.                       *)

\* An instance counts as FiniteSets does.
LEMMA SequenceCardinality ==
  ASSUME NEW u, NEW S
  PROVE  /\ Sequence(u)!Cardinality(S) = Cardinality(S)
         /\ Sequence(u)!IsFiniteSet(S) <=> IsFiniteSet(S)
BY DEF Sequence!Cardinality, Cardinality, Sequence!IsFiniteSet, IsFiniteSet

\* Half the values of a sequence.
Half(u) == (u.WordModulus * u.WordModulus) \div 2

\* What the assumptions say of them.
LEMMA UseFacts ==
  ASSUME NEW u \in Uses
  PROVE  /\ u.WordModulus \in Nat /\ u.WordModulus >= 2
         /\ Half(u) \in Nat /\ u.WordModulus * u.WordModulus = 2 * Half(u)
         /\ Sequence(u)!MAX_VALUE = Half(u) - 1
         /\ IsFiniteSet(u.Claimers) /\ Cardinality(u.Claimers) \in Nat
         /\ u.LastValue \in Nat /\ u.LastValue + Cardinality(u.Claimers) < Half(u) - 1
<1> DEFINE W == u.WordModulus
<1>1. Sequence(u)!SequenceAssumption
  BY UsesAssumption
<1>2. W \in Nat /\ W >= 2 /\ W % 2 = 0
  BY <1>1 DEF Sequence!SequenceAssumption
<1> HIDE DEF W
<1>3. PICK j \in Nat : W = 2 * j
  BY <1>2, Division
<1>4. W * W = 2 * (j * W) /\ j * W \in Nat
  BY <1>2, <1>3
<1>5. \A m \in Nat : (2 * m) \div 2 = m
  OBVIOUS
<1>6. (W * W) \div 2 = j * W
  BY <1>4, <1>5
<1>7. Sequence(u)!MAX_VALUE = Half(u) - 1
  BY DEF Sequence!MAX_VALUE, Half
<1>8. IsFiniteSet(u.Claimers)
  BY <1>1, SequenceCardinality DEF Sequence!SequenceAssumption
<1>9. Cardinality(u.Claimers) \in Nat
  BY <1>8, FS_CardinalityType
<1>10. u.LastValue \in Nat /\ u.LastValue + Cardinality(u.Claimers) < Half(u) - 1
  BY <1>1, <1>7, SequenceCardinality DEF Sequence!SequenceAssumption
<1>11. QED
  BY <1>2, <1>4, <1>6, <1>7, <1>8, <1>9, <1>10 DEF W, Half

\* The remainder of an integer that is at most once round.
LEMMA Remainder ==
  ASSUME NEW q \in Nat \ {0}, NEW v \in (-q)..(q - 1)
  PROVE  (v % q) = IF v >= 0 THEN v ELSE v + q
<1>1. PICK d \in Int, r \in 0..(q - 1) : v = q * d + r /\ r = (v % q)
  <2>1. (v \div q) \in Int /\ (v % q) \in 0..(q - 1) /\ v = q * (v \div q) + (v % q)
    OBVIOUS
  <2>2. QED
    BY <2>1
<1>2. ASSUME NEW e \in Int, e >= 1 PROVE q * e >= q
  BY <1>2, Z3
<1>3. q * (-1) = -q /\ q * 0 = 0
  OBVIOUS
<1>4. ASSUME NEW e \in Int, e <= -2 PROVE q * e <= -2 * q
  BY <1>4, Z3
<1>5. d \in {-1, 0}
  <2>1. ~(d >= 1)
    BY <1>1, <1>2
  <2>2. ~(d <= -2)
    BY <1>1, <1>4
  <2>3. QED
    BY <2>1, <2>2
<1>6. QED
  BY <1>1, <1>3, <1>5

\* The words of a number, and the value they make.
LEMMA SplitWords ==
  ASSUME NEW u \in Uses, NEW v \in Int
  PROVE  LET q == v % (u.WordModulus * u.WordModulus)
         IN  /\ Sequence(u)!Split(v) \in Sequence(u)!Pairs
             /\ Sequence(u)!Value(Sequence(u)!Split(v)) =
                  IF 2 * q < u.WordModulus * u.WordModulus
                  THEN q ELSE q - u.WordModulus * u.WordModulus
<1> DEFINE W == u.WordModulus
           q == v % (W * W)
           s == Sequence(u)!Split(v)
<1>1. /\ W \in Nat /\ W >= 2 /\ W * W = 2 * Half(u) /\ Half(u) \in Nat /\ W * W \in Nat
  BY UseFacts
<1>2. q \in 0..(W * W - 1)
  <2>1. W * W \in Nat \ {0}
    BY <1>1
  <2>2. \A m \in Nat \ {0} : (v % m) \in 0..(m - 1)
    OBVIOUS
  <2>3. QED
    BY <2>1, <2>2, Zenon
<1>3. s = [w \in {"hi", "lo"} |-> IF w = "hi" THEN (q \div W) ELSE (q % W)]
  BY DEF Sequence!Split, Sequence!Words
<1>4. s["hi"] = (q \div W) /\ s["lo"] = (q % W)
  BY <1>3
<1> HIDE DEF W, q, s
<1>5. (q \div W) \in Nat /\ (q % W) \in 0..(W - 1) /\ q = W * (q \div W) + (q % W)
  <2>1. q \in Nat /\ W \in Nat \ {0}
    BY <1>1, <1>2
  <2>2. QED
    BY <2>1, Division, Zenon
<1>6. (q \div W) \in 0..(W - 1)
  <2>1. ASSUME NEW h \in Nat, h >= W PROVE W * h >= W * W
    BY <2>1, <1>1, Z3
  <2>2. PICK h \in Nat, l \in 0..(W - 1) : h = (q \div W) /\ q = W * h + l
    BY <1>5
  <2>3. W * h \in Nat
    BY <1>1
  <2>4. h < W
    BY <2>1, <2>2, <2>3, <1>1, <1>2
  <2>5. QED
    BY <2>2, <2>4, <1>1
<1>7. s \in Sequence(u)!Pairs
  BY <1>3, <1>5, <1>6 DEF Sequence!Pairs, Sequence!Words, Sequence!Word, W
<1>8. Sequence(u)!Value(s) = IF 2 * q < W * W THEN q ELSE q - W * W
  <2>1. s["hi"] * W + s["lo"] = q
    BY <1>1, <1>4, <1>5
  <2>2. QED
    BY <2>1 DEF Sequence!Value, W
<1>9. QED
  BY <1>7, <1>8 DEF s, q, W

\* A value is that of its words.
LEMMA SplitValue ==
  ASSUME NEW u \in Uses, NEW v \in (-Half(u))..(Half(u) - 1)
  PROVE  /\ Sequence(u)!Split(v) \in Sequence(u)!Pairs
         /\ Sequence(u)!Value(Sequence(u)!Split(v)) = v
<1> DEFINE Q == u.WordModulus * u.WordModulus
           q == v % Q
<1>1. Half(u) \in Nat /\ Q = 2 * Half(u) /\ Q \in Nat \ {0}
  BY UseFacts
<1>2. v \in Int /\ v \in (-Q)..(Q - 1)
  BY <1>1
<1>3. /\ Sequence(u)!Split(v) \in Sequence(u)!Pairs
      /\ Sequence(u)!Value(Sequence(u)!Split(v)) = IF 2 * q < Q THEN q ELSE q - Q
  BY <1>2, SplitWords
<1> HIDE DEF Q
<1>4. q = IF v >= 0 THEN v ELSE v + Q
  BY <1>1, <1>2, Remainder
<1> HIDE DEF q
<1>5. QED
  BY <1>1, <1>3, <1>4

\* The words of a sequence hold a value.
LEMMA ValueType ==
  ASSUME NEW u \in Uses, NEW p \in Sequence(u)!Pairs
  PROVE  Sequence(u)!Value(p) \in Int
<1>1. p["hi"] \in Nat /\ p["lo"] \in Nat /\ u.WordModulus \in Nat
  BY UseFacts DEF Sequence!Pairs, Sequence!Words, Sequence!Word
<1>2. QED
  BY <1>1 DEF Sequence!Value

-----------------------------------------------------------------------------
(* The threads at a sequence: their steps, their places, and the lock.      *)

SequencePlaces ==
  {"idle", "return", "lockRead", "read", "readSwap", "unlock", "lockWrite", "write", "peek",
   "exchange", "swap", "lockSwap", "compare", "store", "unlockSwap"}
Parts == {{}, {"hi"}, {"lo"}}

SequenceTypes(u) ==
  /\ build \in u.Builds /\ value \in Sequence(u)!Pairs /\ lock \in {0, 1}
  /\ seqPc \in [Sequence(u)!Callers -> SequencePlaces]
  /\ oldValue \in [Sequence(u)!Callers -> Sequence(u)!Pairs]
  /\ newValue \in [Sequence(u)!Callers -> Int]
  /\ seen \in [Sequence(u)!Callers -> Parts]
  /\ DOMAIN since = Sequence(u)!Callers
  /\ seqResult \in [Sequence(u)!Callers -> Int]
  /\ calls \in [Sequence(u)!Callers -> Nat]

\* An owner's write goes by setOrder.
Ordered(u, t) == u.WriteOp = "setOrder" \/ newValue[t] = Sequence(u)!MAX_VALUE

\* Who is where, in which builds; and only a 32-bit build leaves a thread between
\* two words.
PlaceOf(u, t) ==
  /\ seqPc[t] \in {"lockRead", "read", "readSwap"} => t \in u.Readers
  /\ seqPc[t] \in {"lockWrite", "write", "peek", "exchange"} => t \in u.Owners
  /\ seqPc[t] \in {"swap", "lockSwap", "compare", "store", "unlockSwap"} => t \in u.Claimers
  /\ seqPc[t] \in {"return", "unlock"} => t \in u.Readers \union u.Owners
  /\ seqPc[t] = "lockRead" => Sequence(u)!LocksOrder /\ u.ReadOp = "getOrder"
  /\ seqPc[t] = "lockWrite" => Sequence(u)!LocksOrder /\ Ordered(u, t)
  /\ seqPc[t] = "write" => ~(Sequence(u)!SwapsOrder /\ Ordered(u, t))
  /\ seqPc[t] \in {"readSwap", "peek", "exchange"} => Sequence(u)!SwapsOrder
  /\ seqPc[t] = "swap" => ~Sequence(u)!SpinLock(build)
  /\ seqPc[t] \in {"lockSwap", "compare", "store", "unlockSwap"} => Sequence(u)!SpinLock(build)
  /\ seen[t] # {} =>
       /\ ~Sequence(u)!Wide(build)
       /\ \/ seqPc[t] \in {"read", "write", "peek", "store"}
          \/ seqPc[t] = "idle" /\ t \in u.Claimers
  /\ t \in u.Owners =>
       /\ newValue[t] \in (-1)..u.LastValue \union {Sequence(u)!MAX_VALUE}
       /\ seqPc[t] # "idle" => newValue[t] # -1
Places(u) == \A t \in Sequence(u)!Callers : PlaceOf(u, t)

\* Which thread is of which kind.
LEMMA Kinds ==
  ASSUME NEW u \in Uses
  PROVE  /\ Sequence(u)!Callers = u.Claimers \union u.Owners \union u.Readers
         /\ u.Claimers = {} \/ u.Owners = {}
         /\ u.Readers \intersect (u.Claimers \union u.Owners) = {}
         /\ u.WriteOp \in {"set", "setOrder"} /\ u.ReadOp \in {"get", "getOrder"}
  BY UsesAssumption DEF Sequence!SequenceAssumption, Sequence!Callers

\* A load: which words it reads, and where the thread is then.
LEMMA LoadEffect ==
  ASSUME NEW u \in Uses, SequenceTypes(u), NEW t \in Sequence(u)!Callers, NEW next,
         Sequence(u)!Wide(build) => seen[t] = {},
         Sequence(u)!Load(t, next)
  PROVE  /\ oldValue' \in [Sequence(u)!Callers -> Sequence(u)!Pairs]
         /\ \A o \in Sequence(u)!Callers : o # t => oldValue'[o] = oldValue[o]
         /\ seen' \in [Sequence(u)!Callers -> Parts]
         /\ \A o \in Sequence(u)!Callers : o # t => seen'[o] = seen[o]
         /\ \/ seen'[t] = {} /\ seqPc' = [seqPc EXCEPT ![t] = next]
            \/ /\ seen'[t] # {} /\ seqPc' = seqPc
               /\ ~Sequence(u)!Wide(build)
         /\ \A w \in {"hi", "lo"} :
              \/ w \in seen[t] /\ oldValue'[t][w] = oldValue[t][w]
              \/ /\ w \notin seen[t] /\ oldValue'[t][w] = value[w]
                 /\ seen'[t] = {} \/ w \in seen'[t]
              \/ w \notin seen'[t] /\ seen'[t] # {} /\ oldValue'[t][w] = oldValue[t][w]
         /\ seen'[t] = {} \/ seen[t] \subseteq seen'[t]
         /\ Sequence(u)!Wide(build) => oldValue'[t] = value
<1> DEFINE C == Sequence(u)!Callers
           P == Sequence(u)!Pairs
           Wd == Sequence(u)!Words
           Full == Sequence(u)!Wide(build)
<1>1. /\ P = [Wd -> Sequence(u)!Word] /\ Wd = {"hi", "lo"}
      /\ value \in P /\ oldValue \in [C -> P] /\ seen \in [C -> Parts] /\ t \in C
      /\ seqPc \in [C -> SequencePlaces]
  BY DEF Sequence!Pairs, Sequence!Words, SequenceTypes
<1>2. PICK ws \in Sequence(u)!Portions(t) :
        /\ oldValue' = [oldValue EXCEPT ![t] =
                          [w \in Wd |-> IF w \in ws THEN value[w] ELSE oldValue[t][w]]]
        /\ IF seen[t] \union ws = Wd
           THEN seen' = [seen EXCEPT ![t] = {}] /\ seqPc' = [seqPc EXCEPT ![t] = next]
           ELSE seen' = [seen EXCEPT ![t] = seen[t] \union ws] /\ UNCHANGED seqPc
  BY DEF Sequence!Load
<1>3. /\ Full => ws = Wd
      /\ ~Full => ws \in {{"hi"}, {"lo"}} /\ ws \intersect seen[t] = {}
  <2>1. ws \in IF Full THEN {Wd} ELSE {{w} : w \in Wd \ seen[t]}
    BY DEF Sequence!Portions
  <2>2. QED
    BY <2>1, <1>1
<1> HIDE DEF C, P, Wd, Full
<1>4. /\ oldValue' \in [C -> P] /\ \A o \in C : o # t => oldValue'[o] = oldValue[o]
      /\ \A w \in Wd : oldValue'[t][w] = IF w \in ws THEN value[w] ELSE oldValue[t][w]
  <2>1. [w \in Wd |-> IF w \in ws THEN value[w] ELSE oldValue[t][w]] \in P
    BY <1>1
  <2>2. QED
    BY <1>1, <1>2, <2>1
<1>5. CASE seen[t] \union ws = Wd
  <2>1. seen' = [seen EXCEPT ![t] = {}] /\ seqPc' = [seqPc EXCEPT ![t] = next]
    BY <1>2, <1>5
  <2>2. seen'[t] = {} /\ seen' \in [C -> Parts] /\ \A o \in C : o # t => seen'[o] = seen[o]
    BY <2>1, <1>1 DEF Parts
  <2>3. \A w \in Wd : w \notin seen[t] => w \in ws
    BY <1>5
  <2>4. \A w \in Wd : w \in ws => w \notin seen[t] \/ oldValue'[t][w] = value[w]
    BY <1>4
  <2>5. \A w \in Wd : w \in seen[t] => w \notin ws \/ Full
    BY <1>3
  <2>6. ASSUME Full PROVE oldValue'[t] = value
    <3>1. \A w \in Wd : oldValue'[t][w] = value[w]
      BY <2>6, <1>3, <1>4
    <3>2. oldValue'[t] \in P
      BY <1>4, <1>1
    <3>3. QED
      BY <3>1, <3>2, <1>1
  <2>7. ASSUME NEW w \in Wd
        PROVE  \/ w \notin seen[t] /\ oldValue'[t][w] = value[w]
               \/ w \in seen[t] /\ oldValue'[t][w] = oldValue[t][w]
    BY <2>3, <2>5, <1>3, <1>4 DEF Full
  <2>8. QED
    BY <1>1, <1>4, <2>1, <2>2, <2>6, <2>7 DEF C, P, Full
<1>6. CASE seen[t] \union ws # Wd
  <2>1. seen' = [seen EXCEPT ![t] = seen[t] \union ws] /\ seqPc' = seqPc
    BY <1>2, <1>6
  <2>2. ~Full /\ ws \in {{"hi"}, {"lo"}} /\ seen[t] \in Parts /\ seen[t] \union ws \in Parts
    BY <1>1, <1>3, <1>6 DEF Parts
  <2>3. /\ seen'[t] = seen[t] \union ws /\ seen'[t] # {} /\ seen' \in [C -> Parts]
        /\ \A o \in C : o # t => seen'[o] = seen[o]
    BY <2>1, <2>2, <1>1
  <2>4. ASSUME NEW w \in Wd
        PROVE  \/ w \in seen[t] /\ oldValue'[t][w] = oldValue[t][w]
               \/ w \notin seen[t] /\ w \in seen'[t] /\ oldValue'[t][w] = value[w]
               \/ w \notin seen'[t] /\ oldValue'[t][w] = oldValue[t][w]
    BY <2>2, <2>3, <1>3, <1>4
  <2>5. QED
    BY <1>1, <1>4, <2>1, <2>2, <2>3, <2>4 DEF C, P, Full
<1>7. QED
  BY <1>5, <1>6

\* A store likewise; once all words are stored, they are those of newValue.
LEMMA StoreEffect ==
  ASSUME NEW u \in Uses, SequenceTypes(u), NEW t \in Sequence(u)!Callers, NEW next,
         Sequence(u)!Wide(build) => seen[t] = {},
         NEW p \in Sequence(u)!Pairs, p = Sequence(u)!Split(newValue[t]),
         Sequence(u)!Store(t, next)
  PROVE  /\ value' \in Sequence(u)!Pairs
         /\ seen' \in [Sequence(u)!Callers -> Parts]
         /\ \A o \in Sequence(u)!Callers : o # t => seen'[o] = seen[o]
         /\ \/ seen'[t] = {} /\ seqPc' = [seqPc EXCEPT ![t] = next]
            \/ /\ seen'[t] # {} /\ seqPc' = seqPc
               /\ ~Sequence(u)!Wide(build)
         /\ (\A w \in seen[t] : value[w] = p[w]) =>
              /\ \A w \in seen'[t] : value'[w] = p[w]
              /\ seen'[t] = {} => value' = p
<1> DEFINE C == Sequence(u)!Callers
           P == Sequence(u)!Pairs
           Wd == Sequence(u)!Words
           Full == Sequence(u)!Wide(build)
<1>1. /\ P = [Wd -> Sequence(u)!Word] /\ Wd = {"hi", "lo"}
      /\ value \in P /\ seen \in [C -> Parts] /\ t \in C
      /\ seqPc \in [C -> SequencePlaces]
  BY DEF Sequence!Pairs, Sequence!Words, SequenceTypes
<1>2. PICK ws \in Sequence(u)!Portions(t) :
        /\ value' = [w \in Wd |-> IF w \in ws THEN p[w] ELSE value[w]]
        /\ IF seen[t] \union ws = Wd
           THEN seen' = [seen EXCEPT ![t] = {}] /\ seqPc' = [seqPc EXCEPT ![t] = next]
           ELSE seen' = [seen EXCEPT ![t] = seen[t] \union ws] /\ UNCHANGED seqPc
  BY DEF Sequence!Store
<1>3. /\ Full => ws = Wd
      /\ ~Full => ws \in {{"hi"}, {"lo"}} /\ ws \intersect seen[t] = {}
  <2>1. ws \in IF Full THEN {Wd} ELSE {{w} : w \in Wd \ seen[t]}
    BY DEF Sequence!Portions
  <2>2. QED
    BY <2>1, <1>1
<1> HIDE DEF C, P, Wd, Full
<1>4. /\ value' \in P /\ \A w \in Wd : value'[w] = IF w \in ws THEN p[w] ELSE value[w]
  BY <1>1, <1>2 DEF P
<1>5. CASE seen[t] \union ws = Wd
  <2>1. seen' = [seen EXCEPT ![t] = {}] /\ seqPc' = [seqPc EXCEPT ![t] = next]
    BY <1>2, <1>5
  <2>2. seen'[t] = {} /\ seen' \in [C -> Parts] /\ \A o \in C : o # t => seen'[o] = seen[o]
    BY <2>1, <1>1 DEF Parts
  <2>3. ASSUME \A w \in seen[t] : value[w] = p[w] PROVE \A w \in Wd : value'[w] = p[w]
    BY <2>3, <1>4, <1>5
  <2>4. (\A w \in seen[t] : value[w] = p[w]) => value' = p
    BY <2>3, <1>1, <1>4 DEF P
  <2>5. QED
    BY <1>4, <2>1, <2>2, <2>4 DEF C, P, Full
<1>6. CASE seen[t] \union ws # Wd
  <2>1. seen' = [seen EXCEPT ![t] = seen[t] \union ws] /\ seqPc' = seqPc
    BY <1>2, <1>6
  <2>2. ~Full /\ ws \in {{"hi"}, {"lo"}} /\ seen[t] \in Parts /\ seen[t] \union ws \in Parts
    BY <1>1, <1>3, <1>6 DEF Parts
  <2>3. /\ seen'[t] = seen[t] \union ws /\ seen'[t] # {} /\ seen' \in [C -> Parts]
        /\ \A o \in C : o # t => seen'[o] = seen[o]
    BY <2>1, <2>2, <1>1
  <2>4. ws \subseteq Wd /\ seen[t] \subseteq Wd
    BY <1>1, <2>2 DEF Parts
  <2>5. (\A w \in seen[t] : value[w] = p[w]) => \A w \in seen'[t] : value'[w] = p[w]
    BY <2>3, <2>4, <1>4
  <2>6. QED
    BY <1>4, <2>1, <2>2, <2>3, <2>5 DEF C, P, Full
<1>7. QED
  BY <1>5, <1>6

\* Who holds seq_spinlock, of the threads at the places of Places.
LEMMA HoldsWhere ==
  ASSUME NEW u \in Uses, NEW t
  PROVE  Sequence(u)!Holds(t) <=>
           \/ seqPc[t] \in {"unlock", "compare", "store", "unlockSwap"}
           \/ seqPc[t] = "read" /\ u.ReadOp = "getOrder" /\ Sequence(u)!LocksOrder
           \/ seqPc[t] = "write" /\ Sequence(u)!LocksOrder /\ Ordered(u, t)
  BY DEF Sequence!Holds, Ordered

\* The steps of a sequence, one by one.
LEMMA SequenceStepCases ==
  ASSUME NEW u \in Uses, Sequence(u)!Next
  PROVE  \E t \in Sequence(u)!Callers : Sequence(u)!Step(t)
  BY DEF Sequence!Next

\* The words of a thread's newValue, in the part of the values the bounds leave.
Writable(u) == \A t \in Sequence(u)!Callers :
  newValue[t] \in (-1)..Sequence(u)!MAX_VALUE

\* What a store has done is still there: nobody else stores meanwhile.
Stored(u) ==
  \A t \in Sequence(u)!Callers :
    seqPc[t] = "store" \/ (seqPc[t] = "write" /\ Sequence(u)!WholeWrites) =>
      \A w \in seen[t] : value[w] = Sequence(u)!Split(newValue[t])[w]

\* A thread that did not step stays at its place.
LEMMA OtherPlaces ==
  ASSUME NEW u \in Uses, Places(u), NEW t \in Sequence(u)!Callers, build' = build,
         \A o \in Sequence(u)!Callers : o # t =>
           seqPc'[o] = seqPc[o] /\ seen'[o] = seen[o] /\ newValue'[o] = newValue[o],
         PlaceOf(u, t)'
  PROVE  Places(u)'
<1> SUFFICES ASSUME NEW o \in Sequence(u)!Callers, o # t
             PROVE  PlaceOf(u, o)'
  BY DEF Places, Sequence!Callers
<1>1. PlaceOf(u, o)
  BY DEF Places
<1>2. QED
  BY <1>1 DEF PlaceOf, Ordered, Sequence!LocksOrder, Sequence!SwapsOrder, Sequence!Wide,
              Sequence!SpinLock, Sequence!MAX_VALUE

\* What a step leaves alone: the build, and of other threads everything.
LEMMA OthersStay ==
  ASSUME NEW u \in Uses, SequenceTypes(u), Places(u), Writable(u),
         NEW t \in Sequence(u)!Callers, Sequence(u)!Step(t)
  PROVE  /\ build' = build
         /\ \A o \in Sequence(u)!Callers : o # t =>
              /\ seqPc'[o] = seqPc[o] /\ seen'[o] = seen[o] /\ newValue'[o] = newValue[o]
              /\ oldValue'[o] = oldValue[o] /\ since'[o] = since[o]
              /\ seqResult'[o] = seqResult[o] /\ calls'[o] = calls[o]
<1>1. Sequence(u)!Wide(build) => seen[t] = {}
  BY DEF Places, PlaceOf
<1>2. Sequence(u)!Split(newValue[t]) \in Sequence(u)!Pairs
  <2>1. newValue[t] \in (-Half(u))..(Half(u) - 1)
    BY UseFacts DEF Writable
  <2>2. QED
    BY <2>1, SplitValue
<1>3. ASSUME NEW next, Sequence(u)!Load(t, next)
      PROVE  \A o \in Sequence(u)!Callers : o # t =>
               seqPc'[o] = seqPc[o] /\ seen'[o] = seen[o] /\ oldValue'[o] = oldValue[o]
  BY <1>3, <1>1, LoadEffect DEF SequenceTypes
<1>4. ASSUME NEW next, Sequence(u)!Store(t, next)
      PROVE  \A o \in Sequence(u)!Callers : o # t =>
               seqPc'[o] = seqPc[o] /\ seen'[o] = seen[o]
  BY <1>4, <1>1, <1>2, StoreEffect DEF SequenceTypes
<1>5. CASE Sequence(u)!ReadValue(t)
  BY <1>5, <1>3 DEF Sequence!ReadValue
<1>6. CASE Sequence(u)!WriteValue(t)
  BY <1>6, <1>4 DEF Sequence!WriteValue
<1>7. CASE Sequence(u)!PeekValue(t)
  BY <1>7, <1>3 DEF Sequence!PeekValue
<1>8. CASE Sequence(u)!ClaimGet(t)
  BY <1>8, <1>3 DEF Sequence!ClaimGet
<1>9. CASE Sequence(u)!ClaimStore(t)
  BY <1>9, <1>4 DEF Sequence!ClaimStore, Sequence!Claimed, SequenceTypes
<1>10. CASE \/ Sequence(u)!Lock(t) \/ Sequence(u)!Unlock(t) \/ Sequence(u)!Return(t)
            \/ Sequence(u)!BeginRead(t) \/ Sequence(u)!ReadSwap(t) \/ Sequence(u)!BeginWrite(t)
            \/ Sequence(u)!Exchange(t)
  BY <1>10 DEF SequenceTypes, Sequence!Lock, Sequence!Unlock, Sequence!Return,
               Sequence!BeginRead, Sequence!ReadSwap, Sequence!BeginWrite, Sequence!Exchange
<1>11. CASE Sequence(u)!ClaimSwap(t) \/ Sequence(u)!ClaimCompare(t)
  BY <1>11 DEF SequenceTypes, Sequence!ClaimSwap, Sequence!ClaimCompare, Sequence!Claimed
<1>12. QED
  BY <1>5, <1>6, <1>7, <1>8, <1>9, <1>10, <1>11 DEF Sequence!Step

LEMMA SplitType ==
  ASSUME NEW u \in Uses, NEW v \in Int
  PROVE  Sequence(u)!Split(v) \in Sequence(u)!Pairs
BY SplitWords, Zenon

\* A thread's loads and stores are those of LoadEffect and StoreEffect.
LEMMA AccessFacts ==
  ASSUME NEW u \in Uses, Places(u), Writable(u), NEW t \in Sequence(u)!Callers
  PROVE  /\ Sequence(u)!Wide(build) => seen[t] = {}
         /\ Sequence(u)!Split(newValue[t]) \in Sequence(u)!Pairs
         /\ Sequence(u)!Value(Sequence(u)!Split(newValue[t])) = newValue[t]
<1>1. newValue[t] \in (-Half(u))..(Half(u) - 1)
  BY UseFacts DEF Writable
<1>2. QED
  BY <1>1, SplitValue DEF Places, PlaceOf

\* Every variable keeps its type.
LEMMA SequenceTypesStep ==
  ASSUME NEW u \in Uses, SequenceTypes(u), Places(u), Writable(u),
         NEW t \in Sequence(u)!Callers, Sequence(u)!Step(t)
  PROVE  SequenceTypes(u)'
<1> DEFINE C == Sequence(u)!Callers
           P == Sequence(u)!Pairs
<1>1. /\ Sequence(u)!Wide(build) => seen[t] = {}
      /\ Sequence(u)!Split(newValue[t]) \in P
  BY AccessFacts
<1>2. /\ C' = C /\ P' = P /\ \A p \in P : Sequence(u)!Value(p) \in Int
  BY ValueType DEF Sequence!Callers, Sequence!Pairs, Sequence!Words, Sequence!Word
<1>3. /\ build \in u.Builds /\ value \in P /\ lock \in {0, 1}
      /\ seqPc \in [C -> SequencePlaces] /\ oldValue \in [C -> P] /\ newValue \in [C -> Int]
      /\ seen \in [C -> Parts] /\ DOMAIN since = C /\ seqResult \in [C -> Int]
      /\ calls \in [C -> Nat]
  BY DEF SequenceTypes
<1>4. ASSUME NEW next \in SequencePlaces, Sequence(u)!Load(t, next)
      PROVE  seqPc' \in [C -> SequencePlaces] /\ seen' \in [C -> Parts] /\ oldValue' \in [C -> P]
  BY <1>4, <1>1, <1>3, LoadEffect
<1>5. ASSUME NEW next \in SequencePlaces, Sequence(u)!Store(t, next)
      PROVE  seqPc' \in [C -> SequencePlaces] /\ seen' \in [C -> Parts] /\ value' \in P
  BY <1>5, <1>1, <1>3, StoreEffect
<1> SUFFICES /\ build' \in u.Builds /\ value' \in P /\ lock' \in {0, 1}
             /\ seqPc' \in [C -> SequencePlaces] /\ oldValue' \in [C -> P]
             /\ newValue' \in [C -> Int] /\ seen' \in [C -> Parts] /\ DOMAIN since' = C
             /\ seqResult' \in [C -> Int] /\ calls' \in [C -> Nat]
  BY <1>2 DEF SequenceTypes
<1>t. t \in C
  OBVIOUS
<1> HIDE DEF C, P
<1>6. CASE Sequence(u)!ReadValue(t)
  BY <1>6, <1>3, <1>4 DEF Sequence!ReadValue, SequencePlaces
<1>7. CASE Sequence(u)!WriteValue(t)
  BY <1>7, <1>3, <1>5 DEF Sequence!WriteValue, SequencePlaces
<1>8. CASE Sequence(u)!PeekValue(t)
  BY <1>8, <1>3, <1>4 DEF Sequence!PeekValue, SequencePlaces
<1>9. CASE Sequence(u)!ClaimGet(t)
  BY <1>9, <1>3, <1>4 DEF Sequence!ClaimGet, SequencePlaces
<1>10. CASE Sequence(u)!ClaimStore(t)
  BY <1>10, <1>2, <1>3, <1>5 DEF Sequence!ClaimStore, Sequence!Claimed, SequencePlaces
<1>11. CASE Sequence(u)!Lock(t) \/ Sequence(u)!Unlock(t) \/ Sequence(u)!Return(t)
  BY <1>11, <1>2, <1>3 DEF Sequence!Lock, Sequence!Unlock, Sequence!Return, SequencePlaces,
                    Sequence!spin_wait, Sequence!Free, Sequence!Held
<1>12. CASE Sequence(u)!BeginRead(t)
  <2>1. since' = [since EXCEPT ![t] = Sequence(u)!Settled] /\ DOMAIN since = C
    BY <1>12, <1>3 DEF Sequence!BeginRead
  <2>2. DOMAIN since' = C
    BY <2>1
  <2>3. seqPc' \in [C -> SequencePlaces]
    BY <1>12, <1>3 DEF Sequence!BeginRead, SequencePlaces
  <2>4. QED
    BY <2>2, <2>3, <1>12, <1>3 DEF Sequence!BeginRead
<1>13. CASE Sequence(u)!ReadSwap(t)
  BY <1>13, <1>3 DEF Sequence!ReadSwap, SequencePlaces
<1>14. CASE Sequence(u)!BeginWrite(t)
  <2>1. Sequence(u)!MAX_VALUE \in Int
    BY UseFacts
  <2>2. QED
    BY <2>1, <1>14, <1>3, <1>t DEF Sequence!BeginWrite, SequencePlaces
<1>15. CASE Sequence(u)!Exchange(t)
  BY <1>15, <1>1, <1>3 DEF Sequence!Exchange, Sequence!TestAndSet, SequencePlaces
<1>16. CASE Sequence(u)!ClaimSwap(t)
  <2>1. Sequence(u)!Split(Sequence(u)!Value(oldValue[t]) + 1) \in P
    <3>1. oldValue[t] \in P
      BY <1>3, <1>t
    <3>2. Sequence(u)!Value(oldValue[t]) + 1 \in Int
      BY <3>1, <1>2
    <3>3. QED
      BY <3>2, SplitType DEF P
  <2>2. value' \in P /\ seqResult' \in [C -> Int] /\ calls' \in [C -> Nat]
    BY <2>1, <1>16, <1>2, <1>3, <1>t DEF Sequence!ClaimSwap, Sequence!Claimed
  <2>3. seqPc' \in [C -> SequencePlaces]
    BY <1>16, <1>3 DEF Sequence!ClaimSwap, SequencePlaces
  <2>4. QED
    BY <2>2, <2>3, <1>16, <1>3 DEF Sequence!ClaimSwap
<1>17. CASE Sequence(u)!ClaimCompare(t)
  BY <1>17, <1>2, <1>3 DEF Sequence!ClaimCompare, SequencePlaces
<1>18. QED
  BY <1>6, <1>7, <1>8, <1>9, <1>10, <1>11, <1>12, <1>13, <1>14, <1>15, <1>16, <1>17
     DEF Sequence!Step

\* Every thread stays at a place of its own.
LEMMA PlacesStep ==
  ASSUME NEW u \in Uses, SequenceTypes(u), Places(u), Writable(u),
         NEW t \in Sequence(u)!Callers, Sequence(u)!Step(t)
  PROVE  Places(u)'
<1> DEFINE C == Sequence(u)!Callers
<1>1. /\ build' = build
      /\ \A o \in C : o # t =>
           seqPc'[o] = seqPc[o] /\ seen'[o] = seen[o] /\ newValue'[o] = newValue[o]
  BY OthersStay
<1> SUFFICES PlaceOf(u, t)'
  BY <1>1, OtherPlaces
<1>2. PlaceOf(u, t)
  BY DEF Places
<1>3. /\ Sequence(u)!Wide(build) => seen[t] = {}
      /\ Sequence(u)!Split(newValue[t]) \in Sequence(u)!Pairs
  BY AccessFacts
<1>4. /\ seqPc \in [C -> SequencePlaces] /\ newValue \in [C -> Int] /\ seen \in [C -> Parts]
      /\ t \in C /\ seqPc[t] \in SequencePlaces
  BY DEF SequenceTypes
<1>5. /\ Sequence(u)!LocksOrder' <=> Sequence(u)!LocksOrder
      /\ Sequence(u)!SwapsOrder' <=> Sequence(u)!SwapsOrder
      /\ Sequence(u)!Wide(build)' <=> Sequence(u)!Wide(build)
      /\ Sequence(u)!SpinLock(build)' <=> Sequence(u)!SpinLock(build)
      /\ Sequence(u)!MAX_VALUE' = Sequence(u)!MAX_VALUE
      /\ ~(Sequence(u)!LocksOrder /\ Sequence(u)!SwapsOrder)
      /\ Sequence(u)!LocksOrder => Sequence(u)!SpinLock(build)
  BY <1>1 DEF Sequence!LocksOrder, Sequence!SwapsOrder, Sequence!Wide, Sequence!SpinLock,
              Sequence!MAX_VALUE
<1>6. /\ u.Readers \intersect (u.Claimers \union u.Owners) = {}
      /\ u.Claimers = {} \/ u.Owners = {}
      /\ C = u.Claimers \union u.Owners \union u.Readers
  BY Kinds
<1>7. Sequence(u)!MAX_VALUE \in Int /\ u.LastValue \in Nat /\ u.LastValue < Sequence(u)!MAX_VALUE
  BY UseFacts
<1> HIDE DEF C
\* The first conjuncts of PlaceOf for a thread whose newValue stays.
<1>8. ASSUME newValue'[t] = newValue[t]
      PROVE  /\ Ordered(u, t)' <=> Ordered(u, t)
             /\ seqPc'[t] = "idle" \/ seqPc[t] # "idle" \/ t \notin u.Owners =>
                  (t \in u.Owners =>
                    /\ newValue'[t] \in (-1)..u.LastValue \union {Sequence(u)!MAX_VALUE}
                    /\ seqPc'[t] # "idle" => newValue'[t] # -1)
  BY <1>2, <1>5, <1>8 DEF PlaceOf, Ordered
<1>9. ASSUME NEW next, Sequence(u)!Load(t, next)
      PROVE  \/ seen'[t] = {} /\ seqPc'[t] = next
             \/ seen'[t] # {} /\ seqPc'[t] = seqPc[t] /\ ~Sequence(u)!Wide(build)
  BY <1>3, <1>4, <1>9, LoadEffect
<1>10. ASSUME NEW next, Sequence(u)!Store(t, next)
       PROVE  \/ seen'[t] = {} /\ seqPc'[t] = next
              \/ seen'[t] # {} /\ seqPc'[t] = seqPc[t] /\ ~Sequence(u)!Wide(build)
  BY <1>3, <1>4, <1>10, StoreEffect
<1>11. CASE Sequence(u)!ReadValue(t)
  <2>1. newValue' = newValue /\ t \in u.Readers /\ seqPc[t] = "read"
    BY <1>11 DEF Sequence!ReadValue
  <2>2. \/ /\ seen'[t] = {} /\ seqPc'[t] \in {"unlock", "return", "readSwap"}
           /\ seqPc'[t] = "readSwap" => Sequence(u)!SwapsOrder
        \/ seen'[t] # {} /\ seqPc'[t] = "read" /\ ~Sequence(u)!Wide(build)
    BY <1>11, <1>9, <2>1 DEF Sequence!ReadValue, Sequence!EndsWithLoad
  <2>3. QED
    BY <2>1, <2>2, <1>2, <1>5, <1>6, <1>8 DEF PlaceOf
<1>12. CASE Sequence(u)!WriteValue(t)
  <2>1. newValue' = newValue /\ t \in u.Owners /\ seqPc[t] = "write"
    BY <1>12 DEF Sequence!WriteValue
  <2>2. \/ seen'[t] = {} /\ seqPc'[t] \in {"unlock", "return"}
        \/ seen'[t] # {} /\ seqPc'[t] = "write" /\ ~Sequence(u)!Wide(build)
    BY <1>12, <1>10, <2>1 DEF Sequence!WriteValue
  <2>3. QED
    BY <2>1, <2>2, <1>2, <1>5, <1>6, <1>8 DEF PlaceOf
<1>13. CASE Sequence(u)!PeekValue(t)
  <2>1. newValue' = newValue /\ seqPc[t] = "peek"
    BY <1>13 DEF Sequence!PeekValue
  <2>2. \/ seen'[t] = {} /\ seqPc'[t] = "exchange"
        \/ seen'[t] # {} /\ seqPc'[t] = "peek" /\ ~Sequence(u)!Wide(build)
    BY <1>13, <1>9, <2>1 DEF Sequence!PeekValue
  <2>3. QED
    BY <2>1, <2>2, <1>2, <1>5, <1>6, <1>8 DEF PlaceOf
<1>14. CASE Sequence(u)!ClaimGet(t)
  <2>1. newValue' = newValue /\ t \in u.Claimers /\ seqPc[t] = "idle"
    BY <1>14 DEF Sequence!ClaimGet
  <2>2. \/ /\ seen'[t] = {}
           /\ seqPc'[t] = IF Sequence(u)!SpinLock(build) THEN "lockSwap" ELSE "swap"
        \/ seen'[t] # {} /\ seqPc'[t] = "idle" /\ ~Sequence(u)!Wide(build)
    BY <1>14, <1>9, <2>1 DEF Sequence!ClaimGet
  <2>3. QED
    BY <2>1, <2>2, <1>2, <1>5, <1>6, <1>8 DEF PlaceOf
<1>15. CASE Sequence(u)!ClaimStore(t)
  <2>1. newValue' = newValue /\ seqPc[t] = "store"
    BY <1>15 DEF Sequence!ClaimStore
  <2>2. \/ seen'[t] = {} /\ seqPc'[t] = "unlockSwap"
        \/ seen'[t] # {} /\ seqPc'[t] = "store" /\ ~Sequence(u)!Wide(build)
    BY <1>15, <1>10, <2>1 DEF Sequence!ClaimStore
  <2>3. QED
    BY <2>1, <2>2, <1>2, <1>5, <1>6, <1>8 DEF PlaceOf
<1>16. CASE Sequence(u)!Lock(t) \/ Sequence(u)!Unlock(t) \/ Sequence(u)!Return(t)
  <2>1. newValue' = newValue /\ seen' = seen /\ seqPc[t] # "idle"
    BY <1>16 DEF Sequence!Lock, Sequence!Unlock, Sequence!Return
  <2>2. \/ seqPc[t] = "lockRead" /\ seqPc'[t] = "read"
        \/ seqPc[t] = "lockWrite" /\ seqPc'[t] = "write"
        \/ seqPc[t] = "lockSwap" /\ seqPc'[t] = "compare"
        \/ seqPc[t] = "unlock" /\ seqPc'[t] = "return"
        \/ seqPc[t] = "unlockSwap" /\ seqPc'[t] = "idle"
        \/ seqPc[t] = "return" /\ seqPc'[t] = "idle"
    BY <1>16, <1>4 DEF Sequence!Lock, Sequence!Unlock, Sequence!Return
  <2>3. seen[t] = {}
    BY <2>2, <1>2 DEF PlaceOf
  <2>4. QED
    BY <2>1, <2>2, <2>3, <1>2, <1>5, <1>6, <1>8 DEF PlaceOf
<1>17. CASE Sequence(u)!BeginRead(t) \/ Sequence(u)!ReadSwap(t)
  <2>1. newValue' = newValue /\ seen' = seen
    BY <1>17 DEF Sequence!BeginRead, Sequence!ReadSwap
  <2>2. \/ /\ t \in u.Readers /\ seqPc[t] = "idle"
           /\ \/ seqPc'[t] = "read"
              \/ seqPc'[t] = "lockRead" /\ u.ReadOp = "getOrder" /\ Sequence(u)!LocksOrder
        \/ seqPc[t] = "readSwap" /\ seqPc'[t] = "return"
    BY <1>17, <1>4 DEF Sequence!BeginRead, Sequence!ReadSwap
  <2>3. QED
    BY <2>1, <2>2, <1>2, <1>5, <1>6, <1>8 DEF PlaceOf
<1>18. CASE Sequence(u)!BeginWrite(t)
  <2> DEFINE op == IF newValue[t] < u.LastValue THEN u.WriteOp ELSE "setOrder"
  <2>1. /\ t \in u.Owners /\ seqPc[t] = "idle" /\ seen' = seen
        /\ newValue'[t] = IF newValue[t] < u.LastValue THEN newValue[t] + 1
                          ELSE Sequence(u)!MAX_VALUE
        /\ seqPc'[t] = IF op = "setOrder" /\ Sequence(u)!LocksOrder THEN "lockWrite"
                       ELSE IF op = "setOrder" /\ Sequence(u)!SwapsOrder THEN "peek"
                       ELSE "write"
    BY <1>18, <1>4 DEF Sequence!BeginWrite
  <2>2. newValue[t] \in (-1)..u.LastValue \union {Sequence(u)!MAX_VALUE} /\ seen[t] = {}
    BY <2>1, <1>2, <1>6 DEF PlaceOf
  <2>3. /\ newValue'[t] \in (-1)..u.LastValue \union {Sequence(u)!MAX_VALUE}
        /\ newValue'[t] # -1
        /\ newValue[t] < u.LastValue => newValue'[t] # Sequence(u)!MAX_VALUE
    BY <2>1, <2>2, <1>7
  <2>4. Ordered(u, t)' <=> op = "setOrder"
    BY <2>1, <2>3, <1>5 DEF Ordered
  <2>5. seqPc'[t] \in {"lockWrite", "peek", "write"}
    BY <2>1
  <2>6. QED
    BY <2>1, <2>2, <2>3, <2>4, <2>5, <1>5, <1>6 DEF PlaceOf
<1>19. CASE Sequence(u)!Exchange(t)
  <2>1. /\ newValue' = newValue /\ seen' = seen /\ seqPc[t] = "exchange"
        /\ seqPc'[t] \in {"return", "peek"}
    BY <1>19, <1>4 DEF Sequence!Exchange
  <2>2. QED
    BY <2>1, <1>2, <1>5, <1>6, <1>8 DEF PlaceOf
<1>20. CASE Sequence(u)!ClaimSwap(t)
  <2>1. newValue' = newValue /\ seen' = seen /\ seqPc[t] = "swap" /\ seqPc'[t] = "idle"
    BY <1>20, <1>4 DEF Sequence!ClaimSwap
  <2>2. QED
    BY <2>1, <1>2, <1>5, <1>6, <1>8 DEF PlaceOf
<1>21. CASE Sequence(u)!ClaimCompare(t)
  <2>1. seen' = seen /\ seqPc[t] = "compare" /\ seqPc'[t] \in {"store", "unlockSwap"}
    BY <1>21, <1>4 DEF Sequence!ClaimCompare
  <2>2. t \in u.Claimers /\ t \notin u.Owners /\ Sequence(u)!SpinLock(build) /\ seen[t] = {}
    BY <2>1, <1>2, <1>6 DEF PlaceOf
  <2>3. QED
    BY <2>1, <2>2, <1>2, <1>5, <1>6 DEF PlaceOf
<1>22. QED
  BY <1>11, <1>12, <1>13, <1>14, <1>15, <1>16, <1>17, <1>18, <1>19, <1>20, <1>21
     DEF Sequence!Step

\* A thread that does not step holds the lock if it did.
LEMMA OthersHold ==
  ASSUME NEW u \in Uses, NEW o, build' = build, seqPc'[o] = seqPc[o],
         newValue'[o] = newValue[o]
  PROVE  Sequence(u)!Holds(o)' <=> Sequence(u)!Holds(o)
  BY HoldsWhere DEF Sequence!Holds, Sequence!LocksOrder, Sequence!SpinLock, Sequence!Wide,
                    Sequence!MAX_VALUE

\* seq_spinlock is taken only when it is free and given back by its holder alone.
LEMMA SpinLockStep ==
  ASSUME NEW u \in Uses, SequenceTypes(u), Places(u), Writable(u),
         Sequence(u)!SpinLockExclusive,
         NEW t \in Sequence(u)!Callers, Sequence(u)!Step(t)
  PROVE  Sequence(u)!SpinLockExclusive'
<1> DEFINE C == Sequence(u)!Callers
           H(o) == Sequence(u)!Holds(o)
           Hn(o) == Sequence(u)!Holds(o)'
           LO == Sequence(u)!LocksOrder
<1>1. /\ lock \in {0, 1} /\ (lock = 1 <=> \E o \in C : H(o))
      /\ \A o, p \in C : H(o) /\ H(p) => o = p
  BY DEF SequenceTypes, Sequence!SpinLockExclusive, Sequence!Held
<1>2. /\ build' = build /\ C' = C
      /\ \A o \in C : o # t => (Hn(o) <=> H(o))
  BY OthersStay, OthersHold DEF Sequence!Callers
<1>3. LO' <=> LO
  BY <1>2 DEF Sequence!LocksOrder, Sequence!SpinLock, Sequence!Wide
<1>4. PlaceOf(u, t) /\ PlaceOf(u, t)' /\ t \in C
  BY PlacesStep DEF Places, Sequence!Callers
<1>5. H(t) <=> \/ seqPc[t] \in {"unlock", "compare", "store", "unlockSwap"}
               \/ seqPc[t] = "read" /\ u.ReadOp = "getOrder" /\ LO
               \/ seqPc[t] = "write" /\ LO /\ Ordered(u, t)
  BY HoldsWhere
<1>6. Hn(t) <=> \/ seqPc'[t] \in {"unlock", "compare", "store", "unlockSwap"}
                \/ seqPc'[t] = "read" /\ u.ReadOp = "getOrder" /\ LO
                \/ seqPc'[t] = "write" /\ LO /\ Ordered(u, t)'
  BY <1>3 DEF Sequence!Holds, Ordered
<1>7. seqPc \in [C -> SequencePlaces] /\ newValue \in [C -> Int]
  BY DEF SequenceTypes
<1>8. /\ Sequence(u)!Wide(build) => seen[t] = {}
      /\ Sequence(u)!Split(newValue[t]) \in Sequence(u)!Pairs
  BY AccessFacts
<1>9. Ordered(u, t) <=> u.WriteOp = "setOrder" \/ newValue[t] = Sequence(u)!MAX_VALUE
  BY DEF Ordered
<1>10. newValue'[t] = newValue[t] => (Ordered(u, t)' <=> Ordered(u, t))
  BY DEF Ordered, Sequence!MAX_VALUE
<1>11. SUFFICES /\ lock' = 1 <=> \E o \in C : Hn(o)
                /\ \A o, p \in C : Hn(o) /\ Hn(p) => o = p
  BY <1>2 DEF Sequence!SpinLockExclusive, Sequence!Held
<1>12. ASSUME NEW next, Sequence(u)!Load(t, next)
       PROVE  seqPc'[t] = next \/ seqPc'[t] = seqPc[t]
  BY <1>8, <1>7, <1>4, <1>12, LoadEffect
<1>13. ASSUME NEW next, Sequence(u)!Store(t, next)
       PROVE  seqPc'[t] = next \/ seqPc'[t] = seqPc[t]
  BY <1>8, <1>7, <1>4, <1>13, StoreEffect
<1> HIDE DEF C, H, Hn, LO
<1>14. ASSUME lock' = lock, Hn(t) <=> H(t)
       PROVE  /\ lock' = 1 <=> \E o \in C : Hn(o)
              /\ \A o, p \in C : Hn(o) /\ Hn(p) => o = p
  <2>1. \A o \in C : Hn(o) <=> H(o)
    BY <1>2, <1>14
  <2>2. QED
    BY <2>1, <1>1, <1>14
<1>15. CASE Sequence(u)!Lock(t)
  <2>1. lock = 0 /\ lock' = 1 /\ newValue' = newValue
    BY <1>15 DEF Sequence!Lock, Sequence!spin_wait, Sequence!Free, Sequence!Held
  <2>2. \A o \in C : ~H(o)
    BY <2>1, <1>1
  <2>3. \/ seqPc[t] = "lockRead" /\ seqPc'[t] = "read"
        \/ seqPc[t] = "lockWrite" /\ seqPc'[t] = "write"
        \/ seqPc[t] = "lockSwap" /\ seqPc'[t] = "compare"
    BY <1>15, <1>4, <1>7 DEF Sequence!Lock
  <2>4. Hn(t)
    BY <2>1, <2>3, <1>4, <1>6, <1>10 DEF PlaceOf, LO
  <2>5. QED
    BY <2>1, <2>2, <2>4, <1>2, <1>4
<1>16. CASE Sequence(u)!Unlock(t)
  <2>1. /\ lock' = 0 /\ newValue' = newValue /\ seqPc[t] \in {"unlock", "unlockSwap"}
        /\ seqPc'[t] \in {"return", "idle"}
    BY <1>16, <1>4, <1>7 DEF Sequence!Unlock, Sequence!Free
  <2>2. H(t) /\ ~Hn(t)
    BY <2>1, <1>5, <1>6
  <2>3. \A o \in C : ~Hn(o)
    BY <2>2, <1>1, <1>2, <1>4
  <2>4. QED
    BY <2>1, <2>3
<1>17. CASE Sequence(u)!WriteValue(t)
  <2>1. /\ lock' = lock /\ newValue' = newValue /\ seqPc[t] = "write"
        /\ Sequence(u)!Store(t, IF LO /\ Ordered(u, t) THEN "unlock" ELSE "return")
    BY <1>17, <1>9 DEF Sequence!WriteValue, Sequence!Held, LO
  <2>2. \/ seqPc'[t] = IF LO /\ Ordered(u, t) THEN "unlock" ELSE "return"
        \/ seqPc'[t] = "write"
    BY <2>1, <1>13
  <2>3. H(t) => lock = 1
    BY <1>1, <1>4
  <2>4. Hn(t) <=> H(t)
    BY <2>1, <2>2, <2>3, <1>5, <1>6, <1>10
  <2>5. QED
    BY <2>1, <2>4, <1>14
<1>18. CASE Sequence(u)!ReadValue(t)
  <2>1. lock' = lock /\ newValue' = newValue /\ seqPc[t] = "read"
    BY <1>18 DEF Sequence!ReadValue
  <2>2. \/ seqPc'[t] = IF u.ReadOp = "getOrder" /\ LO THEN "unlock"
                       ELSE IF Sequence(u)!EndsWithLoad(u.ReadOp) THEN "return" ELSE "readSwap"
        \/ seqPc'[t] = "read"
    BY <2>1, <1>18, <1>12 DEF Sequence!ReadValue, LO
  <2>3. Hn(t) <=> H(t)
    BY <2>1, <2>2, <1>5, <1>6
  <2>4. QED
    BY <2>1, <2>3, <1>14
<1>19. CASE Sequence(u)!PeekValue(t) \/ Sequence(u)!ClaimGet(t)
  <2>1. lock' = lock /\ seqPc[t] \in {"peek", "idle"}
    BY <1>19 DEF Sequence!PeekValue, Sequence!ClaimGet
  <2>2. seqPc'[t] \in {"peek", "idle", "exchange", "swap", "lockSwap"}
    BY <2>1, <1>19, <1>12 DEF Sequence!PeekValue, Sequence!ClaimGet
  <2>3. Hn(t) <=> H(t)
    BY <2>1, <2>2, <1>5, <1>6
  <2>4. QED
    BY <2>1, <2>3, <1>14
<1>20. CASE Sequence(u)!ClaimStore(t)
  <2>1. lock' = lock /\ seqPc[t] = "store" /\ seqPc'[t] \in {"store", "unlockSwap"}
    BY <1>20, <1>13 DEF Sequence!ClaimStore
  <2>2. Hn(t) <=> H(t)
    BY <2>1, <1>5, <1>6
  <2>3. QED
    BY <2>1, <2>2, <1>14
<1>21. CASE Sequence(u)!ClaimCompare(t)
  <2>1. lock' = lock /\ seqPc[t] = "compare" /\ seqPc'[t] \in {"store", "unlockSwap"}
    BY <1>21, <1>4, <1>7 DEF Sequence!ClaimCompare
  <2>2. Hn(t) <=> H(t)
    BY <2>1, <1>5, <1>6
  <2>3. QED
    BY <2>1, <2>2, <1>14
<1>22. CASE Sequence(u)!BeginRead(t)
  <2>1. /\ lock' = lock /\ seqPc[t] = "idle"
        /\ seqPc'[t] = IF u.ReadOp = "getOrder" /\ LO THEN "lockRead" ELSE "read"
    BY <1>22, <1>4, <1>7 DEF Sequence!BeginRead, LO
  <2>2. Hn(t) <=> H(t)
    BY <2>1, <1>5, <1>6
  <2>3. QED
    BY <2>1, <2>2, <1>14
<1>23. CASE Sequence(u)!BeginWrite(t)
  <2>1. /\ lock' = lock /\ seqPc[t] = "idle" /\ seqPc'[t] \in {"lockWrite", "peek", "write"}
    BY <1>23, <1>4, <1>7 DEF Sequence!BeginWrite
  <2>2. seqPc'[t] = "write" => ~(LO /\ Ordered(u, t)')
    <3> DEFINE op == IF newValue[t] < u.LastValue THEN u.WriteOp ELSE "setOrder"
    <3>1. /\ seqPc'[t] = IF op = "setOrder" /\ LO THEN "lockWrite"
                         ELSE IF op = "setOrder" /\ Sequence(u)!SwapsOrder THEN "peek"
                         ELSE "write"
          /\ newValue'[t] = IF newValue[t] < u.LastValue THEN newValue[t] + 1
                            ELSE Sequence(u)!MAX_VALUE
          /\ t \in u.Owners
      BY <1>23, <1>4, <1>7 DEF Sequence!BeginWrite, LO
    <3>2. /\ Sequence(u)!MAX_VALUE \in Int /\ u.LastValue \in Nat
          /\ u.LastValue < Sequence(u)!MAX_VALUE
      BY UseFacts
    <3>3. newValue[t] \in Int
      BY <1>4, <1>7
    <3>4. newValue[t] < u.LastValue => newValue'[t] # Sequence(u)!MAX_VALUE
      BY <3>1, <3>2, <3>3
    <3>5. Sequence(u)!MAX_VALUE' = Sequence(u)!MAX_VALUE
      BY DEF Sequence!MAX_VALUE
    <3>6. Ordered(u, t)' => op = "setOrder"
      BY <3>4, <3>5 DEF Ordered
    <3>7. QED
      BY <3>1, <3>6
  <2>3. Hn(t) <=> H(t)
    BY <2>1, <2>2, <1>5, <1>6
  <2>4. QED
    BY <2>1, <2>3, <1>14
<1>24. CASE \/ Sequence(u)!Return(t) \/ Sequence(u)!ReadSwap(t) \/ Sequence(u)!Exchange(t)
            \/ Sequence(u)!ClaimSwap(t)
  <2>1. /\ lock' = lock /\ seqPc[t] \in {"return", "readSwap", "exchange", "swap"}
        /\ seqPc'[t] \in {"idle", "return", "peek"}
    BY <1>24, <1>4, <1>7 DEF Sequence!Return, Sequence!ReadSwap, Sequence!Exchange,
                             Sequence!ClaimSwap
  <2>2. Hn(t) <=> H(t)
    BY <2>1, <1>5, <1>6
  <2>3. QED
    BY <2>1, <2>2, <1>14
<1>25. QED
  BY <1>15, <1>16, <1>17, <1>18, <1>19, <1>20, <1>21, <1>22, <1>23, <1>24 DEF Sequence!Step

\* While a thread has stored one word only, nobody else changes the value.
LEMMA HalfDone ==
  ASSUME NEW u \in Uses, SequenceTypes(u), Places(u), Sequence(u)!SpinLockExclusive,
         NEW o \in Sequence(u)!Callers, seen[o] # {},
         seqPc[o] = "store" \/ (seqPc[o] = "write" /\ Sequence(u)!WholeWrites),
         NEW t \in Sequence(u)!Callers, Sequence(u)!Step(t), t # o
  PROVE  value' = value /\ Sequence(u)!Holds(o) /\ ~Sequence(u)!Wide(build)
<1> DEFINE LO == Sequence(u)!LocksOrder
           SO == Sequence(u)!SwapsOrder
           Wd == Sequence(u)!Wide(build)
           SL == Sequence(u)!SpinLock(build)
<1>1. PlaceOf(u, t) /\ PlaceOf(u, o) /\ (u.Claimers = {} \/ u.Owners = {})
  BY Kinds DEF Places
<1>2. (LO <=> SL /\ ~Wd) /\ (SO <=> ~SL /\ ~Wd)
  BY DEF Sequence!LocksOrder, Sequence!SwapsOrder
<1>3. ~Wd
  BY <1>1 DEF PlaceOf
<1>4. Sequence(u)!WholeWrites => u.WriteOp = "setOrder"
  BY <1>3 DEF Sequence!WholeWrites
<1> HIDE DEF LO, SO, Wd, SL
<1>5. Sequence(u)!Holds(o)
  BY <1>1, <1>2, <1>3, <1>4, HoldsWhere DEF PlaceOf, Ordered, LO, SO
<1>6. ~Sequence(u)!Holds(t)
  BY <1>5 DEF Sequence!SpinLockExclusive
<1>7. /\ seqPc[t] # "store"
      /\ seqPc[t] = "write" => ~(LO /\ Ordered(u, t))
  BY <1>6, HoldsWhere DEF LO
<1>8. SL
  BY <1>1, <1>2, <1>3, <1>4 DEF PlaceOf, Ordered, SL, SO
<1>9. seqPc[t] # "swap" /\ seqPc[t] # "exchange"
  BY <1>1, <1>2, <1>8 DEF PlaceOf, SL, SO
<1>10. seqPc[t] # "write"
  <2>1. CASE seqPc[o] = "store"
    BY <2>1, <1>1 DEF PlaceOf
  <2>2. CASE seqPc[o] = "write" /\ Sequence(u)!WholeWrites
    BY <2>2, <1>2, <1>3, <1>4, <1>7, <1>8 DEF Ordered
  <2>3. QED
    BY <2>1, <2>2
<1>11. /\ ~Sequence(u)!WriteValue(t) /\ ~Sequence(u)!Exchange(t)
       /\ ~Sequence(u)!ClaimSwap(t) /\ ~Sequence(u)!ClaimStore(t)
  BY <1>7, <1>9, <1>10 DEF Sequence!WriteValue, Sequence!Exchange, Sequence!ClaimSwap,
                           Sequence!ClaimStore
<1>12. value' = value
  BY <1>11 DEF Sequence!Step, Sequence!Lock, Sequence!Unlock, Sequence!Return,
               Sequence!BeginRead, Sequence!ReadValue, Sequence!ReadSwap, Sequence!BeginWrite,
               Sequence!PeekValue, Sequence!ClaimGet, Sequence!ClaimCompare
<1>13. QED
  BY <1>3, <1>5, <1>12 DEF Wd

\* A step leaves newValue alone, or it begins a write or compares for a claim.
LEMMA NewValues ==
  ASSUME NEW u \in Uses, NEW t, Sequence(u)!Step(t)
  PROVE  newValue' = newValue \/ Sequence(u)!BeginWrite(t) \/ Sequence(u)!ClaimCompare(t)
  BY DEF Sequence!Step, Sequence!Lock, Sequence!Unlock, Sequence!Return,
         Sequence!BeginRead, Sequence!ReadValue, Sequence!ReadSwap, Sequence!WriteValue,
         Sequence!PeekValue, Sequence!Exchange, Sequence!ClaimGet, Sequence!ClaimSwap,
         Sequence!ClaimStore

LEMMA StoredStep ==
  ASSUME NEW u \in Uses, SequenceTypes(u), Places(u), Writable(u), Stored(u),
         Sequence(u)!SpinLockExclusive,
         NEW t \in Sequence(u)!Callers, Sequence(u)!Step(t)
  PROVE  Stored(u)'
<1> DEFINE C == Sequence(u)!Callers
           S(o) == seqPc[o] = "store" \/ (seqPc[o] = "write" /\ Sequence(u)!WholeWrites)
<1>1. /\ build' = build
      /\ \A o \in C : o # t => seqPc'[o] = seqPc[o] /\ seen'[o] = seen[o]
                               /\ newValue'[o] = newValue[o]
  BY OthersStay
<1>2. (Sequence(u)!WholeWrites)' <=> Sequence(u)!WholeWrites
  BY <1>1 DEF Sequence!WholeWrites, Sequence!Wide
<1>3. \A v : Sequence(u)!Split(v)' = Sequence(u)!Split(v)
  BY DEF Sequence!Split, Sequence!Words
<1> SUFFICES ASSUME NEW o \in C, S(o)', NEW w \in seen'[o]
             PROVE  value'[w] = Sequence(u)!Split(newValue'[o])[w]
  BY DEF Stored, Sequence!Callers, Sequence!Split, Sequence!Words
<1>4. CASE o # t
  <2>1. S(o) /\ w \in seen[o] /\ newValue'[o] = newValue[o]
    BY <1>1, <1>2, <1>4
  <2>2. value' = value
    BY <2>1, <1>4, HalfDone
  <2>3. QED
    BY <2>1, <2>2 DEF Stored
<1>5. CASE o = t
  <2>1. PlaceOf(u, t) /\ PlaceOf(u, t)' /\ seen[t] \in Parts /\ seqPc \in [C -> SequencePlaces]
        /\ seqPc[t] \in SequencePlaces
    BY PlacesStep DEF Places, SequenceTypes, Sequence!Callers
  <2>2. /\ Sequence(u)!Wide(build) => seen[t] = {}
        /\ Sequence(u)!Split(newValue[t]) \in Sequence(u)!Pairs
    BY AccessFacts
  <2>3. seqPc'[t] \in {"store", "write"} /\ seen'[t] # {}
    BY <1>5
  <2>4. ASSUME Sequence(u)!Store(t, "unlock") \/ Sequence(u)!Store(t, "return")
                 \/ Sequence(u)!Store(t, "unlockSwap"),
               newValue' = newValue, seqPc[t] \in {"store", "write"}
        PROVE  value'[w] = Sequence(u)!Split(newValue'[o])[w]
    <3> DEFINE p == Sequence(u)!Split(newValue[t])
    <3>1. PICK next : Sequence(u)!Store(t, next)
      BY <2>4
    <3>2. /\ \/ seen'[t] = {}
             \/ seqPc' = seqPc
          /\ (\A x \in seen[t] : value[x] = p[x]) => \A x \in seen'[t] : value'[x] = p[x]
      <4> HIDE DEF p
      <4>1. p \in Sequence(u)!Pairs /\ p = Sequence(u)!Split(newValue[t])
        BY <2>2 DEF p
      <4>2. QED
        BY <3>1, <2>2, <4>1, StoreEffect
    <3>3. S(t)
      BY <3>2, <2>3, <1>2, <1>5
    <3>4. \A x \in seen[t] : value[x] = p[x]
      BY <3>3 DEF Stored
    <3>5. QED
      BY <3>2, <3>4, <2>4, <1>5
  <2>5. CASE Sequence(u)!WriteValue(t)
    <3>1. /\ Sequence(u)!Store(t, "unlock") \/ Sequence(u)!Store(t, "return")
          /\ newValue' = newValue /\ seqPc[t] = "write"
      BY <2>5 DEF Sequence!WriteValue
    <3>2. QED
      BY <3>1, <2>4
  <2>6. CASE Sequence(u)!ClaimStore(t)
    <3>1. /\ Sequence(u)!Store(t, "unlockSwap")
          /\ newValue' = newValue /\ seqPc[t] = "store"
      BY <2>6 DEF Sequence!ClaimStore
    <3>2. QED
      BY <3>1, <2>4
  <2>7. ASSUME NEW next, Sequence(u)!Load(t, next)
        PROVE  seqPc'[t] = next \/ seqPc'[t] = seqPc[t]
    BY <2>1, <2>2, <2>7, LoadEffect
  <2>8. CASE Sequence(u)!ReadValue(t) \/ Sequence(u)!PeekValue(t) \/ Sequence(u)!ClaimGet(t)
    <3>1. seqPc'[t] \notin {"store", "write"}
      BY <2>8, <2>7 DEF Sequence!ReadValue, Sequence!PeekValue, Sequence!ClaimGet
    <3>2. QED
      BY <3>1, <2>3
  <2>9. CASE \/ Sequence(u)!Unlock(t) \/ Sequence(u)!Return(t) \/ Sequence(u)!ReadSwap(t)
             \/ Sequence(u)!BeginRead(t) \/ Sequence(u)!Exchange(t) \/ Sequence(u)!ClaimSwap(t)
    <3>1. seqPc'[t] \notin {"store", "write"}
      BY <2>9, <2>1 DEF Sequence!Unlock, Sequence!Return, Sequence!ReadSwap,
                        Sequence!BeginRead, Sequence!Exchange, Sequence!ClaimSwap
    <3>2. QED
      BY <3>1, <2>3
  <2>10. CASE Sequence(u)!Lock(t) \/ Sequence(u)!BeginWrite(t) \/ Sequence(u)!ClaimCompare(t)
    <3>1. seen' = seen /\ seqPc[t] \in {"lockRead", "lockWrite", "lockSwap", "idle", "compare"}
      BY <2>10 DEF Sequence!Lock, Sequence!BeginWrite, Sequence!ClaimCompare
    <3>2. seqPc[t] = "idle" => t \in u.Owners
      BY <3>1, <2>10 DEF Sequence!Lock, Sequence!BeginWrite, Sequence!ClaimCompare
    <3>3. seen[t] = {}
      BY <3>1, <3>2, <2>1, Kinds DEF PlaceOf
    <3>4. QED
      BY <3>1, <3>3, <2>3
  <2>11. QED
    BY <2>5, <2>6, <2>8, <2>9, <2>10 DEF Sequence!Step
<1>6. QED
  BY <1>4, <1>5

-----------------------------------------------------------------------------
(* Claims                                                                   *)

\* The last value claimed, and the claimers between their get and the end of
\* their compareAndSwap: each may still claim one.
LastClaim(u) == Cardinality(Sequence(u)!Claims) - 1
Active(u) == {c \in u.Claimers : seqPc[c] \notin {"idle", "unlockSwap"} \/ seen[c] # {}}

ClaimInv(u) ==
  /\ IsFiniteSet(Sequence(u)!Claims)
  /\ \A c \in u.Claimers : seqResult[c] >= -1 /\ seqResult[c] <= LastClaim(u)
  /\ LastClaim(u) = -1 \/ \E c \in u.Claimers : seqResult[c] = LastClaim(u)
  /\ Sequence(u)!ClaimsApart
  /\ (\A c \in u.Claimers : seqPc[c] = "store" => seen[c] = {}) =>
       Sequence(u)!Value(value) = LastClaim(u)
  /\ \A c \in u.Claimers : seqPc[c] = "store" =>
       Sequence(u)!Value(oldValue[c]) = LastClaim(u) /\ newValue[c] = LastClaim(u) + 1
  /\ LastClaim(u) + Cardinality(Active(u)) <= u.LastValue + Cardinality(u.Claimers)

LEMMA ClaimTypes ==
  ASSUME NEW u \in Uses, ClaimInv(u)
  PROVE  /\ LastClaim(u) \in Int /\ LastClaim(u) >= -1
         /\ IsFiniteSet(Active(u)) /\ Cardinality(Active(u)) \in Nat
         /\ Cardinality(Active(u)) <= Cardinality(u.Claimers)
<1>1. IsFiniteSet(u.Claimers) /\ Active(u) \subseteq u.Claimers
  BY UseFacts DEF Active
<1>2. QED
  BY <1>1, FS_Subset, FS_CardinalityType DEF ClaimInv, LastClaim

\* The greatest of a set.
LEMMA GreatestIs ==
  ASSUME NEW u \in Uses, NEW S, S \subseteq Int, NEW m \in S, \A v \in S : v <= m
  PROVE  Sequence(u)!Greatest(S) = m
<1>1. Sequence(u)!Greatest(S) = CHOOSE x \in S : \A v \in S : v <= x
  BY DEF Sequence!Greatest
<1>2. \A x \in S : (\A v \in S : v <= x) => x = m
  OBVIOUS
<1>3. QED
  BY <1>1, <1>2

\* The newest value of a claimed sequence is the last one claimed.
LEMMA SettledClaims ==
  ASSUME NEW u \in Uses, u.Owners = {}, ClaimInv(u), SequenceTypes(u)
  PROVE  Sequence(u)!Settled = LastClaim(u)
<1> DEFINE R == {seqResult[c] : c \in u.Claimers}
           O == {IF seqPc[o] = "idle" THEN newValue[o] ELSE Sequence(u)!Before(newValue[o]) :
                   o \in {t \in u.Owners : newValue[t] # Sequence(u)!INITIAL_CURSOR_VALUE}}
           S == {-1} \union R \union O
<1>1. Sequence(u)!Settled = Sequence(u)!Greatest(S)
  BY DEF Sequence!Settled, Sequence!INITIAL_CURSOR_VALUE
<1>2. O = {}
  OBVIOUS
<1>3. S = {-1} \union R
  BY <1>2
<1> HIDE DEF O
<1>4. \A c \in u.Claimers : seqResult[c] \in Int
  BY Kinds DEF SequenceTypes
<1>5. S \subseteq Int /\ LastClaim(u) \in S /\ \A v \in S : v <= LastClaim(u)
  BY <1>3, <1>4, ClaimTypes DEF ClaimInv
<1> HIDE DEF S
<1>6. QED
  BY <1>1, <1>5, GreatestIs

\* A step that claims nothing.
LEMMA NothingClaimed ==
  ASSUME NEW u \in Uses, ClaimInv(u), value' = value,
         \A c \in u.Claimers :
           /\ calls'[c] = calls[c] /\ seqResult'[c] = seqResult[c]
           /\ seqPc'[c] = "store" => seqPc[c] = "store"
           /\ seqPc[c] = "store" =>
                /\ seqPc'[c] = "store" /\ seen'[c] = seen[c]
                /\ oldValue'[c] = oldValue[c] /\ newValue'[c] = newValue[c],
         LastClaim(u) + Cardinality(Active(u))' <= u.LastValue + Cardinality(u.Claimers)
  PROVE  ClaimInv(u)'
<1>1. Sequence(u)!Claims' = Sequence(u)!Claims
  BY DEF Sequence!Claims
<1>2. LastClaim(u)' = LastClaim(u)
  BY <1>1 DEF LastClaim
<1>3. Sequence(u)!ClaimsApart'
  BY DEF ClaimInv, Sequence!ClaimsApart, Sequence!INITIAL_CURSOR_VALUE
<1>4. \A p : Sequence(u)!Value(p)' = Sequence(u)!Value(p)
  BY DEF Sequence!Value
<1>5. (\A c \in u.Claimers : seqPc'[c] = "store" => seen'[c] = {}) =>
        Sequence(u)!Value(value') = LastClaim(u)
  BY DEF ClaimInv
<1>6. \A c \in u.Claimers : seqPc'[c] = "store" =>
        Sequence(u)!Value(oldValue'[c]) = LastClaim(u) /\ newValue'[c] = LastClaim(u) + 1
  BY DEF ClaimInv
<1>7. /\ \A c \in u.Claimers : seqResult'[c] >= -1 /\ seqResult'[c] <= LastClaim(u)
      /\ LastClaim(u) = -1 \/ \E c \in u.Claimers : seqResult'[c] = LastClaim(u)
  BY DEF ClaimInv
<1>8. IsFiniteSet(Sequence(u)!Claims)
  BY DEF ClaimInv
<1>9. QED
  BY <1>1, <1>2, <1>3, <1>5, <1>6, <1>7, <1>8 DEF ClaimInv, Sequence!Value

\* A thread claims the next value.
LEMMA OneClaimed ==
  ASSUME NEW u \in Uses, ClaimInv(u), SequenceTypes(u), NEW t \in u.Claimers,
         t \in Active(u), t \notin Active(u)',
         \A c \in u.Claimers : c # t =>
           /\ calls'[c] = calls[c] /\ seqResult'[c] = seqResult[c]
           /\ seqPc'[c] = seqPc[c] /\ seen'[c] = seen[c],
         \A c \in u.Claimers : seqPc'[c] # "store",
         calls'[t] = calls[t] + 1, seqResult'[t] = LastClaim(u) + 1,
         Sequence(u)!Value(value') = LastClaim(u) + 1
  PROVE  ClaimInv(u)'
<1> DEFINE A == Sequence(u)!Claims
           An == A'
           e == <<t, calls[t] + 1>>
<1>1. \A c \in u.Claimers : calls[c] \in Nat /\ seqResult[c] \in Int
  BY Kinds DEF SequenceTypes
<1>2. \A c \in u.Claimers :
        calls'[c] \in Nat /\ calls'[c] = IF c = t THEN calls[c] + 1 ELSE calls[c]
  BY <1>1
<1>3. \A x : x \in A <=> \E c \in u.Claimers : \E num \in 1..calls[c] : x = <<c, num>>
  BY DEF Sequence!Claims
<1>4. \A x : x \in An <=> \E c \in u.Claimers : \E num \in 1..calls'[c] : x = <<c, num>>
  BY DEF Sequence!Claims
<1> HIDE DEF A, An
<1>5. e \notin A
  BY <1>1, <1>3
<1>6. An = A \union {e}
  <2>1. ASSUME NEW x, x \in An PROVE x \in A \union {e}
    <3>1. PICK c \in u.Claimers : \E num \in 1..calls'[c] : x = <<c, num>>
      BY <2>1, <1>4
    <3>2. PICK num \in 1..calls'[c] : x = <<c, num>>
      BY <3>1
    <3>3. num \in 1..calls[c] \/ (c = t /\ num = calls[t] + 1)
      BY <3>2, <1>1, <1>2
    <3>4. QED
      BY <3>2, <3>3, <1>3
  <2>2. ASSUME NEW x, x \in A PROVE x \in An
    <3>1. PICK c \in u.Claimers : \E num \in 1..calls[c] : x = <<c, num>>
      BY <2>2, <1>3
    <3>2. PICK num \in 1..calls[c] : x = <<c, num>>
      BY <3>1
    <3>3. num \in 1..calls'[c]
      BY <3>2, <1>1, <1>2
    <3>4. QED
      BY <3>2, <3>3, <1>4
  <2>3. e \in An
    <3>1. calls[t] + 1 \in 1..calls'[t]
      BY <1>1, <1>2
    <3>2. QED
      BY <3>1, <1>4
  <2>4. QED
    BY <2>1, <2>2, <2>3
<1>7. IsFiniteSet(A)
  BY DEF ClaimInv, A
<1>8. IsFiniteSet(An) /\ Cardinality(An) = Cardinality(A) + 1
  BY <1>5, <1>6, <1>7, FS_AddElement
<1>9. /\ IsFiniteSet(Sequence(u)!Claims') /\ LastClaim(u)' = LastClaim(u) + 1
      /\ LastClaim(u) \in Int /\ LastClaim(u) >= -1
  <2>1. Cardinality(A) \in Nat
    BY <1>7, FS_CardinalityType
  <2>2. QED
    BY <1>8, <2>1 DEF LastClaim, A, An
<1> DEFINE m == LastClaim(u)
<1>10. /\ \A c \in u.Claimers : seqResult[c] >= -1 /\ seqResult[c] <= m
       /\ m + Cardinality(Active(u)) <= u.LastValue + Cardinality(u.Claimers)
       /\ \A c, d \in u.Claimers : seqResult[c] = seqResult[d] => c = d \/ seqResult[c] = -1
  BY DEF ClaimInv, Sequence!ClaimsApart, Sequence!INITIAL_CURSOR_VALUE
<1> HIDE DEF m
<1>11. m \in Int /\ m >= -1 /\ seqResult'[t] = m + 1
  BY <1>9 DEF m
<1>12. \A c \in u.Claimers : seqResult'[c] >= -1 /\ seqResult'[c] <= m + 1
  BY <1>1, <1>10, <1>11
<1>13. \A c, d \in u.Claimers : seqResult'[c] = seqResult'[d] => c = d \/ seqResult'[c] = -1
  <2>1. \A c \in u.Claimers : c # t => seqResult'[c] < m + 1
    BY <1>1, <1>10, <1>11
  <2>2. QED
    BY <2>1, <1>1, <1>10, <1>11
<1>14. m + 1 + Cardinality(Active(u)') <= u.LastValue + Cardinality(u.Claimers)
  <2>1. Active(u)' \subseteq Active(u) \ {t}
    BY DEF Active
  <2>2. /\ IsFiniteSet(Active(u)) /\ Cardinality(Active(u)) \in Nat
    BY ClaimTypes
  <2>3. /\ IsFiniteSet(Active(u) \ {t})
        /\ Cardinality(Active(u) \ {t}) = Cardinality(Active(u)) - 1
    BY <2>2, FS_RemoveElement
  <2>4. Cardinality(Active(u)') <= Cardinality(Active(u)) - 1 /\ Cardinality(Active(u)') \in Nat
    BY <2>1, <2>3, FS_Subset, FS_CardinalityType
  <2>5. u.LastValue \in Nat /\ Cardinality(u.Claimers) \in Nat
    BY UseFacts
  <2>6. QED
    BY <2>2, <2>4, <2>5, <1>10, <1>11
<1>15. Sequence(u)!ClaimsApart'
  BY <1>13 DEF Sequence!ClaimsApart, Sequence!INITIAL_CURSOR_VALUE
<1>16. QED
  BY <1>9, <1>11, <1>12, <1>14, <1>15 DEF ClaimInv, m, Sequence!Value

\* Each claim takes the next value, and the bound leaves one for every claimer on
\* its way.
LEMMA ClaimStep ==
  ASSUME NEW u \in Uses, u.Owners = {}, SequenceTypes(u), Places(u), Writable(u), Stored(u),
         Sequence(u)!SpinLockExclusive, ClaimInv(u),
         NEW t \in Sequence(u)!Callers, Sequence(u)!Step(t)
  PROVE  ClaimInv(u)'
<1> DEFINE C == Sequence(u)!Callers
           m == LastClaim(u)
<1>1. /\ build' = build
      /\ \A o \in C : o # t =>
           /\ seqPc'[o] = seqPc[o] /\ seen'[o] = seen[o] /\ newValue'[o] = newValue[o]
           /\ oldValue'[o] = oldValue[o] /\ since'[o] = since[o]
           /\ seqResult'[o] = seqResult[o] /\ calls'[o] = calls[o]
  BY OthersStay
<1>2. u.Claimers \subseteq C /\ u.Readers \intersect u.Claimers = {} /\ t \in C
      /\ C = u.Claimers \union u.Readers
  BY Kinds
<1>3. PlaceOf(u, t) /\ PlaceOf(u, t)'
  BY PlacesStep DEF Places, Sequence!Callers
<1>4. /\ seqPc \in [C -> SequencePlaces] /\ seen \in [C -> Parts] /\ newValue \in [C -> Int]
      /\ value \in Sequence(u)!Pairs /\ oldValue \in [C -> Sequence(u)!Pairs]
      /\ calls \in [C -> Nat] /\ seqResult \in [C -> Int]
  BY DEF SequenceTypes
<1>5. /\ m \in Int /\ m >= -1 /\ IsFiniteSet(Active(u)) /\ Cardinality(Active(u)) \in Nat
      /\ Cardinality(Active(u)) <= Cardinality(u.Claimers)
      /\ m + Cardinality(Active(u)) <= u.LastValue + Cardinality(u.Claimers)
  BY ClaimTypes DEF ClaimInv
<1>6. /\ u.LastValue \in Nat /\ IsFiniteSet(u.Claimers) /\ Cardinality(u.Claimers) \in Nat
      /\ u.LastValue + Cardinality(u.Claimers) < Half(u) - 1 /\ Half(u) \in Nat
  BY UseFacts
<1>7. /\ Sequence(u)!Wide(build) => seen[t] = {}
      /\ Sequence(u)!Split(newValue[t]) \in Sequence(u)!Pairs
      /\ Sequence(u)!Value(Sequence(u)!Split(newValue[t])) = newValue[t]
  BY AccessFacts
<1> HIDE DEF C, m
\* Of the claimers, only t can have become active.
<1>8. ASSUME t \in Active(u)' => t \in Active(u)
      PROVE  m + Cardinality(Active(u)') <= u.LastValue + Cardinality(u.Claimers)
  <2>1. Active(u)' \subseteq Active(u)
    BY <1>1, <1>2, <1>8 DEF Active
  <2>2. Cardinality(Active(u)') <= Cardinality(Active(u)) /\ Cardinality(Active(u)') \in Nat
    BY <2>1, <1>5, FS_Subset, FS_CardinalityType
  <2>3. QED
    BY <2>2, <1>5, <1>6
<1>9. ASSUME t \in Active(u)' => t \in Active(u), value' = value,
             t \in u.Claimers =>
               /\ calls'[t] = calls[t] /\ seqResult'[t] = seqResult[t]
               /\ seqPc[t] # "store" /\ seqPc'[t] # "store"
      PROVE  ClaimInv(u)'
  BY <1>1, <1>2, <1>8, <1>9, NothingClaimed DEF m
<1>10. ASSUME t \in Active(u), seqPc[t] \in {"swap", "compare"}, value = oldValue[t]
       PROVE  /\ Sequence(u)!Value(oldValue[t]) = m /\ m + 1 \in (-Half(u))..(Half(u) - 1)
              /\ \A c \in u.Claimers : seqPc[c] # "store"
  <2>1. \A c \in u.Claimers : seqPc[c] # "store"
    <3>1. CASE seqPc[t] = "swap"
      BY <3>1, <1>2, <1>3 DEF PlaceOf, Places, C
    <3>2. CASE seqPc[t] = "compare"
      <4>1. Sequence(u)!Holds(t)
        BY <3>2, HoldsWhere
      <4>2. \A c \in C : Sequence(u)!Holds(c) => c = t
        BY <4>1, <1>2 DEF Sequence!SpinLockExclusive, C
      <4>3. QED
        BY <4>2, <3>2, <1>2, HoldsWhere
    <3>3. QED
      BY <3>1, <3>2, <1>10
  <2>2. Sequence(u)!Value(value) = m
    BY <2>1 DEF ClaimInv, m
  <2>3. Cardinality(Active(u)) >= 1
    <3>1. /\ IsFiniteSet(Active(u) \ {t}) /\ Cardinality(Active(u) \ {t}) \in Nat
          /\ Cardinality(Active(u) \ {t}) = Cardinality(Active(u)) - 1
      BY <1>5, <1>10, FS_RemoveElement, FS_CardinalityType
    <3>2. QED
      BY <3>1, <1>5
  <2>4. m + 1 <= u.LastValue + Cardinality(u.Claimers)
    BY <2>3, <1>5, <1>6
  <2>5. QED
    BY <2>1, <2>2, <2>4, <1>5, <1>6, <1>10
<1>11. CASE t \notin u.Claimers
  <2>1. t \in u.Readers /\ t \notin Active(u)'
    BY <1>2, <1>11 DEF Active
  <2>2. value' = value
    BY <2>1, <1>3, <1>11
       DEF PlaceOf, Sequence!Step, Sequence!Lock, Sequence!Unlock, Sequence!Return,
           Sequence!BeginRead, Sequence!ReadValue, Sequence!ReadSwap, Sequence!BeginWrite,
           Sequence!WriteValue, Sequence!PeekValue, Sequence!Exchange, Sequence!ClaimGet,
           Sequence!ClaimSwap, Sequence!ClaimCompare, Sequence!ClaimStore
  <2>3. QED
    BY <2>1, <2>2, <1>9, <1>11
<1>12. CASE t \in u.Claimers
  <2>1. \/ Sequence(u)!Lock(t) \/ Sequence(u)!Unlock(t) \/ Sequence(u)!ClaimGet(t)
        \/ Sequence(u)!ClaimSwap(t) \/ Sequence(u)!ClaimCompare(t) \/ Sequence(u)!ClaimStore(t)
    BY <1>2, <1>3, <1>12
       DEF PlaceOf, Sequence!Step, Sequence!Return, Sequence!BeginRead, Sequence!ReadValue,
           Sequence!ReadSwap, Sequence!BeginWrite, Sequence!WriteValue, Sequence!PeekValue,
           Sequence!Exchange
  <2>2. CASE Sequence(u)!Lock(t)
    <3>1. seqPc[t] = "lockSwap" /\ seqPc'[t] = "compare"
      BY <2>2, <1>2, <1>3, <1>4, <1>12 DEF Sequence!Lock, PlaceOf
    <3>2. /\ value' = value /\ calls' = calls /\ seqResult' = seqResult
      BY <2>2 DEF Sequence!Lock
    <3>3. QED
      BY <3>1, <3>2, <1>9, <1>12 DEF Active
  <2>3. CASE Sequence(u)!Unlock(t)
    <3>1. /\ seqPc[t] = "unlockSwap" /\ seqPc'[t] = "idle" /\ seen' = seen
          /\ value' = value /\ calls' = calls /\ seqResult' = seqResult
      BY <2>3, <1>2, <1>3, <1>4, <1>12 DEF Sequence!Unlock, PlaceOf
    <3>2. t \notin Active(u)'
      BY <3>1, <1>3 DEF Active, PlaceOf
    <3>3. QED
      BY <3>1, <3>2, <1>9
  <2>4. CASE Sequence(u)!ClaimGet(t)
    <3>1. /\ seqPc[t] = "idle" /\ value' = value /\ calls' = calls /\ seqResult' = seqResult
          /\ newValue' = newValue
          /\ seen[t] = {} => Sequence(u)!Settled < u.LastValue
          /\ Sequence(u)!Load(t, IF Sequence(u)!SpinLock(build) THEN "lockSwap" ELSE "swap")
      BY <2>4 DEF Sequence!ClaimGet
    <3>2. PICK next \in {"lockSwap", "swap"} : Sequence(u)!Load(t, next)
      BY <3>1
    <3>3. seqPc'[t] \in {"idle", "lockSwap", "swap"}
      BY <3>1, <3>2, <1>2, <1>4, <1>7, LoadEffect DEF C
    <3>4. CASE seen[t] # {}
      BY <3>1, <3>3, <3>4, <1>9, <1>12 DEF Active
    <3>5. CASE seen[t] = {}
      <4>1. m < u.LastValue
        BY <3>1, <3>5, SettledClaims DEF m
      <4>2. t \notin Active(u) /\ Active(u)' \subseteq Active(u) \union {t}
        BY <3>1, <3>5, <1>1, <1>2 DEF Active
      <4>3. /\ IsFiniteSet(Active(u) \union {t})
            /\ Cardinality(Active(u) \union {t}) = Cardinality(Active(u)) + 1
        BY <4>2, <1>5, FS_AddElement
      <4>4. Active(u)' \subseteq u.Claimers
        BY DEF Active
      <4>5. Cardinality(Active(u)') <= Cardinality(u.Claimers) /\ Cardinality(Active(u)') \in Nat
        BY <4>4, <1>6, FS_Subset, FS_CardinalityType
      <4>6. m + Cardinality(Active(u)') <= u.LastValue + Cardinality(u.Claimers)
        BY <4>1, <4>5, <1>5, <1>6
      <4>7. QED
        BY <3>1, <3>3, <4>6, <1>1, <1>2, NothingClaimed DEF m
    <3>6. QED
      BY <3>4, <3>5
  <2>5. CASE Sequence(u)!ClaimSwap(t)
    <3>1. seqPc[t] = "swap" /\ seqPc'[t] = "idle" /\ seen' = seen /\ newValue' = newValue
      BY <2>5, <1>2, <1>4 DEF Sequence!ClaimSwap
    <3>2. t \in Active(u) /\ t \notin Active(u)'
      BY <3>1, <1>3, <1>12 DEF Active, PlaceOf
    <3>3. CASE value = oldValue[t]
      <4>1. /\ value' = Sequence(u)!Split(Sequence(u)!Value(oldValue[t]) + 1)
            /\ seqResult'[t] = Sequence(u)!Value(oldValue[t]) + 1 /\ calls'[t] = calls[t] + 1
        BY <2>5, <3>3, <1>2, <1>4 DEF Sequence!ClaimSwap, Sequence!Claimed
      <4>2. /\ Sequence(u)!Value(oldValue[t]) = m /\ m + 1 \in (-Half(u))..(Half(u) - 1)
            /\ \A c \in u.Claimers : seqPc[c] # "store"
        BY <3>1, <3>2, <3>3, <1>10
      <4>3. value' = Sequence(u)!Split(m + 1) /\ seqResult'[t] = m + 1
        BY <4>1, <4>2
      <4>4. Sequence(u)!Value(value') = m + 1
        BY <4>2, <4>3, SplitValue
      <4>5. \A c \in u.Claimers : seqPc'[c] # "store"
        BY <4>2, <3>1, <1>1, <1>2
      <4>6. QED
        BY <3>2, <4>1, <4>3, <4>4, <4>5, <1>1, <1>2, <1>12, OneClaimed DEF m
    <3>4. CASE value # oldValue[t]
      <4>1. value' = value /\ seqResult' = seqResult /\ calls' = calls
        BY <2>5, <3>4 DEF Sequence!ClaimSwap
      <4>2. QED
        BY <3>1, <3>2, <4>1, <1>9
    <3>5. QED
      BY <3>3, <3>4
  <2>6. CASE Sequence(u)!ClaimCompare(t)
    <3>1. /\ seqPc[t] = "compare" /\ value' = value /\ seqResult' = seqResult /\ calls' = calls
          /\ oldValue' = oldValue /\ seen' = seen
      BY <2>6 DEF Sequence!ClaimCompare
    <3>2. t \in Active(u)
      BY <3>1, <1>12 DEF Active
    <3>3. CASE value = oldValue[t]
      <4>1. seqPc'[t] = "store" /\ newValue'[t] = Sequence(u)!Value(oldValue[t]) + 1
        BY <2>6, <3>3, <1>2, <1>4 DEF Sequence!ClaimCompare
      <4>2. /\ Sequence(u)!Value(oldValue[t]) = m
            /\ \A c \in u.Claimers : seqPc[c] # "store"
        BY <3>1, <3>2, <3>3, <1>10
      <4>3. /\ Sequence(u)!Claims' = Sequence(u)!Claims /\ m' = m
            /\ Sequence(u)!ClaimsApart'
        BY <3>1 DEF Sequence!Claims, LastClaim, m, ClaimInv, Sequence!ClaimsApart,
                    Sequence!INITIAL_CURSOR_VALUE
      <4>4. m + Cardinality(Active(u)') <= u.LastValue + Cardinality(u.Claimers)
        BY <3>2, <1>8
      <4>5. \A c \in u.Claimers : seqPc'[c] = "store" => c = t
        BY <4>2, <1>1, <1>2
      <4>6. /\ IsFiniteSet(Sequence(u)!Claims)
            /\ \A c \in u.Claimers : seqResult'[c] >= -1 /\ seqResult'[c] <= m
            /\ m = -1 \/ \E c \in u.Claimers : seqResult'[c] = m
        BY <3>1 DEF ClaimInv, m
      <4>7. /\ Sequence(u)!Value(oldValue'[t]) = m /\ newValue'[t] = m + 1
            /\ Sequence(u)!Value(value') = m
        BY <3>1, <3>3, <4>1, <4>2
      <4>8. QED
        BY <4>1, <4>3, <4>4, <4>5, <4>6, <4>7, <1>12 DEF ClaimInv, m, Sequence!Value
    <3>4. CASE value # oldValue[t]
      <4>1. seqPc'[t] = "unlockSwap"
        BY <2>6, <3>4, <1>2, <1>4 DEF Sequence!ClaimCompare
      <4>2. QED
        BY <3>1, <3>2, <4>1, <1>9
    <3>5. QED
      BY <3>3, <3>4
  <2>7. CASE Sequence(u)!ClaimStore(t)
    <3>1. /\ seqPc[t] = "store" /\ newValue' = newValue /\ oldValue' = oldValue
          /\ Sequence(u)!Store(t, "unlockSwap")
          /\ IF seqPc'[t] = "unlockSwap" THEN Sequence(u)!Claimed(t)
             ELSE seqResult' = seqResult /\ calls' = calls
      BY <2>7 DEF Sequence!ClaimStore
    <3>2. t \in Active(u) /\ Sequence(u)!Value(oldValue[t]) = m /\ newValue[t] = m + 1
      BY <3>1, <1>12 DEF Active, ClaimInv, m
    <3>3. \A c \in u.Claimers : seqPc[c] = "store" => c = t
      <4>1. \A c \in C : Sequence(u)!Holds(c) /\ Sequence(u)!Holds(t) => c = t
        BY <1>2 DEF Sequence!SpinLockExclusive, C
      <4>2. QED
        BY <4>1, <3>1, <1>2, HoldsWhere
    <3> DEFINE p == Sequence(u)!Split(newValue[t])
    <3>4. /\ \/ seen'[t] = {} /\ seqPc' = [seqPc EXCEPT ![t] = "unlockSwap"]
             \/ seen'[t] # {} /\ seqPc' = seqPc
          /\ (\A w \in seen[t] : value[w] = p[w]) => (seen'[t] = {} => value' = p)
      <4>1. p \in Sequence(u)!Pairs /\ p = Sequence(u)!Split(newValue[t])
        BY <1>7
      <4> HIDE DEF p
      <4>2. QED
        BY <3>1, <4>1, <1>2, <1>7, StoreEffect DEF C
    <3>5. \A w \in seen[t] : value[w] = p[w]
      BY <3>1, <1>2 DEF Stored, C
    <3>6. CASE seen'[t] = {}
      <4>1. seqPc'[t] = "unlockSwap" /\ value' = p
        BY <3>4, <3>5, <3>6, <1>2, <1>4
      <4>2. seqResult'[t] = m + 1 /\ calls'[t] = calls[t] + 1
        BY <3>1, <3>2, <4>1, <1>2, <1>4 DEF Sequence!Claimed
      <4>3. Sequence(u)!Value(value') = m + 1
        BY <4>1, <3>2, <1>7
      <4>4. t \notin Active(u)'
        BY <3>6, <4>1 DEF Active
      <4>5. \A c \in u.Claimers : seqPc'[c] # "store"
        BY <3>3, <4>1, <1>1, <1>2
      <4>6. QED
        BY <3>2, <4>2, <4>3, <4>4, <4>5, <1>1, <1>2, <1>12, OneClaimed DEF m
    <3>7. CASE seen'[t] # {}
      <4>1. seqPc' = seqPc /\ seqResult' = seqResult /\ calls' = calls
        BY <3>1, <3>4, <3>7
      <4>2. /\ Sequence(u)!Claims' = Sequence(u)!Claims /\ m' = m
            /\ Sequence(u)!ClaimsApart'
        BY <4>1 DEF Sequence!Claims, LastClaim, m, ClaimInv, Sequence!ClaimsApart,
                    Sequence!INITIAL_CURSOR_VALUE
      <4>3. m + Cardinality(Active(u)') <= u.LastValue + Cardinality(u.Claimers)
        BY <3>2, <1>8
      <4>4. /\ IsFiniteSet(Sequence(u)!Claims)
            /\ \A c \in u.Claimers : seqResult'[c] >= -1 /\ seqResult'[c] <= m
            /\ m = -1 \/ \E c \in u.Claimers : seqResult'[c] = m
            /\ \A c \in u.Claimers : seqPc'[c] = "store" =>
                 Sequence(u)!Value(oldValue'[c]) = m /\ newValue'[c] = m + 1
        BY <3>1, <4>1 DEF ClaimInv, m
      <4>5. ~ \A c \in u.Claimers : seqPc'[c] = "store" => seen'[c] = {}
        BY <3>1, <3>7, <4>1, <1>12
      <4>6. QED
        BY <4>2, <4>3, <4>4, <4>5 DEF ClaimInv, m, Sequence!Value
    <3>8. QED
      BY <3>6, <3>7
  <2>8. QED
    BY <2>1, <2>2, <2>3, <2>4, <2>5, <2>6, <2>7
<1>13. QED
  BY <1>11, <1>12

LEMMA WritableStep ==
  ASSUME NEW u \in Uses, SequenceTypes(u), Places(u), Writable(u), Stored(u),
         Sequence(u)!SpinLockExclusive, u.Owners = {} => ClaimInv(u),
         NEW t \in Sequence(u)!Callers, Sequence(u)!Step(t)
  PROVE  Writable(u)'
<1> DEFINE C == Sequence(u)!Callers
           MV == Sequence(u)!MAX_VALUE
<1>1. /\ build' = build /\ \A o \in C : o # t => newValue'[o] = newValue[o]
  BY OthersStay
<1>2. /\ \A o \in C : newValue[o] \in (-1)..MV
      /\ t \in C /\ newValue \in [C -> Int] /\ seqPc \in [C -> SequencePlaces]
  BY DEF Writable, SequenceTypes
<1>3. PlaceOf(u, t) /\ PlaceOf(u, t)'
  BY PlacesStep DEF Places, Sequence!Callers
<1>4. /\ MV \in Int /\ u.LastValue \in Nat /\ u.LastValue < MV /\ MV' = MV
      /\ u.LastValue + Cardinality(u.Claimers) < MV /\ Cardinality(u.Claimers) \in Nat
  BY UseFacts DEF Sequence!MAX_VALUE
<1>5. C' = C
  BY DEF Sequence!Callers
<1> HIDE DEF C, MV
<1> SUFFICES newValue'[t] \in (-1)..MV
  BY <1>1, <1>2, <1>4, <1>5 DEF Writable, C, MV
<1>6. CASE newValue' = newValue
  BY <1>2, <1>6
<1>7. CASE Sequence(u)!BeginWrite(t)
  <2>1. t \in u.Owners
    BY <1>7 DEF Sequence!BeginWrite
  <2>2. newValue'[t] \in (-1)..u.LastValue \union {MV}
    BY <2>1, <1>3, <1>4 DEF PlaceOf, MV
  <2>3. QED
    BY <2>2, <1>4
<1>8. CASE Sequence(u)!ClaimCompare(t)
  <2>1. seqPc[t] = "compare"
    BY <1>8 DEF Sequence!ClaimCompare
  <2>2. u.Owners = {} /\ t \in u.Claimers
    BY <2>1, <1>3, Kinds DEF PlaceOf
  <2>3. ClaimInv(u) /\ ClaimInv(u)'
    BY <2>2, ClaimStep
  <2>4. CASE newValue' = newValue
    BY <2>4, <1>6
  <2>5. CASE newValue' # newValue
    <3>1. seqPc'[t] = "store"
      BY <1>8, <2>5, <1>2 DEF Sequence!ClaimCompare
    <3>2. newValue'[t] = LastClaim(u)' + 1
      BY <2>2, <2>3, <3>1 DEF ClaimInv
    <3>3. /\ LastClaim(u)' \in Int /\ LastClaim(u)' >= -1
          /\ IsFiniteSet(Active(u)') /\ Cardinality(Active(u)') \in Nat
          /\ LastClaim(u)' + Cardinality(Active(u)') <= u.LastValue + Cardinality(u.Claimers)
      <4>1. IsFiniteSet(u.Claimers) /\ Active(u)' \subseteq u.Claimers
        BY UseFacts DEF Active
      <4>2. IsFiniteSet(Active(u)') /\ Cardinality(Active(u)') \in Nat
        BY <4>1, FS_Subset, FS_CardinalityType
      <4>3. /\ IsFiniteSet(Sequence(u)!Claims')
            /\ LastClaim(u)' + Cardinality(Active(u)') <= u.LastValue + Cardinality(u.Claimers)
        BY <2>3 DEF ClaimInv
      <4>4. Cardinality(Sequence(u)!Claims') \in Nat
        BY <4>3, FS_CardinalityType
      <4>5. LastClaim(u)' \in Int /\ LastClaim(u)' >= -1
        BY <4>4 DEF LastClaim
      <4>6. QED
        BY <4>2, <4>3, <4>5
    <3>4. t \in Active(u)'
      BY <2>2, <3>1 DEF Active
    <3>5. Cardinality(Active(u)') >= 1
      <4>1. /\ IsFiniteSet(Active(u)' \ {t}) /\ Cardinality(Active(u)' \ {t}) \in Nat
            /\ Cardinality(Active(u)' \ {t}) = Cardinality(Active(u)') - 1
        BY <3>3, <3>4, FS_RemoveElement, FS_CardinalityType
      <4>2. QED
        BY <4>1, <3>3
    <3>6. QED
      BY <3>2, <3>3, <3>5, <1>4
  <2>6. QED
    BY <2>4, <2>5
<1>9. QED
  BY <1>6, <1>7, <1>8, NewValues

-----------------------------------------------------------------------------
(* Writes of owners                                                         *)

\* Before an owner's first write nothing is promised; afterwards one owner that is
\* not writing wrote what the sequence holds, or an owner is writing.
LastWrite(u) ==
  \/ \E o \in u.Owners : /\ newValue[o] # -1 /\ seqPc[o] \in {"idle", "return", "unlock"}
                         /\ value = Sequence(u)!Split(newValue[o])
  \/ \E o \in u.Owners : seqPc[o] \in {"lockWrite", "write", "peek", "exchange"}
  \/ \A o \in u.Owners : newValue[o] = -1

\* What a sole owner's sequence holds.
OwnerValue(u) ==
  \A o \in u.Owners :
    /\ newValue[o] = -1 => value = Sequence(u)!Split(-1)
    /\ newValue[o] # -1 /\ seqPc[o] \in {"idle", "return", "unlock"} =>
         value = Sequence(u)!Split(newValue[o])
    /\ \/ seqPc[o] \in {"lockWrite", "peek", "exchange"}
       \/ seqPc[o] = "write" /\ seen[o] = {}
       => value \in {Sequence(u)!Split(newValue[o]),
                     Sequence(u)!Split(Sequence(u)!Before(newValue[o]))}

\* What an owner's step does to them.
LEMMA OwnerSteps ==
  ASSUME NEW u \in Uses, SequenceTypes(u), Places(u), Writable(u), Stored(u),
         Sequence(u)!SpinLockExclusive, Sequence(u)!WholeWrites,
         NEW t \in u.Owners, Sequence(u)!Step(t)
  PROVE  \/ /\ seqPc[t] = "idle" /\ seqPc'[t] \in {"lockWrite", "write", "peek"}
            /\ value' = value /\ seen'[t] = {}
            /\ Sequence(u)!Before(newValue'[t]) = newValue[t] /\ newValue'[t] > newValue[t]
         \/ /\ newValue' = newValue /\ newValue[t] # -1 /\ value' = value
            /\ \/ /\ seqPc[t] \in {"return", "unlock"} /\ seqPc'[t] \in {"idle", "return"}
               \/ /\ seqPc[t] \in {"lockWrite", "peek"}
                  /\ seqPc'[t] \in {"write", "peek", "exchange"}
         \/ /\ newValue' = newValue /\ newValue[t] # -1 /\ seqPc[t] = "write"
            /\ \/ /\ seqPc'[t] \in {"return", "unlock"}
                  /\ value' = Sequence(u)!Split(newValue[t])
               \/ seqPc'[t] = "write" /\ seen'[t] # {}
         \/ /\ newValue' = newValue /\ newValue[t] # -1 /\ seqPc[t] = "exchange"
            /\ seqPc'[t] \in {"return", "peek"} /\ value' = Sequence(u)!Split(newValue[t])
<1> DEFINE C == Sequence(u)!Callers
           MV == Sequence(u)!MAX_VALUE
<1>1. t \in C /\ t \notin u.Readers /\ t \notin u.Claimers
  BY Kinds
<1>2. /\ newValue \in [C -> Int] /\ seqPc \in [C -> SequencePlaces] /\ seen \in [C -> Parts]
  BY DEF SequenceTypes
<1>3. PlaceOf(u, t) /\ PlaceOf(u, t)'
  BY <1>1, PlacesStep DEF Places, Sequence!Callers
<1>4. /\ MV \in Int /\ u.LastValue \in Nat /\ u.LastValue < MV /\ MV' = MV
  BY UseFacts DEF Sequence!MAX_VALUE
<1>5. /\ Sequence(u)!Wide(build) => seen[t] = {}
      /\ Sequence(u)!Split(newValue[t]) \in Sequence(u)!Pairs
  BY <1>1, AccessFacts
<1> HIDE DEF C, MV
<1>6. \/ Sequence(u)!Lock(t) \/ Sequence(u)!Unlock(t) \/ Sequence(u)!Return(t)
      \/ Sequence(u)!BeginWrite(t) \/ Sequence(u)!WriteValue(t) \/ Sequence(u)!PeekValue(t)
      \/ Sequence(u)!Exchange(t)
  BY <1>1, <1>3
     DEF PlaceOf, Sequence!Step, Sequence!BeginRead, Sequence!ReadValue, Sequence!ReadSwap,
         Sequence!ClaimGet, Sequence!ClaimSwap, Sequence!ClaimCompare, Sequence!ClaimStore
<1>7. CASE Sequence(u)!Lock(t) \/ Sequence(u)!Unlock(t) \/ Sequence(u)!Return(t)
  <2>1. /\ newValue' = newValue /\ value' = value
        /\ \/ seqPc[t] = "lockWrite" /\ seqPc'[t] = "write"
           \/ seqPc[t] = "unlock" /\ seqPc'[t] = "return"
           \/ seqPc[t] = "return" /\ seqPc'[t] = "idle"
    BY <1>1, <1>2, <1>3, <1>7 DEF PlaceOf, Sequence!Lock, Sequence!Unlock, Sequence!Return
  <2>2. newValue[t] # -1
    BY <2>1, <1>3 DEF PlaceOf
  <2>3. QED
    BY <2>1, <2>2
<1>8. CASE Sequence(u)!BeginWrite(t)
  <2>1. /\ seqPc[t] = "idle" /\ seen' = seen /\ value' = value /\ newValue[t] < MV
        /\ newValue'[t] = IF newValue[t] < u.LastValue THEN newValue[t] + 1 ELSE MV
        /\ seqPc'[t] \in {"lockWrite", "write", "peek"}
    BY <1>8, <1>1, <1>2 DEF Sequence!BeginWrite, MV
  <2>2. newValue[t] \in (-1)..u.LastValue \union {MV} /\ seen[t] = {}
    BY <2>1, <1>1, <1>3 DEF PlaceOf, MV
  <2>3. /\ newValue'[t] > newValue[t]
        /\ newValue[t] = IF newValue'[t] = MV THEN u.LastValue ELSE newValue'[t] - 1
    BY <2>1, <2>2, <1>4
  <2>4. Sequence(u)!Before(newValue'[t]) = newValue[t]
    BY <2>3 DEF Sequence!Before, MV
  <2>5. QED
    BY <2>1, <2>2, <2>3, <2>4
<1>9. CASE Sequence(u)!WriteValue(t)
  <2>1. /\ seqPc[t] = "write" /\ newValue' = newValue
        /\ Sequence(u)!Store(t, "unlock") \/ Sequence(u)!Store(t, "return")
    BY <1>9 DEF Sequence!WriteValue
  <2>2. newValue[t] # -1 /\ \A w \in seen[t] : value[w] = Sequence(u)!Split(newValue[t])[w]
    BY <2>1, <1>1, <1>3 DEF PlaceOf, Stored, C
  <2> DEFINE p == Sequence(u)!Split(newValue[t])
  <2>3. p \in Sequence(u)!Pairs /\ p = Sequence(u)!Split(newValue[t])
    BY <1>5
  <2> HIDE DEF p
  <2>4. PICK next \in {"unlock", "return"} : Sequence(u)!Store(t, next)
    BY <2>1
  <2>5. /\ \/ seen'[t] = {} /\ seqPc' = [seqPc EXCEPT ![t] = next]
           \/ seen'[t] # {} /\ seqPc' = seqPc
        /\ (\A w \in seen[t] : value[w] = p[w]) => (seen'[t] = {} => value' = p)
    BY <2>3, <2>4, <1>1, <1>5, StoreEffect DEF C
  <2>6. \/ seen'[t] = {} /\ seqPc'[t] = next /\ value' = p
        \/ seen'[t] # {} /\ seqPc'[t] = "write"
    BY <2>1, <2>2, <2>3, <2>5, <1>1, <1>2
  <2>7. QED
    BY <2>1, <2>2, <2>3, <2>4, <2>6
<1>10. CASE Sequence(u)!PeekValue(t)
  <2>1. /\ seqPc[t] = "peek" /\ value' = value /\ newValue' = newValue
        /\ Sequence(u)!Load(t, "exchange")
    BY <1>10 DEF Sequence!PeekValue
  <2>2. seqPc'[t] \in {"peek", "exchange"}
    BY <2>1, <1>1, <1>2, <1>5, LoadEffect DEF C
  <2>3. newValue[t] # -1
    BY <2>1, <1>3 DEF PlaceOf
  <2>4. QED
    BY <2>1, <2>2, <2>3
<1>11. CASE Sequence(u)!Exchange(t)
  <2>1. /\ seqPc[t] = "exchange" /\ newValue' = newValue /\ seqPc'[t] \in {"return", "peek"}
        /\ value' = Sequence(u)!Split(newValue[t])
    BY <1>11, <1>1, <1>2 DEF Sequence!Exchange, Sequence!TestAndSet
  <2>2. newValue[t] # -1
    BY <2>1, <1>3 DEF PlaceOf
  <2>3. QED
    BY <2>1, <2>2
<1>12. QED
  BY <1>6, <1>7, <1>8, <1>9, <1>10, <1>11

\* Without claimers, only an owner's step changes the value.
LEMMA ReaderSteps ==
  ASSUME NEW u \in Uses, Places(u), NEW t \in u.Readers, Sequence(u)!Step(t)
  PROVE  value' = value
<1>1. t \notin u.Owners /\ t \notin u.Claimers /\ t \in Sequence(u)!Callers
  BY Kinds
<1>2. QED
  BY <1>1 DEF Places, PlaceOf, Sequence!Step, Sequence!Lock, Sequence!Unlock, Sequence!Return,
         Sequence!BeginRead, Sequence!ReadValue, Sequence!ReadSwap, Sequence!BeginWrite,
         Sequence!WriteValue, Sequence!PeekValue, Sequence!Exchange, Sequence!ClaimGet,
         Sequence!ClaimSwap, Sequence!ClaimCompare, Sequence!ClaimStore

LEMMA OwnerInvStep ==
  ASSUME NEW u \in Uses, SequenceTypes(u), Places(u), Writable(u), Stored(u),
         Sequence(u)!SpinLockExclusive, Sequence(u)!WholeWrites, u.Owners # {},
         NEW t \in Sequence(u)!Callers, Sequence(u)!Step(t)
  PROVE  /\ LastWrite(u) => LastWrite(u)'
         /\ (\A o, p \in u.Owners : o = p) /\ OwnerValue(u) => OwnerValue(u)'
<1> DEFINE C == Sequence(u)!Callers
<1>1. \A o \in C : o # t => /\ seqPc'[o] = seqPc[o] /\ seen'[o] = seen[o]
                            /\ newValue'[o] = newValue[o]
  BY OthersStay
<1>2. /\ u.Owners \subseteq C /\ u.Readers \intersect u.Owners = {}
      /\ t \in u.Owners \/ t \in u.Readers
  BY Kinds
<1>3. \A v : /\ Sequence(u)!Split(v)' = Sequence(u)!Split(v)
             /\ Sequence(u)!Before(v)' = Sequence(u)!Before(v)
  BY DEF Sequence!Split, Sequence!Words, Sequence!Before, Sequence!MAX_VALUE
<1> HIDE DEF C
<1>4. CASE t \notin u.Owners
  <2>1. value' = value
    BY <1>2, <1>4, ReaderSteps
  <2>2. \A o \in u.Owners : /\ seqPc'[o] = seqPc[o] /\ seen'[o] = seen[o]
                            /\ newValue'[o] = newValue[o]
    BY <1>1, <1>2, <1>4
  <2>3. LastWrite(u) => LastWrite(u)'
    BY <2>1, <2>2 DEF LastWrite, Sequence!Split, Sequence!Words
  <2>4. OwnerValue(u) => OwnerValue(u)'
    BY <2>1, <2>2 DEF OwnerValue, Sequence!Split, Sequence!Words, Sequence!Before,
                      Sequence!MAX_VALUE
  <2>5. QED
    BY <2>3, <2>4
<1>5. CASE t \in u.Owners
  <2> DEFINE s(v) == Sequence(u)!Split(v)
             b(v) == Sequence(u)!Before(v)
             A == /\ seqPc[t] = "idle" /\ seqPc'[t] \in {"lockWrite", "write", "peek"}
                  /\ value' = value /\ seen'[t] = {}
                  /\ b(newValue'[t]) = newValue[t] /\ newValue'[t] > newValue[t]
             B == /\ newValue' = newValue /\ newValue[t] # -1 /\ value' = value
                  /\ \/ /\ seqPc[t] \in {"return", "unlock"} /\ seqPc'[t] \in {"idle", "return"}
                     \/ /\ seqPc[t] \in {"lockWrite", "peek"}
                        /\ seqPc'[t] \in {"write", "peek", "exchange"}
             D == /\ newValue' = newValue /\ newValue[t] # -1 /\ seqPc[t] = "write"
                  /\ \/ /\ seqPc'[t] \in {"return", "unlock"} /\ value' = s(newValue[t])
                     \/ seqPc'[t] = "write" /\ seen'[t] # {}
             E == /\ newValue' = newValue /\ newValue[t] # -1 /\ seqPc[t] = "exchange"
                  /\ seqPc'[t] \in {"return", "peek"} /\ value' = s(newValue[t])
  <2>1. A \/ B \/ D \/ E
    BY <1>5, OwnerSteps
  <2>2. LastWrite(u) => LastWrite(u)'
    <3>1. \/ /\ newValue'[t] # -1 /\ seqPc'[t] \in {"idle", "return", "unlock"}
             /\ value' = s(newValue'[t])
          \/ seqPc'[t] \in {"lockWrite", "write", "peek", "exchange"}
          \/ B /\ seqPc[t] \in {"return", "unlock"} /\ seqPc'[t] \in {"idle", "return"}
      <4> HIDE DEF s, b
      <4>1. QED
        BY <2>1
    <3>2. CASE \/ /\ newValue'[t] # -1 /\ seqPc'[t] \in {"idle", "return", "unlock"}
                  /\ value' = s(newValue'[t])
               \/ seqPc'[t] \in {"lockWrite", "write", "peek", "exchange"}
      BY <3>2, <1>5, <1>3 DEF LastWrite
    <3>3. CASE B /\ seqPc[t] \in {"return", "unlock"} /\ seqPc'[t] \in {"idle", "return"}
      <4>1. \A o \in u.Owners : o # t => seqPc'[o] = seqPc[o]
        BY <1>1, <1>2
      <4>2. ASSUME NEW o \in u.Owners, newValue[o] # -1,
                   seqPc[o] \in {"idle", "return", "unlock"}, value = s(newValue[o])
            PROVE  LastWrite(u)'
        <5>1. /\ newValue'[o] # -1 /\ seqPc'[o] \in {"idle", "return", "unlock"}
              /\ value' = s(newValue'[o])
          BY <3>3, <4>1, <4>2
        <5>2. QED
          BY <5>1, <1>3 DEF LastWrite
      <4>3. ASSUME NEW o \in u.Owners, seqPc[o] \in {"lockWrite", "write", "peek", "exchange"}
            PROVE  LastWrite(u)'
        <5>1. seqPc'[o] \in {"lockWrite", "write", "peek", "exchange"}
          BY <3>3, <4>1, <4>3
        <5>2. QED
          BY <5>1 DEF LastWrite
      <4>4. ~ \A o \in u.Owners : newValue[o] = -1
        BY <3>3, <1>5
      <4>5. QED
        BY <4>2, <4>3, <4>4 DEF LastWrite
    <3>4. QED
      BY <3>1, <3>2, <3>3
  <2>3. ASSUME \A o, p \in u.Owners : o = p, OwnerValue(u)
        PROVE  OwnerValue(u)'
    <3>1. SUFFICES
            /\ newValue'[t] = -1 => value' = s(-1)
            /\ newValue'[t] # -1 /\ seqPc'[t] \in {"idle", "return", "unlock"} =>
                 value' = s(newValue'[t])
            /\ \/ seqPc'[t] \in {"lockWrite", "peek", "exchange"}
               \/ seqPc'[t] = "write" /\ seen'[t] = {}
               => value' \in {s(newValue'[t]), s(b(newValue'[t]))}
      <4>1. \A o \in u.Owners : o = t
        BY <2>3, <1>5
      <4>2. QED
        BY <4>1, <1>3, <3>1 DEF OwnerValue
    <3>2. /\ newValue[t] = -1 => value = s(-1)
          /\ newValue[t] # -1 /\ seqPc[t] \in {"idle", "return", "unlock"} =>
               value = s(newValue[t])
          /\ \/ seqPc[t] \in {"lockWrite", "peek", "exchange"}
             \/ seqPc[t] = "write" /\ seen[t] = {}
             => value \in {s(newValue[t]), s(b(newValue[t]))}
      BY <2>3, <1>5 DEF OwnerValue
    <3>3. newValue[t] \in Int /\ newValue[t] >= -1 /\ newValue'[t] \in Int
      <4>1. newValue[t] \in (-1)..Sequence(u)!MAX_VALUE /\ Sequence(u)!MAX_VALUE \in Int
        BY <1>2, <1>5, UseFacts DEF Writable, C
      <4>2. newValue'[t] \in Int
        BY <1>2, <1>5, SequenceTypesStep DEF SequenceTypes, C, Sequence!Callers
      <4>3. QED
        BY <4>1, <4>2
    <3> HIDE DEF s, b
    <3>4. CASE A
      BY <3>2, <3>3, <3>4
    <3>5. CASE B
      <4>1. seqPc[t] \in {"peek", "lockWrite"} => value' \in {s(newValue'[t]), s(b(newValue'[t]))}
        BY <3>2, <3>5
      <4>2. QED
        BY <4>1, <3>2, <3>5
    <3>6. CASE D
      BY <3>2, <3>6
    <3>7. CASE E
      BY <3>2, <3>7
    <3>8. QED
      BY <2>1, <3>4, <3>5, <3>6, <3>7
  <2>4. QED
    BY <2>2, <2>3
<1>6. QED
  BY <1>4, <1>5

-----------------------------------------------------------------------------
(* Reads                                                                    *)

Sole(u) == \A o, p \in u.Owners : o = p
Written(u) ==
  (-1)..(u.LastValue + Cardinality(u.Claimers)) \union {Sequence(u)!MAX_VALUE}

\* No store is half done.
Whole(u) ==
  \A t \in Sequence(u)!Callers : seqPc[t] \in {"store", "write"} => seen[t] = {}

\* The newest values, of threads that are at the places "at", with the new values
\* "new" and the results "res".
SettledOf(u, at, new, res) ==
  Sequence(u)!Greatest({-1} \union {res[c] : c \in u.Claimers} \union
    {IF at[o] = "idle" THEN new[o] ELSE Sequence(u)!Before(new[o]) :
       o \in {t \in u.Owners : new[t] # -1}})
StartedOf(u, at, new, res) ==
  Sequence(u)!Greatest({-1} \union {res[c] : c \in u.Claimers} \union
    {new[t] : t \in u.Owners \union {c \in u.Claimers : at[c] = "store"}})

LEMMA NewestOf ==
  ASSUME NEW u \in Uses
  PROVE  /\ Sequence(u)!Settled = SettledOf(u, seqPc, newValue, seqResult)
         /\ Sequence(u)!Settled' = SettledOf(u, seqPc', newValue', seqResult')
         /\ Sequence(u)!Started = StartedOf(u, seqPc, newValue, seqResult)
         /\ Sequence(u)!Started' = StartedOf(u, seqPc', newValue', seqResult')
  BY DEF SettledOf, StartedOf, Sequence!Settled, Sequence!Started,
         Sequence!INITIAL_CURSOR_VALUE, Sequence!Greatest, Sequence!Before, Sequence!MAX_VALUE

\* Those of a sequence whose one owner is o, ...
OwnerNewestOf(u, o, at, new, res) ==
  /\ SettledOf(u, at, new, res) = IF new[o] = -1 THEN -1
                                  ELSE IF at[o] = "idle" THEN new[o]
                                  ELSE Sequence(u)!Before(new[o])
  /\ StartedOf(u, at, new, res) = new[o]
  /\ new[o] \in Written(u)
  /\ new[o] # -1 => Sequence(u)!Before(new[o]) \in Written(u)
                    /\ Sequence(u)!Before(new[o]) < new[o]
  /\ new[o] \in Int /\ new[o] >= -1

LEMMA OwnerNewest ==
  ASSUME NEW u \in Uses, NEW o, u.Owners = {o}, NEW at, NEW new, NEW res,
         new[o] \in (-1)..u.LastValue \union {Sequence(u)!MAX_VALUE}
  PROVE  OwnerNewestOf(u, o, at, new, res)
<1> DEFINE num == new[o]
           b == Sequence(u)!Before(new[o])
           MV == Sequence(u)!MAX_VALUE
           f(p) == IF at[p] = "idle" THEN new[p] ELSE Sequence(u)!Before(new[p])
           R == {res[c] : c \in u.Claimers}
           T == {t \in u.Owners : new[t] # -1}
           O == {f(p) : p \in T}
           N == {new[t] : t \in u.Owners \union {c \in u.Claimers : at[c] = "store"}}
<1>1. u.Claimers = {}
  BY Kinds
<1>2. Cardinality(u.Claimers) = 0
  BY <1>1, FS_EmptySet
<1>3. /\ MV \in Int /\ u.LastValue \in Nat /\ u.LastValue < MV
      /\ num \in (-1)..u.LastValue \union {MV}
  BY UseFacts
<1>4. b = IF num = MV THEN u.LastValue ELSE num - 1
  BY DEF Sequence!Before
<1>5. num \in Written(u) /\ (num # -1 => b \in Written(u) /\ b < num)
  <2> HIDE DEF num, b, MV
  <2>1. QED
    BY <1>2, <1>3, <1>4 DEF Written, MV
<1>6. R = {}
  BY <1>1
<1>7. N = {num}
  BY <1>1
<1>8. T = IF num = -1 THEN {} ELSE {o}
  OBVIOUS
<1>9. O = IF num = -1 THEN {} ELSE {f(o)}
  BY <1>8
<1>10. /\ SettledOf(u, at, new, res) = Sequence(u)!Greatest({-1} \union R \union O)
       /\ StartedOf(u, at, new, res) = Sequence(u)!Greatest({-1} \union R \union N)
  BY DEF SettledOf, StartedOf
<1>11. f(o) = (IF at[o] = "idle" THEN num ELSE b)
  OBVIOUS
<1> HIDE DEF R, T, N, f, num, b, MV, O
<1>12. {-1} \union R \union N = {-1, num}
  BY <1>6, <1>7
<1>13. num \in Int /\ num >= -1 /\ (num # -1 => b \in Int /\ b >= -1)
  BY <1>3, <1>4
<1>14. Sequence(u)!Greatest({-1, num}) = num
  <2>1. {-1, num} \subseteq Int /\ num \in {-1, num} /\ \A v \in {-1, num} : v <= num
    BY <1>13
  <2>2. QED
    BY <2>1, GreatestIs
<1>15. StartedOf(u, at, new, res) = num
  BY <1>10, <1>12, <1>14
<1>16. ASSUME NEW g, {-1} \union R \union O = {-1, g}, g \in Int, g >= -1
       PROVE  SettledOf(u, at, new, res) = g
  <2>1. {-1, g} \subseteq Int /\ g \in {-1, g} /\ \A v \in {-1, g} : v <= g
    BY <1>16
  <2>2. Sequence(u)!Greatest({-1, g}) = g
    BY <2>1, GreatestIs
  <2>3. QED
    BY <2>2, <1>10, <1>16
<1>17. CASE num = -1
  <2>1. {-1} \union R \union O = {-1, -1}
    BY <1>6, <1>9, <1>17
  <2>2. SettledOf(u, at, new, res) = -1
    BY <2>1, <1>16
  <2>3. QED
    BY <2>2, <1>5, <1>13, <1>15, <1>17 DEF num, b, OwnerNewestOf
<1>18. CASE num # -1
  <2>1. {-1} \union R \union O = {-1, f(o)}
    BY <1>6, <1>9, <1>18
  <2>2. f(o) \in Int /\ f(o) >= -1
    BY <1>11, <1>13, <1>18
  <2>3. SettledOf(u, at, new, res) = f(o)
    BY <2>1, <2>2, <1>16
  <2>4. QED
    BY <2>3, <1>5, <1>11, <1>13, <1>15, <1>18 DEF num, b, OwnerNewestOf
<1>19. QED
  BY <1>17, <1>18

\* ... and of a claimed one.
ClaimNewestOf(u, m, at, new, res) ==
  /\ SettledOf(u, at, new, res) = m
  /\ StartedOf(u, at, new, res) = IF \E c \in u.Claimers : at[c] = "store" THEN m + 1 ELSE m

LEMMA ClaimNewest ==
  ASSUME NEW u \in Uses, u.Owners = {}, NEW at, NEW new, NEW res, NEW m \in Int, m >= -1,
         \A c \in u.Claimers : res[c] \in Int /\ res[c] <= m,
         m = -1 \/ \E c \in u.Claimers : res[c] = m,
         \A c \in u.Claimers : at[c] = "store" => new[c] = m + 1
  PROVE  ClaimNewestOf(u, m, at, new, res)
<1> DEFINE R == {res[c] : c \in u.Claimers}
           T == {c \in u.Claimers : at[c] = "store"}
           N == {new[t] : t \in u.Owners \union T}
           O == {IF at[o] = "idle" THEN new[o] ELSE Sequence(u)!Before(new[o]) :
                   o \in {t \in u.Owners : new[t] # -1}}
           S == {-1} \union R \union N
           B == {-1} \union R
<1>1. O = {}
  OBVIOUS
<1>2. SettledOf(u, at, new, res) = Sequence(u)!Greatest({-1} \union R \union O)
      /\ StartedOf(u, at, new, res) = Sequence(u)!Greatest(S)
  BY DEF SettledOf, StartedOf
<1>3. SettledOf(u, at, new, res) = Sequence(u)!Greatest(B)
  <2> HIDE DEF O
  <2>1. {-1} \union R \union O = B
    BY <1>1
  <2>2. QED
    BY <2>1, <1>2
<1>4. m \in {-1} \union R /\ \A v \in R : v \in Int /\ v <= m
  OBVIOUS
<1>5. N = IF T = {} THEN {} ELSE {m + 1}
  <2>1. \A c \in T : new[c] = m + 1
    OBVIOUS
  <2>2. N = {new[c] : c \in T}
    OBVIOUS
  <2> HIDE DEF T
  <2>3. QED
    BY <2>1, <2>2
<1>6. (\E c \in u.Claimers : at[c] = "store") <=> T # {}
  OBVIOUS
<1> HIDE DEF R, T, N
<1>7. SettledOf(u, at, new, res) = m
  <2>1. B \subseteq Int /\ m \in B /\ \A v \in B : v <= m
    BY <1>4
  <2> HIDE DEF B
  <2>2. QED
    BY <2>1, <1>3, GreatestIs
<1>8. ASSUME NEW g \in {m, m + 1}, g = IF T = {} THEN m ELSE m + 1
      PROVE  StartedOf(u, at, new, res) = g
  <2>1. S \subseteq Int /\ g \in S /\ \A v \in S : v <= g
    BY <1>4, <1>5, <1>8
  <2> HIDE DEF S
  <2>2. QED
    BY <2>1, <1>2, GreatestIs
<1>9. QED
  BY <1>6, <1>7, <1>8 DEF ClaimNewestOf

\* Of the claimers' results, the greatest is the last claim.
LEMMA ClaimResults ==
  ASSUME NEW u \in Uses, SequenceTypes(u), u.Owners = {}, ClaimInv(u)
  PROVE  /\ Sequence(u)!Settled = LastClaim(u)
         /\ Sequence(u)!Started = IF \E c \in u.Claimers : seqPc[c] = "store"
                                  THEN LastClaim(u) + 1 ELSE LastClaim(u)
         /\ LastClaim(u) \in Int /\ LastClaim(u) \in Written(u)
<1> DEFINE m == LastClaim(u)
<1>1. m \in Int /\ m >= -1 /\ m <= u.LastValue + Cardinality(u.Claimers)
      /\ u.LastValue \in Nat /\ Cardinality(u.Claimers) \in Nat
  BY ClaimTypes, UseFacts DEF ClaimInv
<1>2. m \in Written(u)
  BY <1>1 DEF Written
<1>3. /\ \A c \in u.Claimers : seqResult[c] \in Int /\ seqResult[c] <= m
      /\ m = -1 \/ \E c \in u.Claimers : seqResult[c] = m
      /\ \A c \in u.Claimers : seqPc[c] = "store" => newValue[c] = m + 1
  BY Kinds DEF SequenceTypes, ClaimInv
<1> HIDE DEF m
<1>4. QED
  <2>1. ClaimNewestOf(u, m, seqPc, newValue, seqResult)
    BY <1>1, <1>3, ClaimNewest, Zenon
  <2>2. QED
    BY <1>1, <1>2, <2>1, NewestOf DEF m, ClaimNewestOf

\* When no store is half done, the sequence holds a value that was written, no
\* older than the newest complete one and no newer than the newest begun.
LEMMA ValueFresh ==
  ASSUME NEW u \in Uses, SequenceTypes(u), Places(u), Sole(u),
         u.Owners = {} => ClaimInv(u), u.Owners # {} => OwnerValue(u)
  PROVE  /\ Sequence(u)!Settled \in Int /\ Sequence(u)!Started \in Int
         /\ Whole(u) => /\ Sequence(u)!Value(value) \in Written(u)
                        /\ Sequence(u)!Settled <= Sequence(u)!Value(value)
                        /\ Sequence(u)!Value(value) <= Sequence(u)!Started
<1>1. CASE u.Owners = {}
  <2>1. /\ Sequence(u)!Settled = LastClaim(u) /\ LastClaim(u) \in Written(u)
        /\ Sequence(u)!Started \in {LastClaim(u), LastClaim(u) + 1}
    BY <1>1, ClaimResults
  <2>2. LastClaim(u) \in Int
    BY <1>1, ClaimResults
  <2>3. Whole(u) => Sequence(u)!Value(value) = LastClaim(u)
    BY <1>1, Kinds DEF ClaimInv, Whole
  <2>4. QED
    BY <2>1, <2>2, <2>3
<1>2. CASE u.Owners # {}
  <2>1. PICK o \in u.Owners : TRUE
    BY <1>2
  <2> DEFINE num == newValue[o]
             b == Sequence(u)!Before(newValue[o])
             s(v) == Sequence(u)!Split(v)
             x(p) == Sequence(u)!Value(p)
  <2>2. /\ Sequence(u)!Settled = IF num = -1 THEN -1 ELSE IF seqPc[o] = "idle" THEN num ELSE b
        /\ Sequence(u)!Started = num
        /\ num \in Written(u) /\ (num # -1 => b \in Written(u) /\ b < num)
    <3>1. u.Owners = {o} /\ o \in Sequence(u)!Callers
      BY <2>1, Kinds DEF Sole
    <3>2. newValue[o] \in (-1)..u.LastValue \union {Sequence(u)!MAX_VALUE}
      BY <3>1 DEF Places, PlaceOf
    <3>3. OwnerNewestOf(u, o, seqPc, newValue, seqResult)
      BY <3>1, <3>2, OwnerNewest, Zenon
    <3>4. QED
      BY <3>3, NewestOf DEF OwnerNewestOf
  <2>3. /\ num = -1 => value = s(-1)
        /\ num # -1 /\ seqPc[o] \in {"idle", "return", "unlock"} => value = s(num)
        /\ \/ seqPc[o] \in {"lockWrite", "peek", "exchange"}
           \/ seqPc[o] = "write" /\ seen[o] = {}
           => value \in {s(num), s(b)}
    BY <2>1, <1>2 DEF OwnerValue
  <2>4. /\ o \in Sequence(u)!Callers /\ PlaceOf(u, o) /\ o \notin u.Claimers /\ o \notin u.Readers
        /\ seqPc[o] \in SequencePlaces
    BY <2>1, Kinds DEF Places, SequenceTypes
  <2>5. seqPc[o] \in {"idle", "return", "unlock", "lockWrite", "peek", "exchange", "write"}
    BY <2>1, <2>4 DEF PlaceOf, SequencePlaces
  <2>6. \A v \in Written(u) : v \in (-Half(u))..(Half(u) - 1) /\ v >= -1
    BY UseFacts DEF Written
  <2>7. \A v \in Written(u) : x(s(v)) = v /\ v \in Int /\ v >= -1
    <3>1. ASSUME NEW v \in Written(u) PROVE x(s(v)) = v
      BY <2>6, SplitValue
    <3>2. \A v \in Written(u) : v \in Int
      BY <2>6, UseFacts
    <3>3. QED
      BY <2>6, <3>1, <3>2
  <2>8. Whole(u) => (seqPc[o] = "write" => seen[o] = {})
    BY <2>4 DEF Whole
  <2> HIDE DEF num, b, s, x
  <2>9. (-1) \in Written(u)
    BY UseFacts DEF Written
  <2>10. Whole(u) => \/ num = -1 /\ value = s(-1)
                     \/ num # -1 /\ value = s(num)
                     \/ num # -1 /\ seqPc[o] # "idle" /\ value = s(b)
    BY <2>3, <2>5, <2>8
  <2>11. Whole(u) => x(value) \in Written(u) /\ Sequence(u)!Settled <= x(value)
                     /\ x(value) <= Sequence(u)!Started
    <3>1. CASE num = -1
      BY <3>1, <2>2, <2>7, <2>9, <2>10
    <3>2. CASE num # -1
      <4>1. num \in Int /\ b \in Int /\ b < num /\ x(s(num)) = num /\ x(s(b)) = b
        BY <3>2, <2>2, <2>7
      <4>2. QED
        BY <3>2, <4>1, <2>2, <2>10
    <3>3. QED
      BY <3>1, <3>2
  <2>12. Sequence(u)!Settled \in Int /\ Sequence(u)!Started \in Int
    BY <2>2, <2>7
  <2>13. QED
    BY <2>11, <2>12 DEF x
<1>3. QED
  BY <1>1, <1>2

\* The newest values only grow.
LEMMA NewestGrow ==
  ASSUME NEW u \in Uses, SequenceTypes(u), Places(u), Writable(u), Stored(u),
         Sequence(u)!SpinLockExclusive, Sequence(u)!WholeWrites, Sole(u),
         u.Owners = {} => ClaimInv(u), u.Owners # {} => OwnerValue(u),
         NEW t \in Sequence(u)!Callers, Sequence(u)!Step(t)
  PROVE  /\ Sequence(u)!Settled <= Sequence(u)!Settled'
         /\ Sequence(u)!Started <= Sequence(u)!Started'
         /\ Sequence(u)!Settled' \in Int /\ Sequence(u)!Started' \in Int
<1> DEFINE C == Sequence(u)!Callers
<1>1. /\ t \in C
      /\ \A o \in C : o # t => /\ seqPc'[o] = seqPc[o] /\ newValue'[o] = newValue[o]
                               /\ calls'[o] = calls[o]
  BY OthersStay
<1>2. C = u.Claimers \union u.Owners \union u.Readers /\ u.Readers \intersect u.Owners = {}
  BY Kinds
<1>3. SequenceTypes(u)' /\ Places(u)'
  BY SequenceTypesStep, PlacesStep
<1>4. /\ seqPc \in [C -> SequencePlaces] /\ calls \in [C -> Nat]
      /\ \A c \in C : seqResult'[c] \in Int /\ calls'[c] \in Nat
  BY <1>3 DEF SequenceTypes, Sequence!Callers
<1>5. CASE u.Owners = {}
  <2> DEFINE m == LastClaim(u)
             num == LastClaim(u)'
             A == Sequence(u)!Claims
  <2>1. ClaimInv(u) /\ ClaimInv(u)'
    BY <1>5, ClaimStep
  <2>2. /\ Sequence(u)!Settled = m /\ m \in Int
        /\ Sequence(u)!Started = IF \E c \in u.Claimers : seqPc[c] = "store" THEN m + 1 ELSE m
    BY <1>5, <2>1, ClaimResults
  <2>3. num \in Int /\ num >= -1
    <3>1. IsFiniteSet(Sequence(u)!Claims')
      BY <2>1 DEF ClaimInv
    <3>2. Cardinality(Sequence(u)!Claims') \in Nat
      BY <3>1, FS_CardinalityType
    <3>3. QED
      BY <3>2 DEF LastClaim
  <2>4. Sequence(u)!Settled' = num
        /\ Sequence(u)!Started' = IF \E c \in u.Claimers : seqPc'[c] = "store" THEN num + 1 ELSE num
    <3>1. /\ \A c \in u.Claimers : seqResult'[c] \in Int /\ seqResult'[c] <= num
          /\ num = -1 \/ \E c \in u.Claimers : seqResult'[c] = num
          /\ \A c \in u.Claimers : seqPc'[c] = "store" => newValue'[c] = num + 1
      BY <1>2, <1>4, <2>1 DEF ClaimInv
    <3> HIDE DEF num
    <3>2. ClaimNewestOf(u, num, seqPc', newValue', seqResult')
      BY <1>5, <2>3, <3>1, ClaimNewest, Zenon
    <3>3. QED
      BY <3>2, NewestOf DEF ClaimNewestOf
  <2>5. m <= num
    <3>1. \A c \in u.Claimers : calls[c] <= calls'[c]
      <4>1. calls'[t] >= calls[t]
        BY <1>1, <1>4
           DEF Sequence!Step, Sequence!Lock, Sequence!Unlock, Sequence!Return,
               Sequence!BeginRead, Sequence!ReadValue, Sequence!ReadSwap, Sequence!BeginWrite,
               Sequence!WriteValue, Sequence!PeekValue, Sequence!Exchange, Sequence!ClaimGet,
               Sequence!ClaimSwap, Sequence!ClaimCompare, Sequence!ClaimStore, Sequence!Claimed
      <4>2. QED
        BY <4>1, <1>1, <1>2, <1>4
    <3>2. \A x : x \in A <=> \E c \in u.Claimers : \E j \in 1..calls[c] : x = <<c, j>>
      BY DEF Sequence!Claims
    <3>3. \A x : x \in A' <=> \E c \in u.Claimers : \E j \in 1..calls'[c] : x = <<c, j>>
      BY DEF Sequence!Claims
    <3>4. \A c \in u.Claimers : \A j \in 1..calls[c] : j \in 1..calls'[c]
      BY <3>1, <1>2, <1>4
    <3>5. A \subseteq A'
      BY <3>2, <3>3, <3>4
    <3>6. IsFiniteSet(A')
      BY <2>1 DEF ClaimInv
    <3>7. Cardinality(A) <= Cardinality(A') /\ Cardinality(A) \in Nat /\ Cardinality(A') \in Nat
      BY <3>5, <3>6, FS_Subset, FS_CardinalityType
    <3>8. QED
      BY <3>7 DEF LastClaim
  <2>6. ASSUME NEW c \in u.Claimers, seqPc[c] = "store"
        PROVE  seqPc'[c] = "store" \/ num >= m + 1
    <3>1. CASE c # t
      BY <2>6, <3>1, <1>1, <1>2
    <3>2. CASE c = t
      <4>1. Sequence(u)!ClaimStore(t)
        BY <2>6, <3>2
           DEF Sequence!Step, Sequence!Lock, Sequence!Unlock, Sequence!Return,
               Sequence!BeginRead, Sequence!ReadValue, Sequence!ReadSwap, Sequence!BeginWrite,
               Sequence!WriteValue, Sequence!PeekValue, Sequence!Exchange, Sequence!ClaimGet,
               Sequence!ClaimSwap, Sequence!ClaimCompare
      <4>2. PlaceOf(u, t) /\ Sequence(u)!Split(newValue[t]) \in Sequence(u)!Pairs
            /\ (Sequence(u)!Wide(build) => seen[t] = {})
        BY AccessFacts DEF Places
      <4>3. seqPc'[t] = "store" \/ seqPc'[t] = "unlockSwap"
        BY <2>6, <3>2, <4>1, <4>2, <1>1, <1>4, StoreEffect DEF Sequence!ClaimStore
      <4>4. CASE seqPc'[t] = "unlockSwap"
        <5>1. seqResult'[t] = Sequence(u)!Value(oldValue[t]) + 1
          BY <4>1, <4>4, <1>1 DEF Sequence!ClaimStore, Sequence!Claimed, SequenceTypes
        <5>2. seqResult'[t] = m + 1
          BY <5>1, <2>1, <2>6, <3>2 DEF ClaimInv
        <5>3. seqResult'[t] <= num
          BY <2>1, <2>6, <3>2 DEF ClaimInv
        <5>4. QED
          BY <5>2, <5>3, <2>2, <2>3
      <4>5. QED
        BY <4>3, <4>4, <3>2
    <3>3. QED
      BY <3>1, <3>2
  <2> HIDE DEF m, num
  <2>7. QED
    BY <2>2, <2>3, <2>4, <2>5, <2>6
<1>6. CASE u.Owners # {}
  <2>1. PICK o \in u.Owners : u.Owners = {o} /\ o \in C
    BY <1>6, Kinds DEF Sole
  <2>2. /\ newValue[o] \in (-1)..u.LastValue \union {Sequence(u)!MAX_VALUE}
        /\ newValue'[o] \in (-1)..u.LastValue \union {Sequence(u)!MAX_VALUE}
        /\ seqPc[o] # "idle" => newValue[o] # -1
        /\ seqPc'[o] # "idle" => newValue'[o] # -1
    BY <2>1, <1>3 DEF Places, PlaceOf, Sequence!Callers, Sequence!MAX_VALUE
  <2>3. /\ OwnerNewestOf(u, o, seqPc, newValue, seqResult)
        /\ OwnerNewestOf(u, o, seqPc', newValue', seqResult')
    BY <2>1, <2>2, OwnerNewest, Zenon
  <2> DEFINE b(v) == Sequence(u)!Before(v)
             x == newValue[o]
             y == newValue'[o]
  <2>4. /\ Sequence(u)!Settled = IF x = -1 THEN -1 ELSE IF seqPc[o] = "idle" THEN x ELSE b(x)
        /\ Sequence(u)!Started = x
        /\ x \in Int /\ x >= -1 /\ (x # -1 => b(x) \in Written(u) /\ b(x) < x)
        /\ Sequence(u)!Settled' = IF y = -1 THEN -1 ELSE IF seqPc'[o] = "idle" THEN y ELSE b(y)
        /\ Sequence(u)!Started' = y
        /\ y \in Int /\ y >= -1 /\ (y # -1 => b(y) \in Written(u) /\ b(y) < y)
    BY <2>3, NewestOf DEF OwnerNewestOf
  <2>5. \A v \in Written(u) : v \in Int /\ v >= -1
    BY UseFacts DEF Written
  <2>6. \/ y = x /\ (seqPc[o] = "idle" => seqPc'[o] = "idle")
        \/ b(y) = x /\ y > x /\ seqPc[o] = "idle" /\ seqPc'[o] # "idle"
    <3>1. CASE o # t
      BY <3>1, <2>1, <1>1
    <3>2. CASE o = t
      <4>1. \/ /\ seqPc[t] = "idle" /\ seqPc'[t] \in {"lockWrite", "write", "peek"}
               /\ b(newValue'[t]) = newValue[t] /\ newValue'[t] > newValue[t]
            \/ newValue' = newValue /\ seqPc[t] # "idle"
        BY <2>1, <3>2, OwnerSteps
      <4>2. QED
        BY <4>1, <3>2
    <3>3. QED
      BY <3>1, <3>2
  <2> HIDE DEF b, x, y
  <2>7. (seqPc[o] # "idle" => x # -1) /\ (seqPc'[o] # "idle" => y # -1)
    BY <2>2 DEF x, y
  <2>8. QED
    BY <2>4, <2>5, <2>6, <2>7
<1>7. QED
  BY <1>5, <1>6

\* A reader began no later than the newest complete write; what it has loaded when
\* it returns, and what it returned, lies between that and the newest begun; the
\* words it loads under the lock are those of the sequence.
ReaderInv(u) ==
  \A t \in u.Readers :
    /\ since[t] \in Int
    /\ seqPc[t] # "idle" => since[t] <= Sequence(u)!Settled
    /\ seqPc[t] \in {"unlock", "return"} =>
         /\ Sequence(u)!Value(oldValue[t]) \in Written(u)
         /\ since[t] <= Sequence(u)!Value(oldValue[t])
         /\ Sequence(u)!Value(oldValue[t]) <= Sequence(u)!Started
    /\ seqPc[t] = "idle" /\ calls[t] > 0 =>
         /\ seqResult[t] \in Written(u)
         /\ since[t] <= seqResult[t] /\ seqResult[t] <= Sequence(u)!Started
    /\ seqPc[t] = "read" /\ Sequence(u)!Holds(t) =>
         \A w \in seen[t] : oldValue[t][w] = value[w]

\* While a thread holds the lock in a 32-bit build, the others write nothing.
LEMMA HolderAlone ==
  ASSUME NEW u \in Uses, Places(u), Sequence(u)!SpinLockExclusive, Sequence(u)!WholeWrites,
         Sequence(u)!LocksOrder,
         NEW t \in Sequence(u)!Callers, Sequence(u)!Holds(t)
  PROVE  \A o \in Sequence(u)!Callers : o # t =>
           /\ seqPc[o] \notin {"store", "write", "swap", "exchange"}
           /\ Sequence(u)!Step(o) => value' = value
<1> SUFFICES ASSUME NEW o \in Sequence(u)!Callers, o # t
             PROVE  /\ seqPc[o] \notin {"store", "write", "swap", "exchange"}
                    /\ Sequence(u)!Step(o) => value' = value
  OBVIOUS
<1>1. /\ PlaceOf(u, o) /\ ~Sequence(u)!Holds(o)
      /\ Sequence(u)!SpinLock(build) /\ ~Sequence(u)!Wide(build) /\ ~Sequence(u)!SwapsOrder
  BY DEF Places, Sequence!SpinLockExclusive, Sequence!LocksOrder, Sequence!SwapsOrder
<1>2. Ordered(u, o)
  BY <1>1 DEF Ordered, Sequence!WholeWrites
<1>3. seqPc[o] \notin {"store", "write", "swap", "exchange"}
  BY <1>1, <1>2, HoldsWhere DEF PlaceOf
<1>4. Sequence(u)!Step(o) => value' = value
  BY <1>3 DEF Sequence!Step, Sequence!Lock, Sequence!Unlock, Sequence!Return,
         Sequence!BeginRead, Sequence!ReadValue, Sequence!ReadSwap, Sequence!BeginWrite,
         Sequence!WriteValue, Sequence!PeekValue, Sequence!Exchange, Sequence!ClaimGet,
         Sequence!ClaimSwap, Sequence!ClaimCompare, Sequence!ClaimStore
<1>5. QED
  BY <1>3, <1>4

\* A reader that has its words has the value of the sequence, at a moment when no
\* store is half done, or it is about to swap.
LEMMA ReadDone ==
  ASSUME NEW u \in Uses, SequenceTypes(u), Places(u), Writable(u),
         Sequence(u)!SpinLockExclusive, Sequence(u)!WholeWrites, Sequence(u)!WholeReads,
         ReaderInv(u), NEW t \in u.Readers,
         Sequence(u)!ReadValue(t) \/ Sequence(u)!ReadSwap(t)
  PROVE  \/ seqPc'[t] \in {"read", "readSwap"}
         \/ /\ seqPc'[t] \in {"unlock", "return"}
            /\ oldValue'[t] = value /\ Whole(u)
<1> DEFINE C == Sequence(u)!Callers
<1>1. t \in C /\ PlaceOf(u, t)
  BY Kinds DEF Places
<1>2. /\ seqPc \in [C -> SequencePlaces] /\ value \in Sequence(u)!Pairs
      /\ oldValue \in [C -> Sequence(u)!Pairs]
      /\ Sequence(u)!Pairs = [{"hi", "lo"} -> Sequence(u)!Word]
  BY DEF SequenceTypes, Sequence!Pairs, Sequence!Words
<1>3. Sequence(u)!Wide(build) => seen[t] = {}
  BY <1>1, AccessFacts
<1>4. ~Sequence(u)!Wide(build) => u.ReadOp = "getOrder" /\ u.WriteOp = "setOrder"
  BY DEF Sequence!WholeWrites, Sequence!WholeReads
<1>5. Sequence(u)!Wide(build) => Whole(u)
  BY DEF Places, PlaceOf, Whole
<1>6. Sequence(u)!SwapsOrder => Whole(u)
  <2>1. ASSUME Sequence(u)!SwapsOrder, NEW o \in C PROVE seqPc[o] \notin {"store", "write"}
    <3>1. PlaceOf(u, o) /\ ~Sequence(u)!Wide(build) /\ ~Sequence(u)!SpinLock(build)
      BY <2>1 DEF Places, Sequence!SwapsOrder
    <3>2. Ordered(u, o)
      BY <3>1, <1>4 DEF Ordered
    <3>3. QED
      BY <2>1, <3>1, <3>2 DEF PlaceOf
  <2>2. QED
    BY <2>1 DEF Whole
<1>7. CASE Sequence(u)!ReadSwap(t)
  <2>1. seqPc[t] = "readSwap" /\ seqPc'[t] = "return" /\ oldValue'[t] = value
    BY <1>1, <1>2, <1>7 DEF Sequence!ReadSwap
  <2>2. Sequence(u)!SwapsOrder
    BY <1>1, <2>1 DEF PlaceOf
  <2>3. QED
    BY <2>1, <2>2, <1>6
<1>8. CASE Sequence(u)!ReadValue(t)
  <2> DEFINE LO == Sequence(u)!LocksOrder
             next == IF u.ReadOp = "getOrder" /\ LO THEN "unlock"
                     ELSE IF Sequence(u)!EndsWithLoad(u.ReadOp) THEN "return" ELSE "readSwap"
  <2>1. seqPc[t] = "read" /\ Sequence(u)!Load(t, next) /\ next \in {"unlock", "return", "readSwap"}
    BY <1>8 DEF Sequence!ReadValue
  <2> HIDE DEF next
  <2>2. /\ \/ seen'[t] = {} /\ seqPc'[t] = next
           \/ seen'[t] # {} /\ seqPc'[t] = "read"
        /\ oldValue'[t] \in Sequence(u)!Pairs
        /\ \A w \in {"hi", "lo"} :
              \/ w \in seen[t] /\ oldValue'[t][w] = oldValue[t][w]
              \/ oldValue'[t][w] = value[w]
              \/ seen'[t] # {}
        /\ Sequence(u)!Wide(build) => oldValue'[t] = value
    <3>1. /\ oldValue' \in [C -> Sequence(u)!Pairs]
          /\ \/ seen'[t] = {} /\ seqPc' = [seqPc EXCEPT ![t] = next]
             \/ seen'[t] # {} /\ seqPc' = seqPc
          /\ \A w \in {"hi", "lo"} :
              \/ w \in seen[t] /\ oldValue'[t][w] = oldValue[t][w]
              \/ oldValue'[t][w] = value[w]
              \/ seen'[t] # {}
          /\ Sequence(u)!Wide(build) => oldValue'[t] = value
      BY <2>1, <1>1, <1>3, LoadEffect
    <3>2. QED
      BY <3>1, <2>1, <1>1, <1>2
  <2>3. CASE seen'[t] # {} \/ next = "readSwap"
    BY <2>1, <2>2, <2>3
  <2>4. CASE seen'[t] = {} /\ next # "readSwap"
    <3>1. seqPc'[t] \in {"unlock", "return"}
      BY <2>1, <2>2, <2>4
    <3>2. CASE Sequence(u)!Wide(build)
      BY <3>1, <3>2, <2>2, <1>5
    <3>3. CASE ~Sequence(u)!Wide(build)
      <4>1. LO
        BY <2>4, <3>3, <1>4
           DEF next, Sequence!LocksOrder, Sequence!EndsWithLoad, Sequence!SwapsOrder
      <4>2. Sequence(u)!Holds(t)
        BY <4>1, <2>1, <3>3, <1>4, HoldsWhere
      <4>3. \A w \in seen[t] : oldValue[t][w] = value[w]
        BY <4>2, <2>1 DEF ReaderInv
      <4>4. oldValue'[t] = value
        <5>1. \A w \in {"hi", "lo"} : oldValue'[t][w] = value[w]
          BY <4>3, <2>2, <2>4
        <5>2. QED
          BY <5>1, <2>2, <1>2
      <4>5. Whole(u)
        BY <4>1, <4>2, <2>1, <1>1, HolderAlone DEF Whole
      <4>6. QED
        BY <3>1, <4>4, <4>5
    <3>4. QED
      BY <3>2, <3>3
  <2>5. QED
    BY <2>3, <2>4
<1>9. QED
  BY <1>7, <1>8

LEMMA ReaderInvStep ==
  ASSUME NEW u \in Uses, SequenceTypes(u), Places(u), Writable(u), Stored(u),
         Sequence(u)!SpinLockExclusive, Sequence(u)!WholeWrites, Sequence(u)!WholeReads, Sole(u),
         u.Owners = {} => ClaimInv(u), u.Owners # {} => OwnerValue(u), ReaderInv(u),
         NEW t \in Sequence(u)!Callers, Sequence(u)!Step(t)
  PROVE  ReaderInv(u)'
<1> DEFINE C == Sequence(u)!Callers
           st == Sequence(u)!Settled
           sn == Sequence(u)!Settled'
           be == Sequence(u)!Started
           bn == Sequence(u)!Started'
           V(p) == Sequence(u)!Value(p)
<1>1. st <= sn /\ be <= bn /\ sn \in Int /\ bn \in Int
  BY NewestGrow
<1>2. /\ st \in Int /\ be \in Int
      /\ Whole(u) => V(value) \in Written(u) /\ st <= V(value) /\ V(value) <= be
  BY ValueFresh
<1>3. \A v \in Written(u) : v \in Int
  BY UseFacts DEF Written
<1>4. /\ build' = build
      /\ \A o \in C : o # t =>
              /\ seqPc'[o] = seqPc[o] /\ seen'[o] = seen[o] /\ newValue'[o] = newValue[o]
              /\ oldValue'[o] = oldValue[o] /\ since'[o] = since[o]
              /\ seqResult'[o] = seqResult[o] /\ calls'[o] = calls[o]
  BY OthersStay
<1>5. SUFFICES ASSUME NEW r \in u.Readers
      PROVE  /\ since'[r] \in Int
             /\ seqPc'[r] # "idle" => since'[r] <= sn
             /\ seqPc'[r] \in {"unlock", "return"} =>
                  /\ V(oldValue'[r]) \in Written(u)
                  /\ since'[r] <= V(oldValue'[r]) /\ V(oldValue'[r]) <= bn
             /\ seqPc'[r] = "idle" /\ calls'[r] > 0 =>
                  /\ seqResult'[r] \in Written(u)
                  /\ since'[r] <= seqResult'[r] /\ seqResult'[r] <= bn
             /\ seqPc'[r] = "read" /\ Sequence(u)!Holds(r)' =>
                  \A w \in seen'[r] : oldValue'[r][w] = value'[w]
  BY DEF ReaderInv, Written, Sequence!MAX_VALUE, Sequence!Value
<1>6. /\ since[r] \in Int
      /\ seqPc[r] # "idle" => since[r] <= st
      /\ seqPc[r] \in {"unlock", "return"} =>
           /\ V(oldValue[r]) \in Written(u)
           /\ since[r] <= V(oldValue[r]) /\ V(oldValue[r]) <= be
      /\ seqPc[r] = "idle" /\ calls[r] > 0 =>
           /\ seqResult[r] \in Written(u)
           /\ since[r] <= seqResult[r] /\ seqResult[r] <= be
      /\ seqPc[r] = "read" /\ Sequence(u)!Holds(r) =>
           \A w \in seen[r] : oldValue[r][w] = value[w]
  BY DEF ReaderInv
<1>7. r \in C /\ r \notin u.Owners /\ r \notin u.Claimers /\ PlaceOf(u, r)
  BY Kinds DEF Places
<1>8. /\ seqPc \in [C -> SequencePlaces] /\ seen \in [C -> Parts] /\ calls \in [C -> Nat]
      /\ seqResult \in [C -> Int] /\ oldValue \in [C -> Sequence(u)!Pairs] /\ DOMAIN since = C
  BY DEF SequenceTypes
<1> HIDE DEF st, sn, be, bn, V, C
<1>9. CASE r # t
  <2>1. /\ seqPc'[r] = seqPc[r] /\ seen'[r] = seen[r] /\ newValue'[r] = newValue[r]
        /\ oldValue'[r] = oldValue[r] /\ since'[r] = since[r]
        /\ seqResult'[r] = seqResult[r] /\ calls'[r] = calls[r]
    BY <1>4, <1>7, <1>9
  <2>2. Sequence(u)!Holds(r)' <=> Sequence(u)!Holds(r)
    BY <1>4, <2>1, OthersHold
  <2>3. seqPc[r] = "read" /\ Sequence(u)!Holds(r) => value' = value
    <3>1. seqPc[r] = "read" /\ Sequence(u)!Holds(r) => Sequence(u)!LocksOrder
      BY HoldsWhere
    <3>2. QED
      BY <3>1, <1>7, <1>9, HolderAlone DEF C
  <2>4. seqPc'[r] = "read" /\ Sequence(u)!Holds(r)' =>
          \A w \in seen'[r] : oldValue'[r][w] = value'[w]
    BY <2>1, <2>2, <2>3, <1>6
  <2>5. QED
    BY <2>1, <2>4, <1>1, <1>2, <1>3, <1>6
<1>10. CASE r = t
  <2>1. value' = value
    BY <1>10, ReaderSteps
  <2>2. \/ Sequence(u)!Lock(r) \/ Sequence(u)!Unlock(r) \/ Sequence(u)!Return(r)
        \/ Sequence(u)!BeginRead(r) \/ Sequence(u)!ReadValue(r) \/ Sequence(u)!ReadSwap(r)
    BY <1>7, <1>10
       DEF PlaceOf, Sequence!Step, Sequence!BeginWrite, Sequence!WriteValue,
           Sequence!PeekValue, Sequence!Exchange, Sequence!ClaimGet, Sequence!ClaimSwap,
           Sequence!ClaimCompare, Sequence!ClaimStore
  <2>3. CASE Sequence(u)!Lock(r)
    <3>1. seqPc[r] = "lockRead" /\ seqPc'[r] = "read" /\ since' = since /\ seen' = seen
      BY <2>3, <1>7, <1>8 DEF Sequence!Lock, PlaceOf
    <3>2. seen[r] = {}
      BY <3>1, <1>7 DEF PlaceOf
    <3>3. QED
      BY <3>1, <3>2, <1>1, <1>2, <1>6
  <2>4. CASE Sequence(u)!Unlock(r)
    <3>1. /\ seqPc[r] = "unlock" /\ seqPc'[r] = "return" /\ since' = since
          /\ oldValue' = oldValue
      BY <2>4, <1>7, <1>8 DEF Sequence!Unlock, PlaceOf
    <3>2. QED
      BY <3>1, <1>1, <1>2, <1>3, <1>6
  <2>5. CASE Sequence(u)!Return(r)
    <3>1. /\ seqPc[r] = "return" /\ seqPc'[r] = "idle" /\ since' = since
          /\ seqResult'[r] = V(oldValue[r])
      BY <2>5, <1>7, <1>8 DEF Sequence!Return, V
    <3>2. QED
      BY <3>1, <1>1, <1>2, <1>3, <1>6
  <2>6. CASE Sequence(u)!BeginRead(r)
    <3>1. /\ seqPc[r] = "idle" /\ seqPc'[r] \in {"lockRead", "read"} /\ since'[r] = st
          /\ seen' = seen
      BY <2>6, <1>7, <1>8 DEF Sequence!BeginRead, st
    <3>2. seen[r] = {}
      BY <3>1, <1>7 DEF PlaceOf
    <3>3. QED
      BY <3>1, <3>2, <1>1, <1>2
  <2>7. CASE Sequence(u)!ReadValue(r) \/ Sequence(u)!ReadSwap(r)
    <3>1. since' = since /\ newValue' = newValue /\ seqPc[r] \in {"read", "readSwap"}
      BY <2>7 DEF Sequence!ReadValue, Sequence!ReadSwap
    <3>2. \/ seqPc'[r] \in {"read", "readSwap"}
          \/ /\ seqPc'[r] \in {"unlock", "return"} /\ oldValue'[r] = value /\ Whole(u)
      BY <2>7, ReadDone
    <3>3. since'[r] \in Int /\ since'[r] <= sn /\ since'[r] <= st
      BY <3>1, <1>1, <1>2, <1>6
    <3>4. seqPc'[r] \in {"unlock", "return"} =>
            /\ V(oldValue'[r]) \in Written(u)
            /\ since'[r] <= V(oldValue'[r]) /\ V(oldValue'[r]) <= bn
      BY <3>2, <3>3, <1>1, <1>2, <1>3
    <3>5. seqPc'[r] = "read" /\ Sequence(u)!Holds(r)' =>
            \A w \in seen'[r] : oldValue'[r][w] = value'[w]
      <4>1. SUFFICES ASSUME seqPc'[r] = "read", Sequence(u)!Holds(r)', NEW w \in seen'[r]
                     PROVE  oldValue'[r][w] = value[w]
        BY <2>1
      <4>2. Sequence(u)!ReadValue(r)
        BY <2>7, <4>1, <1>7, <1>8 DEF Sequence!ReadSwap
      <4>3. seqPc[r] = "read" /\ \E next : Sequence(u)!Load(r, next)
        BY <4>2 DEF Sequence!ReadValue
      <4>4. PICK next : Sequence(u)!Load(r, next)
        BY <4>3
      <4>5. /\ seen' \in [C -> Parts]
            /\ \A x \in {"hi", "lo"} :
                 \/ x \in seen[r] /\ oldValue'[r][x] = oldValue[r][x]
                 \/ oldValue'[r][x] = value[x]
                 \/ x \notin seen'[r]
        <5>1. Sequence(u)!Wide(build) => seen[r] = {}
          BY <1>7 DEF PlaceOf
        <5>2. QED
          BY <4>4, <5>1, <1>7, LoadEffect DEF C
      <4>6. w \in {"hi", "lo"}
        BY <4>1, <4>5, <1>7 DEF Parts
      <4>7. Sequence(u)!Holds(r)
        BY <3>1, <4>1, <4>3, <1>4, OthersHold
      <4>8. QED
        BY <4>3, <4>5, <4>6, <4>7, <1>6
    <3>6. seqPc'[r] # "idle"
      BY <3>2
    <3>7. QED
      BY <3>3, <3>4, <3>5, <3>6
  <2>8. QED
    BY <2>2, <2>3, <2>4, <2>5, <2>6, <2>7
<1>11. QED
  BY <1>9, <1>10

-----------------------------------------------------------------------------
(* The sequences of every use                                               *)

\* The inductive invariant of a sequence: the types, where each thread may be, what its
\* store has done and still has to do, the lock; then what the kind of its writers adds.
SequenceInv(u) ==
  /\ SequenceTypes(u) /\ Places(u) /\ Writable(u) /\ Stored(u)
  /\ Sequence(u)!SpinLockExclusive
  /\ u.Owners = {} => ClaimInv(u)
  /\ u.Owners # {} /\ Sequence(u)!WholeWrites =>
       LastWrite(u) /\ (Sole(u) => OwnerValue(u))
  /\ Sequence(u)!WholeWrites /\ Sequence(u)!WholeReads /\ Sole(u) => ReaderInv(u)

LEMMA SequenceInvInit ==
  ASSUME NEW u \in Uses, Sequence(u)!Init
  PROVE  SequenceInv(u)
<1> DEFINE C == Sequence(u)!Callers
<1>1. /\ build \in u.Builds /\ value = Sequence(u)!Split(-1) /\ lock = 0
      /\ seqPc = [t \in C |-> "idle"] /\ oldValue = [t \in C |-> Sequence(u)!Split(-1)]
      /\ newValue = [t \in C |-> -1] /\ seen = [t \in C |-> {}] /\ since = [t \in C |-> -1]
      /\ seqResult = [t \in C |-> -1] /\ calls = [t \in C |-> 0]
  BY DEF Sequence!Init, Sequence!INITIAL_CURSOR_VALUE, Sequence!Free
<1>2. /\ Half(u) \in Nat /\ Sequence(u)!MAX_VALUE = Half(u) - 1 /\ u.LastValue \in Nat
      /\ u.LastValue + Cardinality(u.Claimers) < Half(u) - 1
      /\ IsFiniteSet(u.Claimers) /\ Cardinality(u.Claimers) \in Nat
  BY UseFacts
<1>3. -1 \in (-Half(u))..(Half(u) - 1)
  BY <1>2
<1>4. Sequence(u)!Split(-1) \in Sequence(u)!Pairs /\ Sequence(u)!Value(Sequence(u)!Split(-1)) = -1
  BY <1>3, SplitValue
<1>5. /\ C = u.Claimers \union u.Owners \union u.Readers
      /\ \A t \in C : /\ seqPc[t] = "idle" /\ seen[t] = {} /\ newValue[t] = -1 /\ since[t] = -1
                      /\ calls[t] = 0 /\ seqResult[t] = -1
  BY <1>1, Kinds
<1>6. SequenceTypes(u)
  BY <1>1, <1>4 DEF SequenceTypes, SequencePlaces, Parts
<1> HIDE DEF C
<1>7. Places(u)
  <2>1. -1 \in (-1)..u.LastValue
    BY <1>2
  <2>2. QED
    BY <1>5, <2>1 DEF Places, PlaceOf, C
<1>8. Writable(u)
  BY <1>2, <1>5 DEF Writable, C
<1>9. Stored(u)
  BY <1>5 DEF Stored, C
<1>10. Sequence(u)!SpinLockExclusive
  <2>1. \A t \in C : ~Sequence(u)!Holds(t)
    BY <1>5, HoldsWhere
  <2>2. QED
    BY <2>1, <1>1 DEF Sequence!SpinLockExclusive, Sequence!Held, C
<1>11. ClaimInv(u)
  <2>1. Sequence(u)!Claims = {}
    <3>1. \A c \in u.Claimers : calls[c] = 0
      BY <1>5
    <3>2. \A x : x \in Sequence(u)!Claims <=>
                   \E c \in u.Claimers : \E num \in 1..calls[c] : x = <<c, num>>
      BY DEF Sequence!Claims
    <3>3. QED
      BY <3>1, <3>2
  <2>2. LastClaim(u) = -1 /\ IsFiniteSet(Sequence(u)!Claims)
    BY <2>1, FS_EmptySet DEF LastClaim
  <2>3. Active(u) = {}
    BY <1>5 DEF Active
  <2>4. Cardinality(Active(u)) = 0
    BY <2>3, FS_EmptySet
  <2>5. Sequence(u)!Value(value) = -1
    BY <1>1, <1>4
  <2>6. \A c \in u.Claimers : seqResult[c] = -1 /\ seqPc[c] = "idle"
    BY <1>5
  <2>7. QED
    BY <2>2, <2>4, <2>5, <2>6, <1>2
       DEF ClaimInv, Sequence!ClaimsApart, Sequence!INITIAL_CURSOR_VALUE
<1>12. LastWrite(u) /\ OwnerValue(u)
  BY <1>1, <1>5 DEF LastWrite, OwnerValue
<1>13. ReaderInv(u)
  BY <1>5 DEF ReaderInv
<1>14. QED
  BY <1>6, <1>7, <1>8, <1>9, <1>10, <1>11, <1>12, <1>13 DEF SequenceInv

LEMMA SequenceInvStep ==
  ASSUME NEW u \in Uses, SequenceInv(u), Sequence(u)!Next
  PROVE  SequenceInv(u)'
<1>1. PICK t \in Sequence(u)!Callers : Sequence(u)!Step(t)
  BY SequenceStepCases
<1>2. /\ SequenceTypes(u) /\ Places(u) /\ Writable(u) /\ Stored(u)
      /\ Sequence(u)!SpinLockExclusive
      /\ u.Owners = {} => ClaimInv(u)
      /\ u.Owners # {} /\ Sequence(u)!WholeWrites => LastWrite(u) /\ (Sole(u) => OwnerValue(u))
      /\ Sequence(u)!WholeWrites /\ Sequence(u)!WholeReads /\ Sole(u) => ReaderInv(u)
  BY DEF SequenceInv
<1>3. build' = build
  BY <1>1, <1>2, OthersStay
<1>4. /\ Sequence(u)!WholeWrites' <=> Sequence(u)!WholeWrites
      /\ Sequence(u)!WholeReads' <=> Sequence(u)!WholeReads
  BY <1>3 DEF Sequence!WholeWrites, Sequence!WholeReads, Sequence!Wide
<1>5. /\ SequenceTypes(u)' /\ Places(u)' /\ Writable(u)' /\ Stored(u)'
      /\ Sequence(u)!SpinLockExclusive'
  BY <1>1, <1>2, SequenceTypesStep, PlacesStep, WritableStep, StoredStep, SpinLockStep
<1>6. u.Owners = {} => ClaimInv(u)'
  BY <1>1, <1>2, ClaimStep
<1>7. u.Owners # {} /\ Sequence(u)!WholeWrites => LastWrite(u)' /\ (Sole(u) => OwnerValue(u)')
  BY <1>1, <1>2, OwnerInvStep DEF Sole
<1>8. Sequence(u)!WholeWrites /\ Sequence(u)!WholeReads /\ Sole(u) => ReaderInv(u)'
  BY <1>1, <1>2, ReaderInvStep
<1>9. QED
  BY <1>4, <1>5, <1>6, <1>7, <1>8 DEF SequenceInv, Sole

LEMMA SequenceInvKept ==
  ASSUME NEW u \in Uses, SequenceInv(u), UNCHANGED ownSequence
  PROVE  SequenceInv(u)'
<1>1. /\ build' = build /\ value' = value /\ lock' = lock /\ seqPc' = seqPc
      /\ oldValue' = oldValue /\ newValue' = newValue /\ seen' = seen /\ since' = since
      /\ seqResult' = seqResult /\ calls' = calls
  BY DEF ownSequence
<1>2. /\ SequenceTypes(u)' <=> SequenceTypes(u)
      /\ Places(u)' <=> Places(u)
      /\ Writable(u)' <=> Writable(u)
  BY <1>1 DEF SequenceTypes, Places, PlaceOf, Ordered, Writable, Sequence!LocksOrder,
              Sequence!SwapsOrder, Sequence!Wide, Sequence!SpinLock, Sequence!MAX_VALUE,
              Sequence!Callers, Sequence!Pairs, Sequence!Words, Sequence!Word
<1>3. /\ Sequence(u)!WholeWrites' <=> Sequence(u)!WholeWrites
      /\ Sequence(u)!WholeReads' <=> Sequence(u)!WholeReads
      /\ \A v : Sequence(u)!Split(v)' = Sequence(u)!Split(v)
      /\ \A v : Sequence(u)!Before(v)' = Sequence(u)!Before(v)
      /\ \A p : Sequence(u)!Value(p)' = Sequence(u)!Value(p)
  BY <1>1 DEF Sequence!WholeWrites, Sequence!WholeReads, Sequence!Wide, Sequence!Split,
              Sequence!Words, Sequence!Before, Sequence!Value, Sequence!MAX_VALUE
<1>4. Stored(u)' <=> Stored(u)
  BY <1>1 DEF Stored, Sequence!Split, Sequence!Words, Sequence!Callers, Sequence!WholeWrites,
              Sequence!Wide
<1>5. \A t : Sequence(u)!Holds(t)' <=> Sequence(u)!Holds(t)
  BY <1>1, OthersHold
<1>6. Sequence(u)!SpinLockExclusive' <=> Sequence(u)!SpinLockExclusive
  BY <1>1, <1>5 DEF Sequence!SpinLockExclusive, Sequence!Callers, Sequence!Held
<1>7. ClaimInv(u)' <=> ClaimInv(u)
  <2>1. Sequence(u)!Claims' = Sequence(u)!Claims /\ Active(u)' = Active(u)
    BY <1>1 DEF Sequence!Claims, Active
  <2>2. LastClaim(u)' = LastClaim(u)
    BY <2>1 DEF LastClaim
  <2>3. Sequence(u)!ClaimsApart' <=> Sequence(u)!ClaimsApart
    BY <1>1 DEF Sequence!ClaimsApart, Sequence!INITIAL_CURSOR_VALUE
  <2>4. QED
    BY <1>1, <2>1, <2>2, <2>3 DEF ClaimInv, Sequence!Value
<1>8. LastWrite(u)' <=> LastWrite(u)
  BY <1>1 DEF LastWrite, Sequence!Split, Sequence!Words
<1>9. OwnerValue(u)' <=> OwnerValue(u)
  BY <1>1 DEF OwnerValue, Sequence!Split, Sequence!Words, Sequence!Before, Sequence!MAX_VALUE
<1>10. ReaderInv(u)' <=> ReaderInv(u)
  <2>1. Sequence(u)!Settled' = Sequence(u)!Settled /\ Sequence(u)!Started' = Sequence(u)!Started
    BY <1>1, NewestOf
  <2>2. QED
    BY <1>1, <1>5, <2>1 DEF ReaderInv, Written, Sequence!MAX_VALUE, Sequence!Value
<1>11. QED
  BY <1>2, <1>3, <1>4, <1>6, <1>7, <1>8, <1>9, <1>10 DEF SequenceInv, Sole

PrimitivesIInv == \A u \in Uses : IsSequence(u) => SequenceInv(u)

\* Every use of a sequence keeps its invariant, and a wait touches no sequence.
LEMMA PrimitivesInductive == PrimitivesSpec => []PrimitivesIInv
<1>1. PrimitivesInit => PrimitivesIInv
  <2>1. SUFFICES ASSUME PrimitivesInit, NEW u \in Uses, IsSequence(u)
                 PROVE  SequenceInv(u)
    BY DEF PrimitivesIInv
  <2>2. part = "sequence" /\ use = u
    BY <2>1 DEF IsSequence
  <2>3. Sequence(u)!Init
    BY <2>1, <2>2 DEF PrimitivesInit, IsSequence
  <2>4. QED
    BY <2>3, SequenceInvInit
<1>2. PrimitivesIInv /\ [PrimitivesNext]_primitiveVars => PrimitivesIInv'
  <2>1. SUFFICES ASSUME PrimitivesIInv, [PrimitivesNext]_primitiveVars,
                        NEW u \in Uses, IsSequence(u)'
                 PROVE  SequenceInv(u)'
    BY DEF PrimitivesIInv
  <2>2. part' = "sequence" /\ use' = u
    BY <2>1 DEF IsSequence
  <2>3. CASE \E v \in Uses : IsSequence(v) /\ Sequence(v)!Next /\ KeepSequence
    <3>1. PICK v \in Uses : IsSequence(v) /\ Sequence(v)!Next /\ KeepSequence
      BY <2>3
    <3>2. v = u
      BY <2>2, <3>1 DEF IsSequence, KeepSequence
    <3>3. SequenceInv(u)
      BY <2>1, <3>1, <3>2 DEF PrimitivesIInv
    <3>4. QED
      BY <3>1, <3>2, <3>3, SequenceInvStep
  <2>4. CASE part = "wait" /\ Wait!Next /\ KeepWait
    BY <2>2, <2>4 DEF KeepWait
  <2>5. CASE UNCHANGED primitiveVars
    <3>1. IsSequence(u) /\ UNCHANGED ownSequence
      BY <2>2, <2>5 DEF IsSequence, primitiveVars
    <3>2. QED
      BY <2>1, <3>1, SequenceInvKept DEF PrimitivesIInv
  <2>6. QED
    BY <2>1, <2>3, <2>4, <2>5 DEF PrimitivesNext, Ends
<1>3. QED
  BY <1>1, <1>2, PTL DEF PrimitivesSpec

\* The variables of a sequence have their types, and seq_spinlock is held by one
\* access at a time, exactly while that access is under way.
THEOREM PrimitivesCorrect == PrimitivesSpec => []PrimitivesInv
<1>1. PrimitivesIInv => PrimitivesInv
  <2>1. SUFFICES ASSUME PrimitivesIInv, NEW u \in Uses, IsSequence(u)
                 PROVE  Sequence(u)!TypeOK /\ Sequence(u)!SpinLockExclusive
    BY DEF PrimitivesInv
  <2>2. SequenceTypes(u) /\ Writable(u) /\ Sequence(u)!SpinLockExclusive
    BY <2>1 DEF PrimitivesIInv, SequenceInv
  <2>3. \A t \in Sequence(u)!Callers : seen[t] \in (SUBSET Sequence(u)!Words) \ {Sequence(u)!Words}
    <3>1. \A t \in Sequence(u)!Callers : seen[t] \in Parts
      BY <2>2 DEF SequenceTypes
    <3>2. \A s \in Parts : s \in SUBSET {"hi", "lo"} /\ s # {"hi", "lo"}
      <4>1. "hi" # "lo"
        OBVIOUS
      <4>2. QED
        BY <4>1 DEF Parts
    <3>3. QED
      BY <3>1, <3>2 DEF Sequence!Words
  <2>4. QED
    BY <2>2, <2>3 DEF Sequence!TypeOK, SequenceTypes, Writable, Sequence!Free, Sequence!Held,
                      Sequence!INITIAL_CURSOR_VALUE
<1>2. QED
  BY <1>1, PrimitivesInductive, PTL

\* A compareAndSwap that succeeds moves the sequence by one, no two claim the same
\* value, and the writers of a sequence leave in it what one of them wrote last.
THEOREM WritesKept == PrimitivesSpec => []NoWriteLost
<1>1. PrimitivesIInv => NoWriteLost
  <2>1. SUFFICES ASSUME PrimitivesIInv, NEW u \in Uses, IsSequence(u)
                 PROVE  /\ Sequence(u)!ClaimsCounted /\ Sequence(u)!ClaimsApart
                        /\ Sequence(u)!FinalWrite
    BY DEF NoWriteLost
  <2>2. SequenceInv(u)
    BY <2>1 DEF PrimitivesIInv
  <2>3. ASSUME u.Owners = {} PROVE Sequence(u)!ClaimsApart
    BY <2>2, <2>3 DEF SequenceInv, ClaimInv
  <2>4. ASSUME u.Owners = {}, \A c \in u.Claimers : seqPc[c] # "store"
        PROVE  Sequence(u)!Value(value) = -1 + Sequence(u)!Cardinality(Sequence(u)!Claims)
    <3>1. ClaimInv(u)
      BY <2>2, <2>4 DEF SequenceInv
    <3>2. Sequence(u)!Value(value) = LastClaim(u) /\ IsFiniteSet(Sequence(u)!Claims)
      BY <2>4, <3>1 DEF ClaimInv
    <3>3. Cardinality(Sequence(u)!Claims) \in Nat
      BY <3>2, FS_CardinalityType
    <3>4. QED
      BY <3>2, <3>3, SequenceCardinality DEF LastClaim
  <2>5. ASSUME u.Owners # {} PROVE Sequence(u)!ClaimsApart
    BY <2>5, Kinds DEF Sequence!ClaimsApart
  <2>6. ASSUME Sequence(u)!WholeWrites, u.Owners # {},
               \A o \in u.Owners : seqPc[o] = "idle" /\ newValue[o] # -1
        PROVE  Sequence(u)!Value(value) \in {newValue[o] : o \in u.Owners}
    <3>1. LastWrite(u)
      BY <2>2, <2>6 DEF SequenceInv
    <3>2. PICK o \in u.Owners : value = Sequence(u)!Split(newValue[o])
      BY <2>6, <3>1 DEF LastWrite
    <3>3. Sequence(u)!Value(value) = newValue[o]
      BY <2>2, <3>2, AccessFacts, Kinds DEF SequenceInv
    <3>4. QED
      BY <3>3
  <2>7. QED
    BY <2>3, <2>4, <2>5, <2>6
       DEF Sequence!ClaimsCounted, Sequence!FinalWrite, Sequence!INITIAL_CURSOR_VALUE
<1>2. QED
  BY <1>1, PrimitivesInductive, PTL

\* A read returns a value some thread wrote, no older than the newest complete when
\* it began and no newer than the newest begun, also word by word.
THEOREM ReadsFresh == PrimitivesSpec => []ReadFresh
<1>1. PrimitivesIInv => ReadFresh
  <2>1. SUFFICES ASSUME PrimitivesIInv, NEW u \in Uses, IsSequence(u),
                        Sequence(u)!WholeWrites, Sequence(u)!WholeReads,
                        \A o, p \in u.Owners : o = p
                 PROVE  \A t \in u.Readers : seqPc[t] = "idle" /\ calls[t] > 0 =>
                          /\ seqResult[t] \in
                               ((-1)..(u.LastValue + Sequence(u)!Cardinality(u.Claimers)))
                                 \union {Sequence(u)!MAX_VALUE}
                          /\ since[t] <= seqResult[t] /\ seqResult[t] <= Sequence(u)!Started
    BY DEF ReadFresh, Sequence!ReadFresh, Sequence!INITIAL_CURSOR_VALUE
  <2>2. ReaderInv(u)
    BY <2>1 DEF PrimitivesIInv, SequenceInv, Sole
  <2>3. QED
    BY <2>2, SequenceCardinality DEF ReaderInv, Written
<1>2. QED
  BY <1>1, PrimitivesInductive, PTL
=============================================================================
