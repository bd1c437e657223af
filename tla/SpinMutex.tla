------------------------------- MODULE SpinMutex -------------------------------
(***************************************************************************)
(* SpinMutex::lock, tryLock and unlock (include/RingQueue/SpinMutex.h).    *)
(* Nothing in the repository calls tryLock; the caller modelled here       *)
(* unlocks exactly what it really took, so that the lock word and the      *)
(* value tryLock returns can be judged separately.                         *)
(***************************************************************************)
EXTENDS Naturals, FiniteSets

CONSTANTS Threads

kUnlocked == 0
kLocked == 1

VARIABLES
  Status,  \* core.Status
  pc,      \* where each thread is
  result   \* what each thread's last tryLock returned, "none" before it did

vars == <<Status, pc, result>>

Init ==
  /\ Status = kUnlocked
  /\ pc = [th \in Threads |-> "outside"]
  /\ result = [th \in Threads |-> "none"]

Goto(th, where) == pc' = [pc EXCEPT ![th] = where]
Return(th, value) == result' = [result EXCEPT ![th] = value]

\* Mutant: the old value is not looked at.
LockXchgBlind(th) ==
  /\ pc[th] = "outside"
  /\ Status' = kLocked
  /\ Goto(th, "critical")
  /\ Return(th, "none")

\* lock: the first try is an exchange
LockXchg(th) ==
  /\ pc[th] = "outside"
  /\ Status' = kLocked
  /\ Goto(th, IF Status = kUnlocked THEN "critical" ELSE "spin")
  /\ Return(th, "none")

\* lock: back off and CAS until it succeeds; a CAS that fails changes nothing
LockCAS(th) ==
  /\ pc[th] = "spin" /\ Status = kUnlocked
  /\ Status' = kLocked
  /\ Goto(th, "critical")
  /\ UNCHANGED result

\* tryLock: an exchange; return kLocked when the word was free
TryXchg(th) ==
  /\ pc[th] = "outside"
  /\ Status' = kLocked
  /\ IF Status = kUnlocked
       THEN Goto(th, "critical") /\ Return(th, "true")
       ELSE Goto(th, "try_again") /\ Return(th, "none")

\* tryLock: one CAS after nSpinCount pauses;
\* return isLocked = (the old value # kUnlocked)
TryCAS(th) ==
  /\ pc[th] = "try_again"
  /\ Status' = kLocked
  /\ Goto(th, IF Status = kUnlocked THEN "critical" ELSE "outside")
  /\ Return(th, IF Status # kUnlocked THEN "true" ELSE "false")

Unlock(th) ==
  /\ pc[th] = "critical"
  /\ Status' = kUnlocked
  /\ Goto(th, "outside")
  /\ Return(th, "none")

Step(th) == LockXchg(th) \/ LockCAS(th) \/ TryXchg(th) \/ TryCAS(th) \/ Unlock(th)

Next == \E th \in Threads : Step(th)

Spec == Init /\ [][Next]_vars

-------------------------------------------------------------------------------
\* Every variable stays within its type.
TypeOK ==
  /\ Status \in {kUnlocked, kLocked}
  /\ pc \in [Threads -> {"outside", "spin", "try_again", "critical"}]
  /\ result \in [Threads -> {"true", "false", "none"}]

\* lock and tryLock hand the word to one thread at a time, although both write
\* kLocked over it before they know whether it was free.
MutualExclusion ==
  \A a, b \in Threads : a # b => ~(pc[a] = "critical" /\ pc[b] = "critical")

\* The word is set exactly while a thread is inside: an exchange or CAS that
\* loses never leaves it set with nobody to clear it.
WordMeansOwner == Status = kLocked <=> \E th \in Threads : pc[th] = "critical"

\* The word tells whether somebody is inside; with exclusion it tells that one
\* thread is.  Neither half is inductive alone: a thread gets in because the word
\* is clear, and clears it because no other is inside.
Inv == TypeOK /\ MutualExclusion /\ WordMeansOwner

\* tryLock returns true exactly when the caller now holds the lock.
TryLockTruthful ==
  \A th \in Threads : result[th] # "none" => (result[th] = "true" <=> pc[th] = "critical")

===============================================================================
