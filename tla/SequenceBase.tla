----------------------------- MODULE SequenceBase -----------------------------
(***************************************************************************)
(* One SequenceBase<int64_t> of include/RingQueue/Sequence.h, shared by    *)
(* the threads the rings use it from: claimers that advance it with get    *)
(* and compareAndSwap (cursor, workSequence), owners that write it (a      *)
(* consumer's gating sequence, gatingSequenceCache) and readers.  A 64-bit *)
(* value is two words: a 32-bit build loads and stores one at a time.      *)
(* With USE_SEQUENCE_SPIN_LOCK the accesses the header synchronizes hold   *)
(* the one lock of seq_spinlock.                                           *)
(***************************************************************************)
EXTENDS Integers, FiniteSets

CONSTANTS
  Builds,          \* builds to check, a subset of the four below
  WordModulus,     \* 2^32 in the code
  Claimers, Owners, Readers,
  WriteOp, ReadOp, \* "set" or "setOrder"; "get" or "getOrder"
  LastValue,       \* once it is written or claimed, no write but setMaxValue's
                   \* begins, and no claim: a bound
  MaxReads         \* calls of a reader: a bound

\* A build: x64, i386, and either with USE_SEQUENCE_SPIN_LOCK.
Wide(b) == b \in {"x64", "x64_lock"}
SpinLock(b) == b \in {"x64_lock", "i386_lock"}

INITIAL_CURSOR_VALUE == -1
MAX_VALUE == (WordModulus * WordModulus) \div 2 - 1

SequenceAssumption ==
  /\ Builds \subseteq {"x64", "i386", "x64_lock", "i386_lock"}
  /\ WordModulus \in Nat /\ WordModulus >= 2 /\ WordModulus % 2 = 0
  /\ Claimers = {} \/ Owners = {}      \* as the rings use a sequence
  /\ Readers \intersect (Claimers \union Owners) = {}
  /\ WriteOp \in {"set", "setOrder"} /\ ReadOp \in {"get", "getOrder"}
  /\ IsFiniteSet(Claimers)
  /\ LastValue \in Nat /\ LastValue + Cardinality(Claimers) < MAX_VALUE

Callers == Claimers \union Owners \union Readers
Words == {"hi", "lo"}
Word == 0..(WordModulus - 1)
Pairs == [Words -> Word]

\* The words of an int64_t and back.
Split(v) ==
  LET u == v % (WordModulus * WordModulus) IN
  [w \in Words |-> IF w = "hi" THEN u \div WordModulus ELSE u % WordModulus]
Value(p) ==
  LET u == p["hi"] * WordModulus + p["lo"] IN
  IF 2 * u < WordModulus * WordModulus THEN u ELSE u - WordModulus * WordModulus

VARIABLES
  build,
  value,     \* the words of the sequence
  lock,      \* seq_spinlock_core<T>::lock
  pc,        \* where each thread is
  oldValue,  \* the words it loaded last
  newValue,  \* what it writes
  seen,      \* the words its load or store has done
  since,     \* the newest value written when its read began
  result,    \* what its last read returned
  calls      \* the calls it has completed

vars == <<build, value, lock, pc, oldValue, newValue, seen, since, result, calls>>

Free == 0
Held == 1

Greatest(S) == CHOOSE m \in S : \A v \in S : v <= m

\* What an owner wrote before newValue.
Before(v) == IF v = MAX_VALUE THEN LastValue ELSE v - 1

\* The greatest value whose write is complete, and the greatest whose write
\* has begun.
Settled ==
  Greatest({INITIAL_CURSOR_VALUE} \union {result[c] : c \in Claimers} \union
           {IF pc[o] = "idle" THEN newValue[o] ELSE Before(newValue[o]) :
              o \in {t \in Owners : newValue[t] # INITIAL_CURSOR_VALUE}})
Started ==
  Greatest({INITIAL_CURSOR_VALUE} \union {result[c] : c \in Claimers} \union
           {newValue[t] : t \in Owners \union {c \in Claimers : pc[c] = "store"}})

Init ==
  /\ build \in Builds
  /\ value = Split(INITIAL_CURSOR_VALUE)
  /\ lock = Free
  /\ pc = [t \in Callers |-> "idle"]
  /\ oldValue = [t \in Callers |-> Split(INITIAL_CURSOR_VALUE)]
  /\ newValue = [t \in Callers |-> INITIAL_CURSOR_VALUE]
  /\ seen = [t \in Callers |-> {}]
  /\ since = [t \in Callers |-> INITIAL_CURSOR_VALUE]
  /\ result = [t \in Callers |-> INITIAL_CURSOR_VALUE]
  /\ calls = [t \in Callers |-> 0]

-----------------------------------------------------------------------------
(* Word accesses *)

\* The words one instruction moves, of those still to move.
Portions(t) ==
  IF Wide(build) THEN {Words} ELSE {{w} : w \in Words \ seen[t]}

\* oldValue = this->value; the thread goes on at next with its last word.
Load(t, next) ==
  \E ws \in Portions(t) :
    /\ oldValue' = [oldValue EXCEPT ![t] =
                      [w \in Words |-> IF w \in ws THEN value[w] ELSE oldValue[t][w]]]
    /\ IF seen[t] \union ws = Words
       THEN seen' = [seen EXCEPT ![t] = {}] /\ pc' = [pc EXCEPT ![t] = next]
       ELSE seen' = [seen EXCEPT ![t] = seen[t] \union ws] /\ UNCHANGED pc

\* this->value = newValue.
Store(t, next) ==
  \E ws \in Portions(t) :
    /\ value' = [w \in Words |-> IF w \in ws THEN Split(newValue[t])[w] ELSE value[w]]
    /\ IF seen[t] \union ws = Words
       THEN seen' = [seen EXCEPT ![t] = {}] /\ pc' = [pc EXCEPT ![t] = next]
       ELSE seen' = [seen EXCEPT ![t] = seen[t] \union ws] /\ UNCHANGED pc

-----------------------------------------------------------------------------
(* seq_spinlock *)

\* Mutant: the lock is taken whatever its value.
SpinWaitOpen(t) == lock' = Held

\* spin_wait: its compare-and-swap succeeds.
spin_wait(t) == lock = Free /\ lock' = Held

Lock(t) ==
  /\ pc[t] \in {"lockRead", "lockWrite", "lockSwap"}
  /\ spin_wait(t)
  /\ pc' = [pc EXCEPT ![t] = CASE pc[t] = "lockRead" -> "read"
                              [] pc[t] = "lockWrite" -> "write"
                              [] pc[t] = "lockSwap" -> "compare"]
  /\ UNCHANGED <<build, value, oldValue, newValue, seen, since, result, calls>>

\* Mutant: the lock is never given back.
UnlockKeep(t) ==
  /\ pc[t] \in {"unlock", "unlockSwap"}
  /\ pc' = [pc EXCEPT ![t] = IF pc[t] = "unlock" THEN "return" ELSE "idle"]
  /\ UNCHANGED <<build, value, lock, oldValue, newValue, seen, since, result, calls>>

\* The destructor.
Unlock(t) ==
  /\ pc[t] \in {"unlock", "unlockSwap"}
  /\ lock' = Free
  /\ pc' = [pc EXCEPT ![t] = IF pc[t] = "unlock" THEN "return" ELSE "idle"]
  /\ UNCHANGED <<build, value, oldValue, newValue, seen, since, result, calls>>

-----------------------------------------------------------------------------
(* Reading *)

\* getOrder for 64-bit values takes the lock in a 32-bit build only.
LocksOrder == SpinLock(build) /\ ~Wide(build)
\* A 32-bit build without the lock replaces the value by itself.
SwapsOrder == ~SpinLock(build) /\ ~Wide(build)

\* Mutant: getOrder without its compare-and-swap.
PlainRead(op) == TRUE

\* Whether a read ends with its load.
EndsWithLoad(op) == op = "get" \/ ~SwapsOrder

BeginRead(t) ==
  /\ t \in Readers /\ pc[t] = "idle" /\ calls[t] < MaxReads
  /\ since' = [since EXCEPT ![t] = Settled]
  /\ pc' = [pc EXCEPT ![t] = IF ReadOp = "getOrder" /\ LocksOrder THEN "lockRead" ELSE "read"]
  /\ UNCHANGED <<build, value, lock, oldValue, newValue, seen, result, calls>>

ReadValue(t) ==
  /\ t \in Readers /\ pc[t] = "read"
  /\ Load(t, IF ReadOp = "getOrder" /\ LocksOrder THEN "unlock"
             ELSE IF EndsWithLoad(ReadOp) THEN "return" ELSE "readSwap")
  /\ UNCHANGED <<build, value, lock, newValue, since, result, calls>>

\* val = compare_and_swap64(&value, oldValue, oldValue)
ReadSwap(t) ==
  /\ pc[t] = "readSwap"
  /\ oldValue' = [oldValue EXCEPT ![t] = value]
  /\ pc' = [pc EXCEPT ![t] = "return"]
  /\ UNCHANGED <<build, value, lock, newValue, seen, since, result, calls>>

Return(t) ==
  /\ pc[t] = "return"
  /\ result' = [result EXCEPT ![t] = IF t \in Readers THEN Value(oldValue[t]) ELSE result[t]]
  /\ calls' = [calls EXCEPT ![t] = calls[t] + 1]
  /\ pc' = [pc EXCEPT ![t] = "idle"]
  /\ UNCHANGED <<build, value, lock, oldValue, newValue, seen, since>>

-----------------------------------------------------------------------------
(* Writing *)

\* An owner writes a larger value each time, at last setMaxValue.
BeginWrite(t) ==
  /\ t \in Owners /\ pc[t] = "idle" /\ newValue[t] < MAX_VALUE
  /\ newValue' = [newValue EXCEPT ![t] = IF newValue[t] < LastValue THEN newValue[t] + 1
                                         ELSE MAX_VALUE]
  /\ LET op == IF newValue[t] < LastValue THEN WriteOp ELSE "setOrder" IN
       pc' = [pc EXCEPT ![t] = IF op = "setOrder" /\ LocksOrder THEN "lockWrite"
                               ELSE IF op = "setOrder" /\ SwapsOrder THEN "peek"
                               ELSE "write"]
  /\ UNCHANGED <<build, value, lock, oldValue, seen, since, result, calls>>

WriteValue(t) ==
  /\ pc[t] = "write"
  /\ t \in Owners
  /\ Store(t, IF LocksOrder /\ (WriteOp = "setOrder" \/ newValue[t] = MAX_VALUE)
              THEN "unlock" ELSE "return")
  /\ UNCHANGED <<build, lock, oldValue, newValue, since, result, calls>>

\* Mutant: the load keeps the high word it had.
PeekLow(t) ==
  /\ pc[t] = "peek"
  /\ oldValue' = [oldValue EXCEPT ![t]["lo"] = value["lo"]]
  /\ pc' = [pc EXCEPT ![t] = "exchange"]
  /\ UNCHANGED <<build, value, lock, newValue, seen, since, result, calls>>

\* The loop of setOrder: a load, word by word, ...
PeekValue(t) ==
  /\ pc[t] = "peek"
  /\ Load(t, "exchange")
  /\ UNCHANGED <<build, value, lock, newValue, since, result, calls>>

TestAndSet(t) == value' = Split(newValue[t])

\* ... then an exchange, until that finds the value that was loaded.
Exchange(t) ==
  /\ pc[t] = "exchange"
  /\ TestAndSet(t)
  /\ pc' = [pc EXCEPT ![t] = IF value = oldValue[t] THEN "return" ELSE "peek"]
  /\ UNCHANGED <<build, lock, oldValue, newValue, seen, since, result, calls>>

-----------------------------------------------------------------------------
(* Claiming: current = get(); compareAndSwap(current, current + 1) *)

ClaimGet(t) ==
  /\ t \in Claimers /\ pc[t] = "idle"
  /\ seen[t] = {} => Settled < LastValue
  /\ Load(t, IF SpinLock(build) THEN "lockSwap" ELSE "swap")
  /\ UNCHANGED <<build, value, lock, newValue, since, result, calls>>

Claimed(t) ==
  /\ result' = [result EXCEPT ![t] = Value(oldValue[t]) + 1]
  /\ calls' = [calls EXCEPT ![t] = calls[t] + 1]

\* compareAndSwap, one instruction.
ClaimSwap(t) ==
  /\ pc[t] = "swap"
  /\ pc' = [pc EXCEPT ![t] = "idle"]
  /\ IF value = oldValue[t]
     THEN value' = Split(Value(oldValue[t]) + 1) /\ Claimed(t)
     ELSE UNCHANGED <<value, result, calls>>
  /\ UNCHANGED <<build, lock, oldValue, newValue, seen, since>>

\* __internal_val_compare_and_swap64 holds the lock: it compares what it
\* loads with oldValue, ...
ClaimCompare(t) ==
  /\ pc[t] = "compare"
  /\ IF value = oldValue[t]
     THEN /\ newValue' = [newValue EXCEPT ![t] = Value(oldValue[t]) + 1]
          /\ pc' = [pc EXCEPT ![t] = "store"]
     ELSE /\ UNCHANGED newValue
          /\ pc' = [pc EXCEPT ![t] = "unlockSwap"]
  /\ UNCHANGED <<build, value, lock, oldValue, seen, since, result, calls>>

\* ... and stores newValue, word by word.
ClaimStore(t) ==
  /\ pc[t] = "store"
  /\ Store(t, "unlockSwap")
  /\ IF pc'[t] = "unlockSwap" THEN Claimed(t) ELSE UNCHANGED <<result, calls>>
  /\ UNCHANGED <<build, lock, oldValue, newValue, since>>

-----------------------------------------------------------------------------

Step(t) ==
  \/ Lock(t) \/ Unlock(t) \/ Return(t)
  \/ BeginRead(t) \/ ReadValue(t) \/ ReadSwap(t)
  \/ BeginWrite(t) \/ WriteValue(t) \/ PeekValue(t) \/ Exchange(t)
  \/ ClaimGet(t) \/ ClaimSwap(t) \/ ClaimCompare(t) \/ ClaimStore(t)

Next == \E t \in Callers : Step(t)

Spec == Init /\ [][Next]_vars

-----------------------------------------------------------------------------
(* Properties *)

\* Every variable stays within its type.
TypeOK ==
  /\ build \in Builds /\ value \in Pairs /\ lock \in {Free, Held}
  /\ \A t \in Callers :
       /\ oldValue[t] \in Pairs /\ seen[t] \in (SUBSET Words) \ {Words}
       /\ newValue[t] \in INITIAL_CURSOR_VALUE..MAX_VALUE
       /\ calls[t] \in Nat

\* A thread's access holds seq_spinlock: a read or a write of a sequence the header
\* locks in this build, or the accesses of a compareAndSwap.
Holds(t) ==
  \/ pc[t] \in {"unlock", "compare", "store", "unlockSwap"}
  \/ pc[t] = "read" /\ ReadOp = "getOrder" /\ LocksOrder
  \/ pc[t] = "write" /\ LocksOrder /\ (WriteOp = "setOrder" \/ newValue[t] = MAX_VALUE)

\* The word of seq_spinlock is set exactly while an access holds it, and no two
\* accesses hold it at once.
SpinLockExclusive ==
  /\ lock = Held <=> \E t \in Callers : Holds(t)
  /\ \A t, u \in Callers : Holds(t) /\ Holds(u) => t = u

\* The accesses whose 32-bit builds take care of both words; a 64-bit build has
\* one word.
WholeWrites == Wide(build) \/ WriteOp = "setOrder"
WholeReads == Wide(build) \/ ReadOp = "getOrder"

\* A read returns a value that was written, no older than the newest whose
\* write was complete when the read began and no newer than the newest begun
\* when it returns: never a mixture of the words of two values.  The gate of
\* a producer rests on it.
ReadFresh ==
  WholeWrites /\ WholeReads /\ (\A o, p \in Owners : o = p) =>
    \A t \in Readers : pc[t] = "idle" /\ calls[t] > 0 =>
      /\ result[t] \in (INITIAL_CURSOR_VALUE..(LastValue + Cardinality(Claimers)))
                         \union {MAX_VALUE}
      /\ since[t] <= result[t] /\ result[t] <= Started

\* The successful calls of compareAndSwap.
Claims == UNION {{c} \X (1..calls[c]) : c \in Claimers}

\* Every successful compareAndSwap moved the sequence by one: no claim is
\* lost, also when the swap is three plain accesses under seq_spinlock.
ClaimsCounted ==
  Owners = {} /\ (\A c \in Claimers : pc[c] # "store") =>
    Value(value) = INITIAL_CURSOR_VALUE + Cardinality(Claims)

\* No two threads have claimed the same value.
ClaimsApart ==
  \A c, d \in Claimers : result[c] = result[d] => c = d \/ result[c] = INITIAL_CURSOR_VALUE

\* At rest the sequence holds what one of its writers wrote last, although
\* setOrder may write more than once.
FinalWrite ==
  WholeWrites /\ Owners # {} /\
  (\A o \in Owners : pc[o] = "idle" /\ newValue[o] # INITIAL_CURSOR_VALUE) =>
    Value(value) \in {newValue[o] : o \in Owners}

=============================================================================
