----------------------------- MODULE BoundedQueue -----------------------------
(***************************************************************************)
(* What every ring queue of this repository promises its callers: a FIFO   *)
(* of at most Capacity messages.  Producer p pushes the messages <<p, 1>>, *)
(* <<p, 2>>, ... in this order; consumer c records what it pops.  A push   *)
(* that returns -1 and a pop that returns NULL change nothing and are      *)
(* stuttering steps here; when they are allowed is stated by the modules   *)
(* of the implementations.                                                 *)
(***************************************************************************)
EXTENDS Naturals, Sequences

CONSTANTS Producers, Consumers, Capacity

VARIABLES
  contents,  \* the messages in the queue, oldest first
  pushed,    \* pushed[p]: number of messages producer p has pushed
  popped     \* popped[c]: the messages consumer c has popped, in order

vars == <<contents, pushed, popped>>

Messages == Producers \X (Nat \ {0})

TypeOK ==
  /\ contents \in Seq(Messages)
  /\ pushed \in [Producers -> Nat]
  /\ popped \in [Consumers -> Seq(Messages)]

Init ==
  /\ contents = << >>
  /\ pushed = [p \in Producers |-> 0]
  /\ popped = [c \in Consumers |-> << >>]

Put(p) ==
  /\ Len(contents) < Capacity
  /\ pushed' = [pushed EXCEPT ![p] = pushed[p] + 1]
  /\ contents' = Append(contents, <<p, pushed[p] + 1>>)
  /\ UNCHANGED popped

Take(c) ==
  /\ contents # << >>
  /\ popped' = [popped EXCEPT ![c] = Append(popped[c], Head(contents))]
  /\ contents' = Tail(contents)
  /\ UNCHANGED pushed

Next == (\E p \in Producers : Put(p)) \/ (\E c \in Consumers : Take(c))

Spec == Init /\ [][Next]_vars
===============================================================================
