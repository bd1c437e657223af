------------------------------ MODULE ListQueue ------------------------------
(***************************************************************************)
(* The queue of include/RingQueue/q.h: a ring of CNT slots and a list for  *)
(* the messages that found their slot taken.  push claims an index by      *)
(* fetch-and-add; when a message is already there it goes to the list.     *)
(* pop first moves one message from the list back into the ring, by the    *)
(* same push, and then takes the message at head.  Every access to a       *)
(* shared word, the next pointers included, is a step of its own.          *)
(***************************************************************************)
EXTENDS RingIndex, FiniteSets, Sequences

CONSTANTS
  Producers, Consumers,
  MessagesEach,  \* messages a producer pushes: a bound
  MaxClaims,     \* indices that are claimed: a bound, since a pop may move a
                 \* message between list and ring any number of times
  StartIndex,    \* head and tail when observation starts, the queue idle
  NULL

Threads == Producers \cup Consumers
Messages == Producers \X (1..MessagesEach)

ListAssumption ==
  /\ Producers \cap Consumers = {}
  /\ MessagesEach \in Nat \ {0} /\ StartIndex \in Index
  /\ MaxClaims \in Nat /\ MaxClaims < IndexModulus
  /\ NULL \notin Messages

VARIABLES
  head, tail, msgs, list,  \* of struct queue
  next,                    \* the next pointer of each message
  pc,                      \* where each thread is in its push or pop
  index,                   \* the head a pop loaded
  place,                   \* the index a push claimed
  item,                    \* the message a thread pushes, or takes from the list
  seen,                    \* the pointer a thread loaded last: last, n or m
  sent,                    \* messages each producer has pushed
  got,                     \* messages each consumer has been given
  overflowed,              \* whether a push has found its slot taken
  lapped,                  \* whether an index was claimed while a thread a lap
                           \* behind had yet to fill or to empty its slot
  reused                   \* whether a pop took a message from the list after
                           \* its next pointer had changed

vars == <<head, tail, msgs, list, next, pc, index, place, item, seen, sent, got, overflowed, lapped, reused>>

\* qinit
Init ==
  /\ head = StartIndex /\ tail = StartIndex
  /\ msgs = [s \in SlotIds |-> NULL] /\ list = NULL
  /\ next = [x \in Messages |-> NULL]
  /\ pc = [t \in Threads |-> "start"]
  /\ index = [t \in Threads |-> StartIndex] /\ place = [t \in Threads |-> StartIndex]
  /\ item = [t \in Threads |-> NULL] /\ seen = [t \in Threads |-> NULL]
  /\ sent = [p \in Producers |-> 0] /\ got = [c \in Consumers |-> << >>]
  /\ overflowed = FALSE /\ lapped = FALSE /\ reused = FALSE

Goto(t, where) == pc' = [pc EXCEPT ![t] = where]

-------------------------------------------------------------------------------
(* push, called by a producer or by pop                                    *)

\* A producer's call.
StartPush(p) ==
  /\ pc[p] = "start" /\ sent[p] < MessagesEach
  /\ item' = [item EXCEPT ![p] = <<p, sent[p] + 1>>]
  /\ Goto(p, "push")
  /\ UNCHANGED <<head, tail, msgs, list, next, index, place, seen, sent, got, overflowed, lapped, reused>>

\* push returns: pop goes on to the slot at the head it loaded.
EndPush(t) ==
  /\ Goto(t, IF t \in Producers THEN "start" ELSE "slot")
  /\ sent' = IF t \in Producers THEN [sent EXCEPT ![t] = sent[t] + 1] ELSE sent

\* __sync_fetch_and_add(&q->tail, 1), the CAS of the slot a step later.
ClaimIndex(t) ==
  /\ pc[t] = "push" /\ Sub(tail, StartIndex) < MaxClaims
  /\ tail' = Inc(tail)
  /\ place' = [place EXCEPT ![t] = tail]
  /\ Goto(t, "put")
  /\ lapped' = (lapped \/ \E u \in Threads : pc[u] = "put" /\ Slot(place[u]) = Slot(tail))
  /\ UNCHANGED <<head, msgs, list, next, index, item, seen, sent, got, overflowed, reused>>

\* Mutant: the message is stored whatever the slot holds.
PutBlind(t) ==
  /\ pc[t] = "put"
  /\ msgs' = [msgs EXCEPT ![Slot(place[t])] = item[t]] /\ EndPush(t)
  /\ UNCHANGED <<head, tail, list, next, index, place, item, seen, got, overflowed, lapped, reused>>

PutSlot(t) ==
  /\ pc[t] = "put"
  /\ IF msgs[Slot(place[t])] = NULL
     THEN msgs' = [msgs EXCEPT ![Slot(place[t])] = item[t]] /\ EndPush(t) /\ UNCHANGED overflowed
     ELSE Goto(t, "last") /\ overflowed' = TRUE /\ UNCHANGED <<msgs, sent>>
  /\ UNCHANGED <<head, tail, list, next, index, place, item, seen, got, lapped, reused>>

LoadLast(t) ==
  /\ pc[t] = "last"
  /\ seen' = [seen EXCEPT ![t] = list] /\ Goto(t, "link")
  /\ UNCHANGED <<head, tail, msgs, list, next, index, place, item, sent, got, overflowed, lapped, reused>>

\* m->next = last
Link(t) ==
  /\ pc[t] = "link"
  /\ next' = [next EXCEPT ![item[t]] = seen[t]] /\ Goto(t, "insert")
  /\ UNCHANGED <<head, tail, msgs, list, index, place, item, seen, sent, got, overflowed, lapped, reused>>

Insert(t) ==
  /\ pc[t] = "insert"
  /\ IF list = seen[t] THEN list' = item[t] /\ EndPush(t)
                       ELSE Goto(t, "last") /\ UNCHANGED <<list, sent>>
  /\ UNCHANGED <<head, tail, msgs, next, index, place, item, seen, got, overflowed, lapped, reused>>

-------------------------------------------------------------------------------
(* pop                                                                     *)

LoadHead(c) ==
  /\ pc[c] = "start"
  /\ index' = [index EXCEPT ![c] = head] /\ Goto(c, "tail")
  /\ UNCHANGED <<head, tail, msgs, list, next, place, item, seen, sent, got, overflowed, lapped, reused>>

LoadTail(c) ==
  /\ pc[c] = "tail"
  /\ Goto(c, IF index[c] = tail THEN "start" ELSE "list")
  /\ UNCHANGED <<head, tail, msgs, list, next, index, place, item, seen, sent, got, overflowed, lapped, reused>>

LoadList(c) ==
  /\ pc[c] = "list"
  /\ item' = [item EXCEPT ![c] = list]
  /\ Goto(c, IF list = NULL THEN "slot" ELSE "next")
  /\ UNCHANGED <<head, tail, msgs, list, next, index, place, seen, sent, got, overflowed, lapped, reused>>

LoadNext(c) ==
  /\ pc[c] = "next"
  /\ seen' = [seen EXCEPT ![c] = next[item[c]]] /\ Goto(c, "take")
  /\ UNCHANGED <<head, tail, msgs, list, next, index, place, item, sent, got, overflowed, lapped, reused>>

\* The CAS that takes the first message of the list.
Take(c) ==
  /\ pc[c] = "take"
  /\ IF list = item[c]
     THEN /\ list' = seen[c] /\ Goto(c, "unlink")
          /\ reused' = (reused \/ next[item[c]] # seen[c])
     ELSE Goto(c, "slot") /\ UNCHANGED <<list, reused>>
  /\ UNCHANGED <<head, tail, msgs, next, index, place, item, seen, sent, got, overflowed, lapped>>

\* list->next = NULL
Unlink(c) ==
  /\ pc[c] = "unlink"
  /\ next' = [next EXCEPT ![item[c]] = NULL] /\ Goto(c, "push")
  /\ UNCHANGED <<head, tail, msgs, list, index, place, item, seen, sent, got, overflowed, lapped, reused>>

LoadSlot(c) ==
  /\ pc[c] = "slot"
  /\ seen' = [seen EXCEPT ![c] = msgs[Slot(index[c])]]
  /\ Goto(c, IF seen'[c] = NULL THEN "start" ELSE "claim")
  /\ UNCHANGED <<head, tail, msgs, list, next, index, place, item, sent, got, overflowed, lapped, reused>>

ClaimHead(c) ==
  /\ pc[c] = "claim"
  /\ IF head = index[c]
     THEN /\ head' = Inc(head) /\ Goto(c, "empty")
          /\ lapped' = (lapped \/ \E d \in Consumers :
                                     pc[d] = "empty" /\ Slot(index[d]) = Slot(head))
     ELSE Goto(c, "start") /\ UNCHANGED <<head, lapped>>
  /\ UNCHANGED <<tail, msgs, list, next, index, place, item, seen, sent, got, overflowed, reused>>

\* Returns NULL, with head advanced, when the slot has changed.
EmptySlot(c) ==
  /\ pc[c] = "empty"
  /\ IF msgs[Slot(index[c])] = seen[c]
     THEN /\ msgs' = [msgs EXCEPT ![Slot(index[c])] = NULL]
          /\ got' = [got EXCEPT ![c] = Append(got[c], seen[c])]
     ELSE UNCHANGED <<msgs, got>>
  /\ Goto(c, "start")
  /\ UNCHANGED <<head, tail, list, next, index, place, item, seen, sent, overflowed, lapped, reused>>

-------------------------------------------------------------------------------

Push(t) == ClaimIndex(t) \/ PutSlot(t) \/ LoadLast(t) \/ Link(t) \/ Insert(t)
Pop(c) == \/ LoadHead(c) \/ LoadTail(c) \/ LoadList(c) \/ LoadNext(c) \/ Take(c)
          \/ Unlink(c) \/ LoadSlot(c) \/ ClaimHead(c) \/ EmptySlot(c)

Next == \/ \E t \in Threads : Push(t)
        \/ \E p \in Producers : StartPush(p)
        \/ \E c \in Consumers : Pop(c)

Spec == Init /\ [][Next]_vars

-------------------------------------------------------------------------------
(* Properties                                                              *)

Given == UNION {{got[c][i] : i \in DOMAIN got[c]} : c \in Consumers}
Begun == {x \in Messages : x[2] <= sent[x[1]]} \cup
         {item[p] : p \in {t \in Producers : pc[t] # "start"}}
Linked ==
  LET From[n \in 0..Cardinality(Messages)] ==
        IF n = 0 THEN {list} ELSE From[n - 1] \cup {next[x] : x \in From[n - 1] \ {NULL}}
  IN  From[Cardinality(Messages)] \ {NULL}
InRing == {msgs[s] : s \in SlotIds} \ {NULL}
InHand ==
  {item[t] : t \in {u \in Threads : pc[u] \in {"unlink", "push", "put", "last", "link", "insert"}}}

\* Every variable stays within its type.
TypeOK ==
  /\ head \in Index /\ tail \in Index
  /\ msgs \in [SlotIds -> Messages \cup {NULL}] /\ list \in Messages \cup {NULL}
  /\ next \in [Messages -> Messages \cup {NULL}]
  /\ index \in [Threads -> Index] /\ place \in [Threads -> Index]
  /\ item \in [Threads -> Messages \cup {NULL}] /\ seen \in [Threads -> Messages \cup {NULL}]
  /\ got \in [Consumers -> Seq(Messages)]

\* Every message is in exactly one place, the ring, the list, the hands of a
\* push or of the caller, unless a pop took a message from the list that had
\* left it and come back with another next pointer.  One consumer never does.
InOnePlace ==
  /\ Cardinality(Consumers) = 1 => ~reused
  /\ ~reused => /\ Given \cup InRing \cup Linked \cup InHand = Begun
                /\ Given \cap (InRing \cup Linked \cup InHand) = {}
                /\ InRing \cap (Linked \cup InHand) = {}
                /\ Linked \cap InHand = {}

\* No message is popped twice unless that happened.
PoppedOnce ==
  ~reused => \A c, d \in Consumers : \A i \in DOMAIN got[c], j \in DOMAIN got[d] :
               got[c][i] = got[d][j] => c = d /\ i = j

\* As long as no push has found its slot taken, and nobody a slot in the hands of
\* a thread that is a lap behind, a consumer gets the messages of a producer in
\* the order they were pushed.
OrderUntilOverflow ==
  ~overflowed /\ ~lapped => \A c \in Consumers : \A i, j \in DOMAIN got[c] :
    i < j /\ got[c][i][1] = got[c][j][1] => got[c][i][2] < got[c][j][2]

\* Every message has been popped, or one of these two has happened.  After an
\* overflow the index it claimed stays empty and head may wait there, before
\* messages that are in the ring; after a lap head may have passed a message.
Finished == overflowed \/ lapped \/ Given = Messages
===============================================================================
