------------------------------ MODULE STQueue ------------------------------
(***************************************************************************)
(* The queue of subtasks that a coordinator keeps for one node and one     *)
(* application module (scheduler/subtask-queue.go).  Each exported method  *)
(* holds the queue's mutex from beginning to end, so each is one action.   *)
(*                                                                         *)
(* An item keeps the fields that decide its place and its statistics; the  *)
(* deadline is arrival time + budget, and since budgets are free it is     *)
(* any member of Deadlines.  `passed' is a history field: the number of    *)
(* items dequeued while this one waited, saturating at MaxInt64.           *)
(***************************************************************************)
EXTENDS Integers, Sequences, FiniteSets

CONSTANTS
  Keys,         \* subtask keys
  Priorities,   \* values of TaskDispatchingItem.Priority
  Deadlines,    \* values of arrival time + budget
  Mechanisms,   \* the queueing mechanisms that callers name
  MaxInt64,     \* math.MaxInt64, where dequeueClock wraps
  QueueBound    \* bound of the model: longest main queue explored

ASSUME STQueueAssumption ==
  /\ Priorities \subseteq Nat
  /\ Deadlines \subseteq Nat
  /\ MaxInt64 \in Nat \ {0}
  /\ QueueBound \in Nat

KnownMechanisms ==
  {"FIFO", "DDL", "PRQ", "Class", "DDL_CDF_Block", "DDL_CDF_NonBlock", "DDL_None"}

VARIABLES
  MainQueue,     \* confirmed items, served first
  ShadowQueue,   \* items whose budget is still negotiated
  ItemsInQueue,  \* keys of the ItemsInQueue map
  dequeueClock,  \* number of dequeues, wrapping at MaxInt64
  dequeued       \* the item the last Dequeue returned, or NoItem

vars == <<MainQueue, ShadowQueue, ItemsInQueue, dequeueClock, dequeued>>

Item == [key : Keys, priority : Priorities, deadline : Deadlines,
         enqueueTime : 0 .. MaxInt64, passed : 0 .. MaxInt64]

NoItem == [key |-> "none"]

KeysOf(q) == {q[i].key : i \in DOMAIN q}

(***************************************************************************)
(* Where a new item with sort value x goes in the queue whose sort values  *)
(* are v, by the code's binary search; -1 asks for an append.  Indices     *)
(* count from 0 as in the source, so value i is v[i+1].  The comparisons   *)
(* with the first and the last value do not depend on low and high, so     *)
(* repeating them at every level, as the code does, changes nothing.       *)
(***************************************************************************)
Median(r) == (r[1] + r[2]) \div 2   \* r is the pair <<low, high>>

Target(r) == IF r[2] >= 0 THEN r[2] ELSE r[1]

search_insertion_place_no_tie(v, x) ==   \* variant: ties are not passed
  LET n == Len(v)
      search[r \in (0 .. n) \X (-1 .. n)] ==
        IF r[1] >= r[2] THEN Target(r)
        ELSE IF x >= v[Median(r) + 1] THEN search[<<Median(r) + 1, r[2]>>]
                                      ELSE search[<<r[1], Median(r) - 1>>]
  IN  IF x >= v[n] THEN -1 ELSE IF x < v[1] THEN 0 ELSE search[<<0, n>>]
search_insertion_place(v, x) ==
  LET n == Len(v)
      search[r \in (0 .. n) \X (-1 .. n)] ==
        IF r[1] >= r[2]
        THEN Target(r) + (IF v[Target(r) + 1] = x THEN 1 ELSE 0)
        ELSE IF x >= v[Median(r) + 1] THEN search[<<Median(r) + 1, r[2]>>]
                                      ELSE search[<<r[1], Median(r) - 1>>]
  IN  IF x >= v[n] THEN -1 ELSE IF x < v[1] THEN 0 ELSE search[<<0, n>>]

(* PRQ sorts by priority, every other sorting mechanism by deadline. *)
SortValues(q, mech) ==
  [i \in DOMAIN q |-> IF mech = "PRQ" THEN q[i].priority ELSE q[i].deadline]

SortValue(item, mech) == IF mech = "PRQ" THEN item.priority ELSE item.deadline

Place_front(q, mech, item) ==   \* variant: compares with the first item only
  IF q = <<>> \/ mech = "FIFO" THEN -1
  ELSE IF SortValue(item, mech) < SortValues(q, mech)[1] THEN 0 ELSE -1
Place(q, mech, item) ==
  IF q = <<>> \/ mech = "FIFO" THEN -1
  ELSE search_insertion_place(SortValues(q, mech), SortValue(item, mech))

InsertAt(q, place, item) ==
  IF place < 0 THEN Append(q, item)
  ELSE SubSeq(q, 1, place) \o <<item>> \o SubSeq(q, place + 1, Len(q))

Promotes(queueType, mech) == queueType = "main" /\ mech = "DDL_CDF_NonBlock"

Distinct(q) == \A i, j \in DOMAIN q : q[i].key = q[j].key => i = j

(* The items of q with another key.  The second case is the last one for a *)
(* queue that repeats no key, in a form the provers can reason about.      *)
WithoutKey_kept(q, k) == q   \* variant: the promoted copy stays behind
WithoutKey(q, k) ==
  IF k \notin KeysOf(q) THEN q
  ELSE IF Distinct(q)
       THEN LET i == CHOOSE i \in DOMAIN q : q[i].key = k
            IN  SubSeq(q, 1, i - 1) \o SubSeq(q, i + 1, Len(q))
       ELSE SelectSeq(q, LAMBDA item : item.key # k)
-----------------------------------------------------------------------------
Init ==
  /\ MainQueue = <<>>
  /\ ShadowQueue = <<>>
  /\ ItemsInQueue = {}
  /\ dequeueClock = 0
  /\ dequeued = NoItem

NewItem(k, pri, ddl) ==
  [key |-> k, priority |-> pri, deadline |-> ddl,
   enqueueTime |-> dequeueClock, passed |-> 0]

(* The early returns: a promotion needs an indexed key, any other call a   *)
(* key that is not indexed.  A refused call changes nothing.               *)
Admits(queueType, k, mech) == Promotes(queueType, mech) <=> k \in ItemsInQueue

(* A place outside the queue would be a slice index panic in the copying   *)
(* loops, so no step leads there.                                          *)
EnqueueMain(k, mech, pri, ddl) ==
  /\ Admits("main", k, mech)
  /\ Len(MainQueue) < QueueBound
  /\ ItemsInQueue' = ItemsInQueue \cup {k}
  /\ ShadowQueue' = IF mech = "DDL_CDF_NonBlock"
                    THEN WithoutKey(ShadowQueue, k) ELSE ShadowQueue
  /\ \/ /\ mech \in KnownMechanisms
        /\ \E place \in -1 .. Len(MainQueue) :
             /\ place = Place(MainQueue, mech, NewItem(k, pri, ddl))
             /\ MainQueue' = InsertAt(MainQueue, place, NewItem(k, pri, ddl))
     \/ /\ mech \notin KnownMechanisms   \* no branch of the code appends it
        /\ UNCHANGED MainQueue
  /\ UNCHANGED <<dequeueClock, dequeued>>

EnqueueShadow(k, mech, pri, ddl) ==
  /\ Admits("shadow", k, mech)
  /\ ItemsInQueue' = ItemsInQueue \cup {k}
  /\ ShadowQueue' = IF mech \in KnownMechanisms
                    THEN Append(ShadowQueue, NewItem(k, pri, ddl)) ELSE ShadowQueue
  /\ UNCHANGED <<MainQueue, dequeueClock, dequeued>>

(* history: one more item left while these kept waiting *)
Passed(q) ==
  [i \in DOMAIN q |-> [q[i] EXCEPT !.passed = IF @ = MaxInt64 THEN @ ELSE @ + 1]]

QueueLength_one_off(item) ==   \* variant: one too many across the wrap
  IF dequeueClock >= item.enqueueTime
  THEN dequeueClock - item.enqueueTime
  ELSE MaxInt64 - item.enqueueTime + dequeueClock + 1
QueueLength(item) ==
  IF dequeueClock >= item.enqueueTime
  THEN dequeueClock - item.enqueueTime
  ELSE MaxInt64 - item.enqueueTime + dequeueClock

Returned(item) ==
  [key |-> item.key, QueueLength |-> QueueLength(item), passed |-> item.passed]

NextClock_no_wrap == dequeueClock + 1   \* variant
NextClock == IF dequeueClock = MaxInt64 THEN 1 ELSE dequeueClock + 1

DequeueMain ==
  /\ MainQueue # <<>>
  /\ dequeued' = Returned(Head(MainQueue))
  /\ ItemsInQueue' = ItemsInQueue \ {Head(MainQueue).key}
  /\ MainQueue' = Passed(Tail(MainQueue))
  /\ ShadowQueue' = Passed(ShadowQueue)
  /\ dequeueClock' = NextClock

DequeueShadow_first ==   \* variant: main items may be overtaken
  /\ ShadowQueue # <<>>
  /\ dequeued' = Returned(Head(ShadowQueue))
  /\ ItemsInQueue' = ItemsInQueue \ {Head(ShadowQueue).key}
  /\ ShadowQueue' = Passed(Tail(ShadowQueue))
  /\ dequeueClock' = NextClock
  /\ UNCHANGED MainQueue

DequeueShadow ==
  /\ MainQueue = <<>>
  /\ ShadowQueue # <<>>
  /\ dequeued' = Returned(Head(ShadowQueue))
  /\ ItemsInQueue' = ItemsInQueue \ {Head(ShadowQueue).key}
  /\ ShadowQueue' = Passed(Tail(ShadowQueue))
  /\ dequeueClock' = NextClock
  /\ UNCHANGED MainQueue

DequeueNothing ==
  /\ MainQueue = <<>>
  /\ ShadowQueue = <<>>
  /\ dequeued' = NoItem
  /\ UNCHANGED <<MainQueue, ShadowQueue, ItemsInQueue, dequeueClock>>

Dequeue == DequeueMain \/ DequeueShadow \/ DequeueNothing

Clean ==
  /\ dequeueClock' = 0
  /\ MainQueue' = <<>>
  /\ ShadowQueue' = <<>>
  /\ ItemsInQueue' = {}
  /\ UNCHANGED dequeued
-----------------------------------------------------------------------------
(* The dispatcher uses the shadow queue only for non-blocking negotiation. *)
Enqueue(k, mech, pri, ddl) ==
  \/ EnqueueMain(k, mech, pri, ddl)
  \/ mech = "DDL_CDF_NonBlock" /\ EnqueueShadow(k, mech, pri, ddl)

(* Any sequence of calls at all. *)
AnyCallNext ==
  \/ \E k \in Keys, mech \in Mechanisms, pri \in Priorities, ddl \in Deadlines :
       Enqueue(k, mech, pri, ddl)
  \/ Dequeue
  \/ Clean

AnyCallSpec == Init /\ [][AnyCallNext]_vars

(* Callers that name a known mechanism and confirm a subtask once only.    *)
Protocol(k, mech) ==
  /\ mech \in KnownMechanisms
  /\ mech = "DDL_CDF_NonBlock" => k \notin KeysOf(MainQueue)

Next ==
  \/ \E k \in Keys, mech \in Mechanisms, pri \in Priorities, ddl \in Deadlines :
       Protocol(k, mech) /\ Enqueue(k, mech, pri, ddl)
  \/ Dequeue
  \/ Clean

Spec == Init /\ [][Next]_vars
-----------------------------------------------------------------------------
(* Type invariant: the shape of both queues, of the index and of what the  *)
(* last Dequeue returned.                                                  *)
TypeOK ==
  /\ MainQueue \in Seq(Item)
  /\ ShadowQueue \in Seq(Item)
  /\ ItemsInQueue \subseteq Keys
  /\ dequeueClock \in 0 .. MaxInt64
  /\ dequeued \in {NoItem}
       \cup [key : Keys, QueueLength : Int, passed : 0 .. MaxInt64]

(* The two queues together hold each indexed key exactly once and nothing  *)
(* else: what the size comparison at the end of Enqueue checks (its ERROR  *)
(* message), and what makes a subtask run once and a confirmation find it. *)
IndexMatchesQueues ==
  /\ ItemsInQueue = KeysOf(MainQueue) \cup KeysOf(ShadowQueue)
  /\ KeysOf(MainQueue) \cap KeysOf(ShadowQueue) = {}
  /\ Distinct(MainQueue)
  /\ Distinct(ShadowQueue)

(* The QueueLength a dequeued item reports is the number of items served   *)
(* while it waited, also across the wrap of dequeueClock.                  *)
QueueLengthExact ==
  dequeued # NoItem /\ dequeued.passed < MaxInt64 => dequeued.QueueLength = dequeued.passed

Pool == INSTANCE SubtaskPool
          WITH confirmed <- KeysOf(MainQueue), tentative <- KeysOf(ShadowQueue)

(* The queue, called by the protocol, implements the pool it stands for.   *)
ImplementsPool == Pool!PoolSpec
=============================================================================
