--------------------------- MODULE STQueue_proofs ---------------------------
(***************************************************************************)
(* Theorems about the subtask queue, for every set of keys, every bound of *)
(* the clock and every queue length.                                       *)
(***************************************************************************)
EXTENDS MCSTQueueOrder, SequenceTheorems, Induction, TLAPS

(* What an insertion yields, item by item. *)
LEMMA InsertAtForm ==
  ASSUME NEW q \in Seq(Item), NEW place \in -1 .. Len(q), NEW item \in Item
  PROVE  LET m == IF place < 0 THEN Len(q) ELSE place
         IN  /\ InsertAt(q, place, item) \in Seq(Item)
             /\ Len(InsertAt(q, place, item)) = Len(q) + 1
             /\ \A i \in 1 .. Len(q) + 1 :
                  InsertAt(q, place, item)[i] =
                    IF i <= m THEN q[i] ELSE IF i = m + 1 THEN item ELSE q[i - 1]
<1>1. CASE place < 0
  BY <1>1 DEF InsertAt
<1>2. CASE place >= 0
  <2>0. ~ (place < 0)
    BY <1>2
  <2>1. InsertAt(q, place, item) =
          SubSeq(q, 1, place) \o <<item>> \o SubSeq(q, place + 1, Len(q))
    BY <2>0, Zenon DEF InsertAt
  <2>. DEFINE a == SubSeq(q, 1, place)  b == SubSeq(q, place + 1, Len(q))
  <2>2. /\ a \in Seq(Item) /\ Len(a) = place
        /\ \A i \in 1 .. place : a[i] = q[i]
    BY <1>2
  <2>3. /\ b \in Seq(Item) /\ Len(b) = Len(q) - place
        /\ \A i \in 1 .. Len(q) - place : b[i] = q[place + i]
    BY <1>2
  <2>4. /\ a \o <<item>> \in Seq(Item) /\ Len(a \o <<item>>) = place + 1
        /\ \A i \in 1 .. place : (a \o <<item>>)[i] = q[i]
        /\ (a \o <<item>>)[place + 1] = item
    BY <1>2, <2>2
  <2>. HIDE DEF a, b
  <2>. DEFINE c == a \o <<item>>
  <2>. HIDE DEF c
  <2>5. /\ c \o b \in Seq(Item) /\ Len(c \o b) = Len(q) + 1
        /\ \A i \in 1 .. place + 1 : (c \o b)[i] = c[i]
        /\ \A i \in place + 2 .. Len(q) + 1 : (c \o b)[i] = b[i - place - 1]
    BY <1>2, <2>3, <2>4 DEF c
  <2>6. ASSUME NEW i \in place + 2 .. Len(q) + 1
        PROVE  b[i - place - 1] = q[i - 1]
    <3>1. i - place - 1 \in 1 .. Len(q) - place /\ place + (i - place - 1) = i - 1
      BY <1>2
    <3>. QED
      BY <2>3, <3>1
  <2>7. c \o b = InsertAt(q, place, item)
    BY <2>1 DEF a, b, c
  <2>8. \A i \in 1 .. Len(q) + 1 :
          (c \o b)[i] = IF i <= place THEN q[i] ELSE IF i = place + 1 THEN item ELSE q[i - 1]
    BY <1>2, <2>4, <2>5, <2>6 DEF c
  <2>. QED
    BY <2>0, <2>5, <2>7, <2>8
<1>. QED
  BY <1>1, <1>2

(* Keys and repeated keys of a queue, by position. *)
LEMMA KeysByPosition ==
  ASSUME NEW q \in Seq(Item)
  PROVE  /\ DOMAIN q = 1 .. Len(q) /\ Len(q) \in Nat
         /\ \A i \in 1 .. Len(q) : q[i] \in Item /\ q[i].key \in KeysOf(q)
         /\ \A k \in KeysOf(q) : k \in Keys /\ \E i \in 1 .. Len(q) : q[i].key = k
<1>1. DOMAIN q = 1 .. Len(q) /\ Len(q) \in Nat
  OBVIOUS
<1>2. \A i \in 1 .. Len(q) : q[i] \in Item
  OBVIOUS
<1>3. \A x \in Item : x.key \in Keys
  BY DEF Item
<1>. QED
  BY <1>1, <1>2, <1>3 DEF KeysOf

(* An insertion adds the key of its item and nothing else. *)
LEMMA InsertAtKeys ==
  ASSUME NEW q \in Seq(Item), NEW place \in -1 .. Len(q), NEW item \in Item
  PROVE  /\ KeysOf(InsertAt(q, place, item)) = KeysOf(q) \cup {item.key}
         /\ Distinct(q) /\ item.key \notin KeysOf(q) => Distinct(InsertAt(q, place, item))
<1>. DEFINE m == IF place < 0 THEN Len(q) ELSE place
            r == InsertAt(q, place, item)
<1>1. /\ r \in Seq(Item) /\ Len(r) = Len(q) + 1
      /\ \A i \in 1 .. Len(q) + 1 :
           r[i] = IF i <= m THEN q[i] ELSE IF i = m + 1 THEN item ELSE q[i - 1]
  BY InsertAtForm
<1>2. m \in 0 .. Len(q) /\ Len(q) \in Nat
  OBVIOUS
<1>. HIDE DEF r, m
<1>3. ASSUME NEW i \in 1 .. Len(q) + 1
      PROVE  \/ i <= m /\ i \in 1 .. Len(q) /\ r[i] = q[i]
             \/ i = m + 1 /\ r[i] = item
             \/ i > m + 1 /\ i - 1 \in 1 .. Len(q) /\ r[i] = q[i - 1]
  BY <1>1, <1>2
<1>4. ASSUME NEW i \in 1 .. Len(q)
      PROVE  \E j \in 1 .. Len(q) + 1 : r[j].key = q[i].key
  <2>1. CASE i <= m
    BY <1>1, <1>2, <2>1
  <2>2. CASE i > m
    <3>1. i + 1 \in 1 .. Len(q) + 1 /\ r[i + 1] = q[i]
      BY <1>1, <1>2, <2>2
    <3>. QED
      BY <3>1
  <2>. QED
    BY <2>1, <2>2, <1>2
<1>5. m + 1 \in 1 .. Len(q) + 1 /\ r[m + 1] = item
  BY <1>1, <1>2
<1>6. ASSUME NEW k \in KeysOf(r)
      PROVE  k \in KeysOf(q) \cup {item.key}
  <2>1. PICK i \in 1 .. Len(q) + 1 : r[i].key = k
    BY <1>1, KeysByPosition
  <2>. QED
    BY <1>3, <2>1, KeysByPosition
<1>7. ASSUME NEW k \in KeysOf(q) \cup {item.key}
      PROVE  k \in KeysOf(r)
  <2>1. CASE k \in KeysOf(q)
    <3>1. PICK i \in 1 .. Len(q) : q[i].key = k
      BY <2>1, KeysByPosition
    <3>2. PICK j \in 1 .. Len(q) + 1 : r[j].key = q[i].key
      BY <1>4
    <3>. QED
      BY <3>1, <3>2, <1>1, KeysByPosition
  <2>2. CASE k = item.key
    BY <2>2, <1>5, <1>1, KeysByPosition
  <2>. QED
    BY <2>1, <2>2
<1>8. ASSUME Distinct(q), item.key \notin KeysOf(q)
      PROVE  Distinct(r)
  <2>. SUFFICES ASSUME NEW i \in 1 .. Len(q) + 1, NEW j \in 1 .. Len(q) + 1,
                       r[i].key = r[j].key
                PROVE  i = j
    BY <1>1, KeysByPosition DEF Distinct
  <2>1. \A x, y \in 1 .. Len(q) : q[x].key = q[y].key => x = y
    BY <1>8, KeysByPosition DEF Distinct
  <2>2. \A x \in 1 .. Len(q) : q[x].key # item.key
    BY <1>8, KeysByPosition
  <2>3. CASE i = m + 1
    BY <1>2, <1>3, <2>2, <2>3
  <2>4. CASE j = m + 1
    BY <1>2, <1>3, <2>2, <2>4
  <2>5. CASE i # m + 1 /\ j # m + 1
    <3>1. PICK x \in 1 .. Len(q) : r[i] = q[x] /\ x = IF i <= m THEN i ELSE i - 1
      BY <1>2, <1>3, <2>5
    <3>2. PICK y \in 1 .. Len(q) : r[j] = q[y] /\ y = IF j <= m THEN j ELSE j - 1
      BY <1>2, <1>3, <2>5
    <3>3. x = y
      BY <2>1, <3>1, <3>2
    <3>. QED
      BY <3>1, <3>2, <3>3, <2>5, <1>2
  <2>. QED
    BY <2>3, <2>4, <2>5
<1>. QED
  BY <1>6, <1>7, <1>8 DEF r

(* Taking the head out removes its key. *)
LEMMA TailKeys ==
  ASSUME NEW q \in Seq(Item), q # <<>>
  PROVE  /\ Tail(q) \in Seq(Item) /\ Head(q) \in Item /\ Head(q) = q[1]
         /\ \A i \in 1 .. Len(Tail(q)) : i + 1 \in 1 .. Len(q) /\ Tail(q)[i] = q[i + 1]
         /\ Head(q).key \in KeysOf(q)
         /\ Distinct(q) => Distinct(Tail(q)) /\ KeysOf(Tail(q)) = KeysOf(q) \ {Head(q).key}
<1>1. /\ Tail(q) \in Seq(Item) /\ Len(Tail(q)) = Len(q) - 1 /\ Len(q) \in Nat \ {0}
      /\ Head(q) = q[1]
      /\ \A i \in 1 .. Len(q) - 1 : Tail(q)[i] = q[i + 1]
  OBVIOUS
<1>2. Head(q) \in Item /\ Head(q).key \in KeysOf(q)
  BY <1>1, KeysByPosition
<1>. DEFINE r == Tail(q)
<1>. HIDE DEF r
<1>3. ASSUME Distinct(q)
      PROVE  Distinct(r) /\ KeysOf(r) = KeysOf(q) \ {Head(q).key}
  <2>1. \A x, y \in 1 .. Len(q) : q[x].key = q[y].key => x = y
    BY <1>3, KeysByPosition DEF Distinct
  <2>2. \A i \in 1 .. Len(r) : i + 1 \in 1 .. Len(q) /\ r[i] = q[i + 1]
    BY <1>1 DEF r
  <2>3. DOMAIN r = 1 .. Len(r) /\ Len(r) = Len(q) - 1
    BY <1>1, KeysByPosition DEF r
  <2>4. Distinct(r)
    BY <2>1, <2>2, <2>3 DEF Distinct
  <2>5. ASSUME NEW k \in KeysOf(r)
        PROVE  k \in KeysOf(q) \ {Head(q).key}
    <3>1. PICK i \in 1 .. Len(r) : r[i].key = k
      BY <2>3 DEF KeysOf
    <3>. QED
      BY <1>1, <2>1, <2>2, <3>1, KeysByPosition
  <2>6. ASSUME NEW k \in KeysOf(q) \ {Head(q).key}
        PROVE  k \in KeysOf(r)
    <3>1. PICK i \in 1 .. Len(q) : q[i].key = k
      BY KeysByPosition
    <3>2. i - 1 \in 1 .. Len(r) /\ r[i - 1] = q[i]
      BY <1>1, <2>2, <2>3, <3>1
    <3>. QED
      BY <2>3, <3>1, <3>2 DEF KeysOf
  <2>. QED
    BY <2>4, <2>5, <2>6
<1>. QED
  BY <1>1, <1>2, <1>3 DEF r

(* Counting a departure changes no key. *)
LEMMA PassedKeys ==
  ASSUME NEW q \in Seq(Item)
  PROVE  /\ Passed(q) \in Seq(Item) /\ Len(Passed(q)) = Len(q)
         /\ \A i \in 1 .. Len(q) :
              Passed(q)[i] = [q[i] EXCEPT !.passed = IF @ = MaxInt64 THEN @ ELSE @ + 1]
         /\ KeysOf(Passed(q)) = KeysOf(q)
         /\ Distinct(q) => Distinct(Passed(q))
<1>. DEFINE count(x) == [x EXCEPT !.passed = IF @ = MaxInt64 THEN @ ELSE @ + 1]
<1>1. ASSUME NEW x \in Item
      PROVE  count(x) \in Item /\ count(x).key = x.key
  <2>1. x.passed \in 0 .. MaxInt64 /\ MaxInt64 \in Nat
    BY STQueueAssumption DEF Item
  <2>2. IF x.passed = MaxInt64 THEN x.passed \in 0 .. MaxInt64 ELSE x.passed + 1 \in 0 .. MaxInt64
    BY <2>1
  <2>. QED
    BY <2>1, <2>2 DEF Item
<1>2. Passed(q) = [i \in 1 .. Len(q) |-> count(q[i])]
  BY KeysByPosition DEF Passed
<1>. HIDE DEF count
<1>3. /\ Passed(q) \in Seq(Item) /\ Len(Passed(q)) = Len(q)
      /\ \A i \in 1 .. Len(q) : Passed(q)[i] = count(q[i]) /\ Passed(q)[i].key = q[i].key
  BY <1>1, <1>2, KeysByPosition
<1>4. KeysOf(Passed(q)) = KeysOf(q)
  BY <1>3, KeysByPosition DEF KeysOf
<1>5. Distinct(q) => Distinct(Passed(q))
  BY <1>3, KeysByPosition DEF Distinct
<1>. QED
  BY <1>3, <1>4, <1>5 DEF count

(* Removing a key from a queue that holds it at most once. *)
LEMMA WithoutKeyKeys ==
  ASSUME NEW q \in Seq(Item), Distinct(q), NEW k \in Keys
  PROVE  /\ WithoutKey(q, k) \in Seq(Item)
         /\ Distinct(WithoutKey(q, k))
         /\ KeysOf(WithoutKey(q, k)) = KeysOf(q) \ {k}
         /\ \A i \in 1 .. Len(WithoutKey(q, k)) :
              \E j \in 1 .. Len(q) : WithoutKey(q, k)[i] = q[j]
<1>1. CASE k \notin KeysOf(q)
  BY <1>1, KeysByPosition DEF WithoutKey
<1>2. CASE k \in KeysOf(q)
  <2>. DEFINE i == CHOOSE i \in DOMAIN q : q[i].key = k
              a == SubSeq(q, 1, i - 1)
              b == SubSeq(q, i + 1, Len(q))
              r == a \o b
  <2>1. i \in 1 .. Len(q) /\ q[i].key = k
    BY <1>2, KeysByPosition
  <2>2. WithoutKey(q, k) = r
    BY <1>2 DEF WithoutKey
  <2>. HIDE DEF i
  <2>3. a \in Seq(Item) /\ Len(a) = i - 1 /\ \A j \in 1 .. i - 1 : a[j] = q[j]
    BY <2>1
  <2>4. b \in Seq(Item) /\ Len(b) = Len(q) - i /\ \A j \in 1 .. Len(q) - i : b[j] = q[i + j]
    BY <2>1
  <2>. HIDE DEF a, b
  <2>5. /\ r \in Seq(Item) /\ Len(r) = Len(q) - 1
        /\ \A j \in 1 .. Len(q) - 1 : r[j] = IF j < i THEN a[j] ELSE b[j - (i - 1)]
    <3>1. /\ r \in Seq(Item) /\ Len(r) = Len(a) + Len(b)
          /\ \A j \in 1 .. Len(a) + Len(b) :
               r[j] = IF j <= Len(a) THEN a[j] ELSE b[j - Len(a)]
      BY <2>3, <2>4, ConcatProperties
    <3>. HIDE DEF r
    <3>2. i - 1 \in Nat /\ Len(q) - i \in Nat /\ i \in Nat
      BY <2>1
    <3>3. Len(a) + Len(b) = Len(q) - 1 /\ Len(a) = i - 1 /\ Len(q) \in Nat
      BY <2>3, <2>4, <3>2
    <3>4. ASSUME NEW j \in 1 .. Len(q) - 1
          PROVE  r[j] = IF j < i THEN a[j] ELSE b[j - (i - 1)]
      <4>1. j \in 1 .. Len(a) + Len(b) /\ (j <= Len(a) <=> j < i)
        BY <3>2, <3>3
      <4>2. r[j] = IF j <= Len(a) THEN a[j] ELSE b[j - Len(a)]
        BY <3>1, <4>1
      <4>. QED
        BY <3>3, <4>1, <4>2
    <3>. QED
      BY <3>1, <3>3, <3>4
  <2>. HIDE DEF r
  <2>6. ASSUME NEW j \in 1 .. Len(q) - 1
        PROVE  r[j] = q[IF j < i THEN j ELSE j + 1]
    <3>1. CASE j < i
      BY <2>1, <2>3, <2>5, <3>1
    <3>2. CASE j >= i
      <4>0. ~ (j < i)
        BY <2>1, <3>2
      <4>1. j - (i - 1) \in 1 .. Len(q) - i /\ i + (j - (i - 1)) = j + 1
        BY <2>1, <3>2
      <4>2. r[j] = b[j - (i - 1)]
        BY <2>5, <4>0, Zenon
      <4>. QED
        BY <2>4, <4>1, <4>2, <3>2, <2>1
    <3>. QED
      BY <2>1, <3>1, <3>2
  <2>7. \A x, y \in 1 .. Len(q) : q[x].key = q[y].key => x = y
    BY KeysByPosition DEF Distinct
  <2>8. DOMAIN r = 1 .. Len(q) - 1 /\ Len(q) \in Nat
    BY <2>5, KeysByPosition
  <2>9. ASSUME NEW x \in DOMAIN r, NEW y \in DOMAIN r, r[x].key = r[y].key
        PROVE  x = y
    <3>. DEFINE at(z) == IF z < i THEN z ELSE z + 1
    <3>1. at(x) \in 1 .. Len(q) /\ at(y) \in 1 .. Len(q)
      BY <2>1, <2>8
    <3>2. r[x] = q[at(x)] /\ r[y] = q[at(y)]
      BY <2>6, <2>8
    <3>3. at(x) = at(y)
      BY <2>7, <2>9, <3>1, <3>2
    <3>. QED
      BY <2>1, <2>8, <3>3
  <2>10. ASSUME NEW l \in KeysOf(r)
         PROVE  l \in KeysOf(q) \ {k}
    <3>1. PICK x \in 1 .. Len(q) - 1 : r[x].key = l
      BY <2>8 DEF KeysOf
    <3>2. PICK y \in 1 .. Len(q) : y # i /\ r[x] = q[y]
      BY <2>1, <2>6, <2>8, <3>1
    <3>. QED
      BY <2>1, <2>7, <3>1, <3>2, KeysByPosition
  <2>11. ASSUME NEW l \in KeysOf(q) \ {k}
         PROVE  l \in KeysOf(r)
    <3>1. PICK y \in 1 .. Len(q) : q[y].key = l
      BY KeysByPosition
    <3>2. PICK x \in 1 .. Len(q) - 1 : r[x] = q[y]
      <4>1. CASE y < i
        BY <2>1, <2>6, <4>1
      <4>2. CASE y > i
        <5>1. y - 1 \in 1 .. Len(q) - 1 /\ r[y - 1] = q[y]
          BY <2>1, <2>6, <4>2
        <5>. QED
          BY <5>1
      <4>. QED
        BY <2>1, <3>1, <4>1, <4>2
    <3>. QED
      BY <2>8, <3>1, <3>2 DEF KeysOf
  <2>12. ASSUME NEW x \in 1 .. Len(r)
         PROVE  \E j \in 1 .. Len(q) : r[x] = q[j]
    BY <2>1, <2>5, <2>6, <2>8
  <2>. QED
    BY <2>2, <2>5, <2>9, <2>10, <2>11, <2>12 DEF Distinct
<1>. QED
  BY <1>1, <1>2
-----------------------------------------------------------------------------
(* What the statistics of a waiting item rest on: the difference between   *)
(* the clock and its enqueue time, taken across the wrap, is the number of *)
(* items that left since.                                                  *)
Waited(item, clock) ==
  IF clock >= item.enqueueTime THEN clock - item.enqueueTime
  ELSE MaxInt64 - item.enqueueTime + clock

ExactItem(item, clock) == item.passed < MaxInt64 => item.passed = Waited(item, clock)

ExactQueue(q, clock) == \A i \in 1 .. Len(q) : ExactItem(q[i], clock)

(* The inductive invariant: IndexMatchesQueues makes the removal of a key  *)
(* the removal of one item, and the exactness of waiting items makes the   *)
(* statistics of the next dequeued one exact.                              *)
QueueInv ==
  /\ TypeOK
  /\ IndexMatchesQueues
  /\ QueueLengthExact
  /\ ExactQueue(MainQueue, dequeueClock)
  /\ ExactQueue(ShadowQueue, dequeueClock)

(* A new item is exact, and so is one that counted one more departure.     *)
LEMMA NewItemExact ==
  ASSUME TypeOK, NEW k \in Keys, NEW pri \in Priorities, NEW ddl \in Deadlines
  PROVE  /\ NewItem(k, pri, ddl) \in Item
         /\ NewItem(k, pri, ddl).key = k
         /\ ExactItem(NewItem(k, pri, ddl), dequeueClock)
  BY STQueueAssumption DEF TypeOK, NewItem, Item, ExactItem, Waited

LEMMA PassedExact ==
  ASSUME dequeueClock \in 0 .. MaxInt64, NEW q \in Seq(Item),
         ExactQueue(q, dequeueClock)
  PROVE  ExactQueue(Passed(q), NextClock)
<1>. SUFFICES ASSUME NEW i \in 1 .. Len(q)
              PROVE  ExactItem(Passed(q)[i], NextClock)
  BY PassedKeys DEF ExactQueue
<1>1. /\ q[i] \in Item
      /\ Passed(q)[i] = [q[i] EXCEPT !.passed = IF @ = MaxInt64 THEN @ ELSE @ + 1]
  BY PassedKeys, KeysByPosition
<1>2. /\ q[i].passed \in 0 .. MaxInt64 /\ q[i].enqueueTime \in 0 .. MaxInt64
      /\ Passed(q)[i].enqueueTime = q[i].enqueueTime
      /\ Passed(q)[i].passed = IF q[i].passed = MaxInt64 THEN MaxInt64 ELSE q[i].passed + 1
  BY <1>1 DEF Item
<1>3. ExactItem(q[i], dequeueClock)
  BY DEF ExactQueue
<1>. QED
  BY <1>2, <1>3, STQueueAssumption DEF ExactItem, Waited, NextClock

(* What a dequeue reports of an exact item is exact.                       *)
LEMMA ReturnedExact ==
  ASSUME dequeueClock \in 0 .. MaxInt64, NEW item \in Item, ExactItem(item, dequeueClock)
  PROVE  LET d == Returned(item)
         IN  /\ d \in [key : Keys, QueueLength : Int, passed : 0 .. MaxInt64]
             /\ d.passed < MaxInt64 => d.QueueLength = d.passed
<1>1. QueueLength(item) = Waited(item, dequeueClock)
  BY DEF QueueLength, Waited
<1>2. QueueLength(item) \in Int
  BY STQueueAssumption DEF QueueLength, Item
<1>. QED
  BY <1>1, <1>2 DEF Returned, Item, ExactItem

LEMMA InsertAtExact ==
  ASSUME NEW q \in Seq(Item), NEW place \in -1 .. Len(q), NEW item \in Item,
         ExactQueue(q, dequeueClock), ExactItem(item, dequeueClock)
  PROVE  ExactQueue(InsertAt(q, place, item), dequeueClock)
<1>. DEFINE m == IF place < 0 THEN Len(q) ELSE place
            r == InsertAt(q, place, item)
<1>1. /\ Len(r) = Len(q) + 1 /\ Len(q) \in Nat /\ m \in 0 .. Len(q)
      /\ \A i \in 1 .. Len(q) + 1 :
           r[i] = IF i <= m THEN q[i] ELSE IF i = m + 1 THEN item ELSE q[i - 1]
  BY InsertAtForm
<1>. HIDE DEF m, r
<1>2. SUFFICES ASSUME NEW i \in 1 .. Len(q) + 1
               PROVE  ExactItem(r[i], dequeueClock)
  BY <1>1 DEF ExactQueue, r
<1>3. r[i] = item \/ \E j \in 1 .. Len(q) : r[i] = q[j]
  BY <1>1
<1>. QED
  BY <1>3 DEF ExactQueue

(* A call of Enqueue on the main queue keeps the invariant; the key joins  *)
(* the main queue and leaves the shadow queue.                             *)
LEMMA EnqueueMainStep ==
  ASSUME QueueInv,
         NEW k \in Keys, NEW mech \in Mechanisms, NEW pri \in Priorities, NEW ddl \in Deadlines,
         Protocol(k, mech), EnqueueMain(k, mech, pri, ddl)
  PROVE  /\ QueueInv'
         /\ KeysOf(MainQueue)' = KeysOf(MainQueue) \cup {k}
         /\ KeysOf(ShadowQueue)' = KeysOf(ShadowQueue) \ {k}
         /\ k \notin KeysOf(MainQueue)
<1>. DEFINE item == NewItem(k, pri, ddl)
<1>1. /\ MainQueue \in Seq(Item) /\ ShadowQueue \in Seq(Item)
      /\ ItemsInQueue = KeysOf(MainQueue) \cup KeysOf(ShadowQueue)
      /\ Distinct(MainQueue) /\ Distinct(ShadowQueue)
      /\ KeysOf(MainQueue) \cap KeysOf(ShadowQueue) = {}
  BY DEF QueueInv, TypeOK, IndexMatchesQueues
<1>2. item \in Item /\ item.key = k /\ ExactItem(item, dequeueClock)
  BY NewItemExact DEF QueueInv
<1>3. k \notin KeysOf(MainQueue)
  BY <1>1 DEF EnqueueMain, Protocol, Admits, Promotes
<1>. HIDE DEF item
<1>4. PICK place \in -1 .. Len(MainQueue) : MainQueue' = InsertAt(MainQueue, place, item)
  BY DEF EnqueueMain, Protocol, item
<1>5. /\ MainQueue' \in Seq(Item)
      /\ KeysOf(MainQueue') = KeysOf(MainQueue) \cup {k}
      /\ Distinct(MainQueue')
      /\ ExactQueue(MainQueue', dequeueClock)
  <2>1. ExactQueue(MainQueue, dequeueClock)
    BY DEF QueueInv
  <2>2. InsertAt(MainQueue, place, item) \in Seq(Item)
    BY <1>1, <1>2, <1>4, InsertAtForm
  <2>3. /\ KeysOf(InsertAt(MainQueue, place, item)) = KeysOf(MainQueue) \cup {k}
        /\ Distinct(InsertAt(MainQueue, place, item))
    BY <1>1, <1>2, <1>3, <1>4, InsertAtKeys
  <2>4. ExactQueue(InsertAt(MainQueue, place, item), dequeueClock)
    BY <1>1, <1>2, <1>4, <2>1, InsertAtExact
  <2>. QED
    BY <1>4, <2>2, <2>3, <2>4
<1>6. /\ ShadowQueue' \in Seq(Item)
      /\ KeysOf(ShadowQueue') = KeysOf(ShadowQueue) \ {k}
      /\ Distinct(ShadowQueue')
      /\ ExactQueue(ShadowQueue', dequeueClock)
  <2>1. CASE mech = "DDL_CDF_NonBlock"
    <3>1. ShadowQueue' = WithoutKey(ShadowQueue, k)
      BY <2>1 DEF EnqueueMain
    <3>. QED
      BY <1>1, <3>1, WithoutKeyKeys DEF QueueInv, ExactQueue
  <2>2. CASE mech # "DDL_CDF_NonBlock"
    <3>1. ShadowQueue' = ShadowQueue /\ k \notin ItemsInQueue
      BY <2>2 DEF EnqueueMain, Admits, Promotes
    <3>. QED
      BY <1>1, <3>1 DEF QueueInv
  <2>. QED
    BY <2>1, <2>2
<1>7. ItemsInQueue' = ItemsInQueue \cup {k} /\ UNCHANGED <<dequeueClock, dequeued>>
  BY DEF EnqueueMain
<1>8. TypeOK'
  BY <1>5, <1>6, <1>7 DEF QueueInv, TypeOK
<1>9. IndexMatchesQueues'
  BY <1>1, <1>5, <1>6, <1>7 DEF IndexMatchesQueues
<1>10. QueueLengthExact'
  BY <1>7 DEF QueueInv, QueueLengthExact
<1>. QED
  BY <1>3, <1>5, <1>6, <1>7, <1>8, <1>9, <1>10 DEF QueueInv

(* A call on the shadow queue adds the key there.                          *)
LEMMA EnqueueShadowStep ==
  ASSUME QueueInv,
         NEW k \in Keys, NEW mech \in Mechanisms, NEW pri \in Priorities, NEW ddl \in Deadlines,
         Protocol(k, mech), EnqueueShadow(k, mech, pri, ddl)
  PROVE  /\ QueueInv'
         /\ KeysOf(MainQueue)' = KeysOf(MainQueue)
         /\ KeysOf(ShadowQueue)' = KeysOf(ShadowQueue) \cup {k}
         /\ k \notin KeysOf(MainQueue) \cup KeysOf(ShadowQueue)
<1>. DEFINE item == NewItem(k, pri, ddl)
<1>1. /\ MainQueue \in Seq(Item) /\ ShadowQueue \in Seq(Item)
      /\ ItemsInQueue = KeysOf(MainQueue) \cup KeysOf(ShadowQueue)
      /\ Distinct(MainQueue) /\ Distinct(ShadowQueue)
      /\ KeysOf(MainQueue) \cap KeysOf(ShadowQueue) = {}
  BY DEF QueueInv, TypeOK, IndexMatchesQueues
<1>2. item \in Item /\ item.key = k /\ ExactItem(item, dequeueClock)
  BY NewItemExact DEF QueueInv
<1>3. k \notin ItemsInQueue
  BY DEF EnqueueShadow, Admits, Promotes
<1>. HIDE DEF item
<1>4. ShadowQueue' = InsertAt(ShadowQueue, -1, item) /\ -1 \in -1 .. Len(ShadowQueue)
  BY <1>1 DEF EnqueueShadow, Protocol, item, InsertAt
<1>5. /\ ShadowQueue' \in Seq(Item)
      /\ KeysOf(ShadowQueue') = KeysOf(ShadowQueue) \cup {k}
      /\ Distinct(ShadowQueue')
      /\ ExactQueue(ShadowQueue', dequeueClock)
  <2>1. ExactQueue(ShadowQueue, dequeueClock)
    BY DEF QueueInv
  <2>2. InsertAt(ShadowQueue, -1, item) \in Seq(Item)
    BY <1>1, <1>2, <1>4, InsertAtForm
  <2>3. /\ KeysOf(InsertAt(ShadowQueue, -1, item)) = KeysOf(ShadowQueue) \cup {k}
        /\ Distinct(InsertAt(ShadowQueue, -1, item))
    BY <1>1, <1>2, <1>3, <1>4, InsertAtKeys
  <2>4. ExactQueue(InsertAt(ShadowQueue, -1, item), dequeueClock)
    BY <1>1, <1>2, <1>4, <2>1, InsertAtExact
  <2>. QED
    BY <1>4, <2>2, <2>3, <2>4
<1>6. /\ ItemsInQueue' = ItemsInQueue \cup {k}
      /\ UNCHANGED <<MainQueue, dequeueClock, dequeued>>
  BY DEF EnqueueShadow
<1>7. TypeOK' /\ IndexMatchesQueues' /\ QueueLengthExact'
  <2>1. TypeOK'
    BY <1>1, <1>5, <1>6 DEF QueueInv, TypeOK
  <2>2. IndexMatchesQueues'
    BY <1>1, <1>3, <1>5, <1>6 DEF IndexMatchesQueues
  <2>3. QueueLengthExact'
    BY <1>6 DEF QueueInv, QueueLengthExact
  <2>. QED
    BY <2>1, <2>2, <2>3
<1>. QED
  BY <1>1, <1>3, <1>5, <1>6, <1>7 DEF QueueInv

(* What is left of a queue whose head is taken out.                        *)
LEMMA DequeuedQueue ==
  ASSUME QueueInv, NEW q \in Seq(Item), q # <<>>, Distinct(q),
         ExactQueue(q, dequeueClock)
  PROVE  /\ Passed(Tail(q)) \in Seq(Item)
         /\ KeysOf(Passed(Tail(q))) = KeysOf(q) \ {Head(q).key}
         /\ Distinct(Passed(Tail(q)))
         /\ ExactQueue(Passed(Tail(q)), NextClock)
         /\ Head(q).key \in KeysOf(q)
         /\ Returned(Head(q)) \in [key : Keys, QueueLength : Int, passed : 0 .. MaxInt64]
         /\ Returned(Head(q)).passed < MaxInt64 =>
              Returned(Head(q)).QueueLength = Returned(Head(q)).passed
<1>0. dequeueClock \in 0 .. MaxInt64
  BY DEF QueueInv, TypeOK
<1>1. /\ Tail(q) \in Seq(Item) /\ Head(q) \in Item /\ Head(q) = q[1]
      /\ Distinct(Tail(q)) /\ KeysOf(Tail(q)) = KeysOf(q) \ {Head(q).key}
      /\ Head(q).key \in KeysOf(q)
      /\ \A i \in 1 .. Len(Tail(q)) : i + 1 \in 1 .. Len(q) /\ Tail(q)[i] = q[i + 1]
  BY TailKeys
<1>2. ExactQueue(Tail(q), dequeueClock)
  BY <1>1 DEF ExactQueue
<1>3. ExactItem(Head(q), dequeueClock)
  BY <1>1 DEF ExactQueue
<1>4. /\ Passed(Tail(q)) \in Seq(Item)
      /\ KeysOf(Passed(Tail(q))) = KeysOf(Tail(q))
      /\ Distinct(Passed(Tail(q)))
  BY <1>1, PassedKeys
<1>5. ExactQueue(Passed(Tail(q)), NextClock)
  BY <1>0, <1>1, <1>2, PassedExact
<1>6. /\ Returned(Head(q)) \in [key : Keys, QueueLength : Int, passed : 0 .. MaxInt64]
      /\ Returned(Head(q)).passed < MaxInt64 =>
              Returned(Head(q)).QueueLength = Returned(Head(q)).passed
  BY <1>0, <1>1, <1>3, ReturnedExact
<1>. QED
  BY <1>1, <1>4, <1>5, <1>6

LEMMA NextClockType ==
  ASSUME dequeueClock \in 0 .. MaxInt64
  PROVE  NextClock \in 0 .. MaxInt64
  BY STQueueAssumption DEF NextClock

LEMMA DequeueMainStep ==
  ASSUME QueueInv, DequeueMain
  PROVE  /\ QueueInv'
         /\ Head(MainQueue).key \in KeysOf(MainQueue)
         /\ KeysOf(MainQueue)' = KeysOf(MainQueue) \ {Head(MainQueue).key}
         /\ KeysOf(ShadowQueue)' = KeysOf(ShadowQueue)
<1>. DEFINE k == Head(MainQueue).key
<1>1. /\ MainQueue \in Seq(Item) /\ ShadowQueue \in Seq(Item)
      /\ ItemsInQueue = KeysOf(MainQueue) \cup KeysOf(ShadowQueue)
      /\ ItemsInQueue \subseteq Keys
      /\ Distinct(MainQueue) /\ Distinct(ShadowQueue)
      /\ KeysOf(MainQueue) \cap KeysOf(ShadowQueue) = {}
      /\ ExactQueue(MainQueue, dequeueClock) /\ ExactQueue(ShadowQueue, dequeueClock)
      /\ dequeueClock \in 0 .. MaxInt64
  BY DEF QueueInv, TypeOK, IndexMatchesQueues
<1>2. /\ MainQueue # <<>>
      /\ dequeued' = Returned(Head(MainQueue))
      /\ ItemsInQueue' = ItemsInQueue \ {k}
      /\ MainQueue' = Passed(Tail(MainQueue))
      /\ ShadowQueue' = Passed(ShadowQueue)
      /\ dequeueClock' = NextClock
  BY DEF DequeueMain
<1>3. /\ MainQueue' \in Seq(Item) /\ KeysOf(MainQueue') = KeysOf(MainQueue) \ {k}
      /\ k \in KeysOf(MainQueue)
      /\ Distinct(MainQueue') /\ ExactQueue(MainQueue', dequeueClock')
      /\ dequeued' \in [key : Keys, QueueLength : Int, passed : 0 .. MaxInt64]
      /\ dequeued'.passed < MaxInt64 => dequeued'.QueueLength = dequeued'.passed
  BY <1>1, <1>2, DequeuedQueue
<1>4. /\ ShadowQueue' \in Seq(Item) /\ KeysOf(ShadowQueue') = KeysOf(ShadowQueue)
      /\ Distinct(ShadowQueue') /\ ExactQueue(ShadowQueue', dequeueClock')
  BY <1>1, <1>2, PassedKeys, PassedExact
<1>5. dequeueClock' \in 0 .. MaxInt64
  BY <1>1, <1>2, NextClockType
<1>. HIDE DEF k
<1>6. TypeOK' /\ QueueLengthExact'
  BY <1>1, <1>2, <1>3, <1>4, <1>5 DEF TypeOK, QueueLengthExact
<1>7. IndexMatchesQueues'
  BY <1>1, <1>2, <1>3, <1>4 DEF IndexMatchesQueues
<1>. QED
  BY <1>3, <1>4, <1>6, <1>7 DEF QueueInv, k

LEMMA DequeueShadowStep ==
  ASSUME QueueInv, DequeueShadow
  PROVE  /\ QueueInv'
         /\ KeysOf(MainQueue) = {}
         /\ Head(ShadowQueue).key \in KeysOf(ShadowQueue)
         /\ KeysOf(MainQueue)' = KeysOf(MainQueue)
         /\ KeysOf(ShadowQueue)' = KeysOf(ShadowQueue) \ {Head(ShadowQueue).key}
<1>. DEFINE k == Head(ShadowQueue).key
<1>1. /\ MainQueue \in Seq(Item) /\ ShadowQueue \in Seq(Item)
      /\ ItemsInQueue = KeysOf(MainQueue) \cup KeysOf(ShadowQueue)
      /\ ItemsInQueue \subseteq Keys
      /\ Distinct(MainQueue) /\ Distinct(ShadowQueue)
      /\ ExactQueue(ShadowQueue, dequeueClock)
      /\ dequeueClock \in 0 .. MaxInt64
  BY DEF QueueInv, TypeOK, IndexMatchesQueues
<1>2. /\ MainQueue = <<>> /\ ShadowQueue # <<>>
      /\ dequeued' = Returned(Head(ShadowQueue))
      /\ ItemsInQueue' = ItemsInQueue \ {k}
      /\ ShadowQueue' = Passed(Tail(ShadowQueue))
      /\ MainQueue' = MainQueue
      /\ dequeueClock' = NextClock
  BY DEF DequeueShadow
<1>3. /\ ShadowQueue' \in Seq(Item) /\ KeysOf(ShadowQueue') = KeysOf(ShadowQueue) \ {k}
      /\ k \in KeysOf(ShadowQueue)
      /\ Distinct(ShadowQueue') /\ ExactQueue(ShadowQueue', dequeueClock')
      /\ dequeued' \in [key : Keys, QueueLength : Int, passed : 0 .. MaxInt64]
      /\ dequeued'.passed < MaxInt64 => dequeued'.QueueLength = dequeued'.passed
  BY <1>1, <1>2, DequeuedQueue
<1>4. KeysOf(MainQueue) = {} /\ Len(MainQueue) = 0
  BY <1>2 DEF KeysOf
<1>5. dequeueClock' \in 0 .. MaxInt64
  BY <1>1, <1>2, NextClockType
<1>. HIDE DEF k
<1>6. TypeOK' /\ QueueLengthExact'
  BY <1>1, <1>2, <1>3, <1>5 DEF TypeOK, QueueLengthExact
<1>7. IndexMatchesQueues'
  BY <1>1, <1>2, <1>3, <1>4 DEF IndexMatchesQueues
<1>8. ExactQueue(MainQueue', dequeueClock')
  BY <1>2, <1>4 DEF ExactQueue
<1>. QED
  BY <1>2, <1>3, <1>4, <1>6, <1>7, <1>8 DEF QueueInv, k

LEMMA CleanStep ==
  ASSUME QueueInv, Clean
  PROVE  QueueInv' /\ KeysOf(MainQueue)' = {} /\ KeysOf(ShadowQueue)' = {}
<1>1. /\ MainQueue' = <<>> /\ ShadowQueue' = <<>> /\ ItemsInQueue' = {}
      /\ dequeueClock' = 0 /\ dequeued' = dequeued
  BY DEF Clean
<1>2. TypeOK'
  BY <1>1, STQueueAssumption DEF QueueInv, TypeOK
<1>3. KeysOf(MainQueue') = {} /\ KeysOf(ShadowQueue') = {}
  BY <1>1 DEF KeysOf
<1>4. IndexMatchesQueues'
  BY <1>1, <1>3 DEF IndexMatchesQueues, Distinct
<1>5. QueueLengthExact' /\ ExactQueue(MainQueue', dequeueClock') /\ ExactQueue(ShadowQueue', dequeueClock')
  BY <1>1 DEF QueueInv, QueueLengthExact, ExactQueue
<1>. QED
  BY <1>2, <1>3, <1>4, <1>5 DEF QueueInv

LEMMA StutterStep ==
  ASSUME QueueInv, DequeueNothing \/ UNCHANGED vars
  PROVE  QueueInv' /\ UNCHANGED <<MainQueue, ShadowQueue>>
<1>1. UNCHANGED <<MainQueue, ShadowQueue, ItemsInQueue, dequeueClock>>
  BY DEF DequeueNothing, vars
<1>2. dequeued' = dequeued \/ dequeued' = NoItem
  BY DEF DequeueNothing, vars
<1>3. TypeOK' /\ QueueLengthExact'
  BY <1>1, <1>2 DEF QueueInv, TypeOK, QueueLengthExact
<1>4. IndexMatchesQueues'
  BY <1>1 DEF QueueInv, IndexMatchesQueues
<1>. QED
  BY <1>1, <1>3, <1>4 DEF QueueInv

(* The invariant holds at the start and every step keeps it.               *)
LEMMA QueueInvInit == Init => QueueInv
<1>. SUFFICES ASSUME Init PROVE QueueInv
  OBVIOUS
<1>1. TypeOK /\ QueueLengthExact
  BY STQueueAssumption DEF Init, TypeOK, QueueLengthExact
<1>2. IndexMatchesQueues
  BY DEF Init, IndexMatchesQueues, KeysOf, Distinct
<1>. QED
  BY <1>1, <1>2 DEF Init, QueueInv, ExactQueue

LEMMA QueueInvStep == QueueInv /\ [Next]_vars => QueueInv'
<1>. SUFFICES ASSUME QueueInv, [Next]_vars PROVE QueueInv'
  OBVIOUS
<1>1. ASSUME NEW k \in Keys, NEW mech \in Mechanisms,
             NEW pri \in Priorities, NEW ddl \in Deadlines,
             Protocol(k, mech), Enqueue(k, mech, pri, ddl)
      PROVE  QueueInv'
  BY <1>1, EnqueueMainStep, EnqueueShadowStep DEF Enqueue
<1>2. CASE Dequeue
  BY <1>2, DequeueMainStep, DequeueShadowStep, StutterStep DEF Dequeue
<1>3. CASE Clean
  BY <1>3, CleanStep
<1>4. CASE UNCHANGED vars
  BY <1>4, StutterStep
<1>. QED
  BY <1>1, <1>2, <1>3, <1>4 DEF Next

THEOREM QueueInvariance == Spec => []QueueInv
  BY QueueInvInit, QueueInvStep, PTL DEF Spec

(* The types of both queues, of the index and of the clock.                *)
THEOREM TypeCorrect == Spec => []TypeOK
<1>1. QueueInv => TypeOK
  BY DEF QueueInv
<1>. QED
  BY <1>1, QueueInvariance, PTL

(* Called by the protocol, the two queues always hold each indexed key     *)
(* exactly once: no subtask is lost or served twice, for any number of     *)
(* keys and any queue length.                                              *)
THEOREM IndexCorrect == Spec => []IndexMatchesQueues
<1>1. QueueInv => IndexMatchesQueues
  BY DEF QueueInv
<1>. QED
  BY <1>1, QueueInvariance, PTL

(* The reported queue length is the number of items served while the item  *)
(* waited, for every bound of the clock, across its wrap.                  *)
THEOREM LengthCorrect == Spec => []QueueLengthExact
<1>1. QueueInv => QueueLengthExact
  BY DEF QueueInv
<1>. QED
  BY <1>1, QueueInvariance, PTL

(* Every step of the queue is a step of the abstract pool, or stutters.    *)
THEOREM PoolStep == QueueInv /\ [Next]_vars => [Pool!PoolNext]_(Pool!poolVars)
<1>. USE DEF Pool!PoolNext, Pool!poolVars
<1>. SUFFICES ASSUME QueueInv, [Next]_vars
              PROVE  Pool!PoolNext \/ UNCHANGED Pool!poolVars
  OBVIOUS
<1>1. ASSUME NEW k \in Keys, NEW mech \in Mechanisms,
             NEW pri \in Priorities, NEW ddl \in Deadlines,
             Protocol(k, mech), EnqueueMain(k, mech, pri, ddl)
      PROVE  Pool!Accept(k) \/ Pool!Confirm(k)
  BY <1>1, EnqueueMainStep DEF Pool!Accept, Pool!Confirm
<1>2. ASSUME NEW k \in Keys, NEW mech \in Mechanisms,
             NEW pri \in Priorities, NEW ddl \in Deadlines,
             Protocol(k, mech), EnqueueShadow(k, mech, pri, ddl)
      PROVE  Pool!Accept(k)
  BY <1>2, EnqueueShadowStep DEF Pool!Accept
<1>3. CASE DequeueMain
  BY <1>3, DequeueMainStep, KeysByPosition DEF Pool!HandOut, QueueInv, TypeOK
<1>4. CASE DequeueShadow
  BY <1>4, DequeueShadowStep, KeysByPosition DEF Pool!HandOut, QueueInv, TypeOK
<1>5. CASE Clean
  BY <1>5, CleanStep DEF Pool!Drop
<1>6. CASE DequeueNothing \/ UNCHANGED vars
  BY <1>6, StutterStep
<1>. QED
  BY <1>1, <1>2, <1>3, <1>4, <1>5, <1>6 DEF Next, Enqueue, Dequeue

(* The queue implements the pool it stands for.                            *)
THEOREM PoolImplemented == Spec => ImplementsPool
<1>1. Init => Pool!PoolInit
  BY DEF Init, Pool!PoolInit, KeysOf
<1>. QED
  BY <1>1, PoolStep, QueueInvariance, PTL DEF Spec, ImplementsPool, Pool!PoolSpec
-----------------------------------------------------------------------------
(***************************************************************************)
(* The binary search for an item's place.                                  *)
(***************************************************************************)

(* The pairs <<low, high>> the search meets in a queue of n items, and the *)
(* body of its recursion.                                                  *)
Bounds(n) == (0 .. n) \X (-1 .. n)

SearchBody(v, x, f, r) ==
  IF r[1] >= r[2]
  THEN Target(r) + (IF v[Target(r) + 1] = x THEN 1 ELSE 0)
  ELSE IF x >= v[Median(r) + 1] THEN f[<<Median(r) + 1, r[2]>>]
                                ELSE f[<<r[1], Median(r) - 1>>]

(* A step of the search leaves fewer positions between the bounds, and the *)
(* bounds where they may be.                                               *)
LEMMA SearchNarrows ==
  ASSUME NEW n \in Nat, NEW r \in Bounds(n), r[1] < r[2]
  PROVE  /\ Median(r) \in r[1] .. r[2] - 1
         /\ <<Median(r) + 1, r[2]>> \in Bounds(n)
         /\ <<r[1], Median(r) - 1>> \in Bounds(n)
BY DEF Median, Bounds

(* The search ends: there is a function that satisfies its recursion.      *)
LEMMA SearchExists ==
  ASSUME NEW n \in Nat, NEW v, NEW x
  PROVE  \E f : f = [r \in Bounds(n) |-> SearchBody(v, x, f, r)]
<1>. DEFINE Solves(f, d) == /\ f = [r \in Bounds(n) |-> f[r]]
                            /\ \A r \in Bounds(n) :
                                 r[2] - r[1] <= d => f[r] = SearchBody(v, x, f, r)
            T == {d \in 0 .. n : \E f : Solves(f, d)}
<1>1. 0 \in T
  <2>. DEFINE f == [r \in Bounds(n) |-> Target(r) + (IF v[Target(r) + 1] = x THEN 1 ELSE 0)]
  <2>1. f = [r \in Bounds(n) |-> f[r]]
    OBVIOUS
  <2>2. ASSUME NEW r \in Bounds(n), r[2] - r[1] <= 0 PROVE f[r] = SearchBody(v, x, f, r)
    <3>1. r[1] >= r[2]
      BY <2>2 DEF Bounds
    <3>. QED
      BY <3>1 DEF SearchBody
  <2>3. Solves(f, 0)
    BY <2>1, <2>2
  <2>. HIDE DEF f, Solves
  <2>. QED
    BY <2>3
<1>2. ASSUME NEW d \in 0 .. n - 1, d \in T PROVE d + 1 \in T
  <2>1. PICK f : Solves(f, d)
    BY <1>2
  <2>. DEFINE g == [r \in Bounds(n) |-> IF r[2] - r[1] <= d THEN f[r] ELSE SearchBody(v, x, f, r)]
  <2>2. g = [r \in Bounds(n) |-> g[r]]
    OBVIOUS
  <2>3. \A r \in Bounds(n) : r[2] - r[1] <= d => g[r] = f[r]
    OBVIOUS
  <2>4. \A r \in Bounds(n) : g[r] = SearchBody(v, x, f, r)
    BY <2>1
  <2>. HIDE DEF g
  <2>5. ASSUME NEW r \in Bounds(n), r[2] - r[1] <= d + 1
        PROVE  SearchBody(v, x, f, r) = SearchBody(v, x, g, r)
    <3>1. CASE r[1] >= r[2]
      BY <3>1 DEF SearchBody
    <3>2. CASE ~ (r[1] >= r[2])
      <4>1. r[1] \in Int /\ r[2] \in Int /\ r[1] < r[2]
        BY <3>2 DEF Bounds
      <4>2. /\ Median(r) \in r[1] .. r[2] - 1
            /\ <<Median(r) + 1, r[2]>> \in Bounds(n)
            /\ <<r[1], Median(r) - 1>> \in Bounds(n)
        BY <4>1, SearchNarrows
      <4>3. r[2] - (Median(r) + 1) <= d /\ (Median(r) - 1) - r[1] <= d
        BY <2>5, <4>1, <4>2
      <4>4. /\ g[<<Median(r) + 1, r[2]>>] = f[<<Median(r) + 1, r[2]>>]
            /\ g[<<r[1], Median(r) - 1>>] = f[<<r[1], Median(r) - 1>>]
        BY <2>3, <4>2, <4>3
      <4>. QED
        BY <3>2, <4>4, Zenon DEF SearchBody
    <3>. QED
      BY <3>1, <3>2
  <2>6. Solves(g, d + 1)
    BY <2>2, <2>4, <2>5
  <2>. HIDE DEF Solves
  <2>. QED
    BY <2>6
<1>3. 0 .. n \subseteq T
  <2>. HIDE DEF T
  <2>. QED
    BY <1>1, <1>2, InductionUpTo
<1>4. n \in T
  BY <1>3
<1>5. PICK f : Solves(f, n)
  BY <1>4
<1>6. \A r \in Bounds(n) : r[2] - r[1] <= n
  BY DEF Bounds
<1>. QED
  BY <1>5, <1>6

(* What the search returns when k of the n sorted values are at most x.    *)
LEMMA SearchResult ==
  ASSUME NEW v \in Seq(Int), NEW x \in Int, NEW k \in 1 .. Len(v) - 1,
         \A i \in 1 .. Len(v) : v[i] <= x <=> i <= k
  PROVE  /\ search_insertion_place(v, x) \in {k - 1, k}
         /\ v[k] = x => search_insertion_place(v, x) = k
<1>. DEFINE n == Len(v)
            Solution(f) == f = [r \in Bounds(n) |-> SearchBody(v, x, f, r)]
            search == CHOOSE f : Solution(f)
<1>1. n \in Nat /\ k \in 1 .. n - 1 /\ \A i \in 1 .. n : v[i] \in Int
  OBVIOUS
<1>2. ~ (x >= v[n]) /\ ~ (x < v[1])
  BY <1>1
<1>3. search_insertion_place(v, x) = search[<<0, n>>]
  BY <1>2, Zenon DEF search_insertion_place, SearchBody, Bounds
<1>4. Solution(search)
  <2>1. \E f : Solution(f)
    BY <1>1, SearchExists
  <2>. HIDE DEF Solution
  <2>. QED
    BY <2>1, Zenon
<1>. HIDE DEF search
<1>5. \A r \in Bounds(n) : search[r] = SearchBody(v, x, search, r)
  BY <1>4
<1>. HIDE DEF n, Solution
<1>. DEFINE Right(y) == y \in {k - 1, k} /\ (v[k] = x => y = k)
            Near(r) == r[1] <= k /\ k <= r[2] + 1
            T == {d \in 0 .. n : \A r \in Bounds(n) :
                                   Near(r) /\ r[2] - r[1] <= d => Right(search[r])}
<1>6. 0 \in T
  <2>. SUFFICES ASSUME NEW r \in Bounds(n), Near(r), r[2] - r[1] <= 0
                PROVE  Right(search[r])
    BY <1>1
  <2>1. r[1] \in Nat /\ r[2] \in Int /\ r[1] >= r[2] /\ r[2] \in {k - 1, k} /\ r[2] >= 0
    BY <1>1 DEF Bounds
  <2>2. Target(r) = r[2]
    BY <2>1 DEF Target
  <2>3. search[r] = r[2] + (IF v[r[2] + 1] = x THEN 1 ELSE 0)
    BY <1>5, <2>1, <2>2 DEF SearchBody
  <2>4. CASE r[2] = k
    <3>1. k + 1 \in 1 .. n
      BY <1>1
    <3>2. ~ (v[k + 1] <= x) /\ v[k + 1] \in Int
      BY <1>1, <3>1 DEF n
    <3>. QED
      BY <2>3, <2>4, <3>2, <1>1
  <2>5. CASE r[2] = k - 1
    <3>1. r[2] + 1 = k
      BY <2>5, <1>1
    <3>. QED
      BY <2>3, <2>5, <3>1, <1>1
  <2>. QED
    BY <2>1, <2>4, <2>5
<1>7. ASSUME NEW d \in 0 .. n - 1, d \in T PROVE d + 1 \in T
  <2>0. d \in Int /\ d + 1 \in 0 .. n /\ \A r \in Bounds(n) : Near(r) /\ r[2] - r[1] <= d => Right(search[r])
    BY <1>1, <1>7
  <2>. HIDE DEF Right
  <2>. SUFFICES ASSUME NEW r \in Bounds(n), Near(r), r[2] - r[1] <= d + 1
                PROVE  Right(search[r])
    BY <2>0
  <2>1. r[1] \in 0 .. n /\ r[2] \in -1 .. n
    BY DEF Bounds
  <2>2. CASE r[2] - r[1] <= d
    BY <2>0, <2>2
  <2>3. CASE ~ (r[2] - r[1] <= d)
    <3>1. ~ (r[1] >= r[2]) /\ r[1] < r[2]
      BY <2>0, <2>1, <2>3, <1>1
    <3>2. /\ Median(r) \in r[1] .. r[2] - 1
          /\ <<Median(r) + 1, r[2]>> \in Bounds(n)
          /\ <<r[1], Median(r) - 1>> \in Bounds(n)
      BY <1>1, <3>1, SearchNarrows
    <3>3. search[r] = IF x >= v[Median(r) + 1] THEN search[<<Median(r) + 1, r[2]>>]
                                               ELSE search[<<r[1], Median(r) - 1>>]
      BY <1>5, <3>1, Zenon DEF SearchBody
    <3>. DEFINE m == Median(r)
    <3>0. m \in r[1] .. r[2] - 1
      BY <3>2
    <3>. HIDE DEF m
    <3>. DEFINE lo == r[1]  hi == r[2]
    <3>4. lo \in 0 .. n /\ hi \in -1 .. n /\ m \in lo .. hi - 1 /\ lo <= k /\ k <= hi + 1 /\ hi - lo <= d + 1
      BY <2>1, <3>0
    <3>. HIDE DEF lo, hi
    <3>5. m \in Int /\ m + 1 \in 1 .. n /\ v[m + 1] \in Int /\ (x >= v[m + 1] <=> m + 1 <= k)
      <4>1. m \in Int /\ m + 1 \in 1 .. n
        BY <1>1, <3>4
      <4>. QED
        BY <1>1, <4>1 DEF n
    <3>6. CASE x >= v[m + 1]
      <4>1. m + 1 <= k /\ k <= hi + 1 /\ hi - (m + 1) <= d
        BY <1>1, <2>0, <3>4, <3>5, <3>6
      <4>. QED
        BY <2>0, <3>2, <3>3, <3>6, <4>1 DEF m, lo, hi
    <3>7. CASE ~ (x >= v[m + 1])
      <4>1. lo <= k /\ k <= (m - 1) + 1 /\ (m - 1) - lo <= d
        BY <1>1, <2>0, <3>4, <3>5, <3>7
      <4>. QED
        BY <2>0, <3>2, <3>3, <3>7, <4>1 DEF m, lo, hi
    <3>. QED
      BY <3>6, <3>7
  <2>. QED
    BY <2>2, <2>3
<1>8. n \in T
  <2>1. 0 .. n \subseteq T
    <3>. HIDE DEF T
    <3>. QED
      BY <1>1, <1>6, <1>7, InductionUpTo
  <2>. QED
    BY <1>1, <2>1
<1>9. <<0, n>> \in Bounds(n) /\ Near(<<0, n>>) /\ n - 0 <= n
  BY <1>1 DEF Bounds
<1>10. Right(search[<<0, n>>])
  <2>. HIDE DEF Right
  <2>. QED
    BY <1>8, <1>9
<1>. QED
  BY <1>3, <1>10

(* The values that are at most x are the first k of a sorted sequence.     *)
LEMMA SortedSplit ==
  ASSUME NEW v \in Seq(Int), NEW x \in Int,
         \A i, j \in 1 .. Len(v) : i < j => v[i] <= v[j]
  PROVE  \E k \in 0 .. Len(v) : \A i \in 1 .. Len(v) : v[i] <= x <=> i <= k
<1>. DEFINE n == Len(v)
            Greater == {i \in 1 .. n : x < v[i]}
<1>1. n \in Nat /\ \A i \in 1 .. n : v[i] \in Int
  OBVIOUS
<1>2. CASE Greater = {}
  <2>1. n \in 0 .. n /\ \A i \in 1 .. n : v[i] <= x <=> i <= n
    BY <1>1, <1>2
  <2>. QED
    BY <2>1
<1>3. CASE Greater # {}
  <2>1. PICK g \in Greater : \A j \in Greater : g <= j
    <3>1. Greater \subseteq Nat
      BY <1>1
    <3>. HIDE DEF Greater
    <3>. QED
      BY <1>3, <3>1, SmallestMember
  <2>2. g - 1 \in 0 .. n
    BY <1>1
  <2>3. ASSUME NEW i \in 1 .. n PROVE v[i] <= x <=> i <= g - 1
    BY <1>1, <2>1
  <2>. QED
    BY <2>2, <2>3
<1>. QED
  BY <1>2, <1>3

(* The place the search finds in a sorted queue, against the number of     *)
(* items whose priority value is at most x.                                *)
LEMMA FoundInSortedQueue ==
  ASSUME NEW q \in Seq(Item), SortedQueue(q), NEW x \in Priorities
  PROVE  /\ FoundPlace(q, x) \in {SortedPlace(q, x) - 1, SortedPlace(q, x)}
         /\ \A i \in DOMAIN q : priorities(q)[i] = x => i <= FoundPlace(q, x)
<1>. DEFINE v == priorities(q)
            n == Len(q)
            newcomer == [priority |-> x, deadline |-> 0]
<1>1. /\ n \in Nat /\ DOMAIN q = 1 .. n
      /\ v = [i \in 1 .. n |-> q[i].priority]
      /\ \A i \in 1 .. n : v[i] \in Int
      /\ x \in Int
  <2>1. ASSUME NEW i \in 1 .. Len(q) PROVE q[i].priority \in Int
    <3>1. q[i] \in Item
      OBVIOUS
    <3>2. q[i].priority \in Priorities
      BY <3>1 DEF Item
    <3>3. \A p \in Priorities : p \in Int
      BY STQueueAssumption
    <3>. QED
      BY <3>2, <3>3, Zenon
  <2>. QED
    BY <2>1, STQueueAssumption DEF priorities, SortValues
<1>2. v \in Seq(Int) /\ Len(v) = n
  <2>1. v \in [1 .. n -> Int]
    BY <1>1
  <2>. HIDE DEF v
  <2>. QED
    BY <1>1, <2>1
<1>3. SortValue(newcomer, "PRQ") = x
  BY DEF SortValue
<1>4. Place(q, "PRQ", newcomer) =
        IF q = <<>> THEN -1 ELSE search_insertion_place(v, x)
  BY <1>3, Zenon DEF Place, priorities
<1>5. FoundPlace(q, x) = LET p == Place(q, "PRQ", newcomer) IN IF p < 0 THEN n ELSE p
  BY DEF FoundPlace
<1>6. \A i, j \in 1 .. n : i < j => v[i] <= v[j]
  BY <1>1 DEF SortedQueue
<1>. HIDE DEF v, newcomer
<1>7. PICK k \in 0 .. n : \A i \in 1 .. n : v[i] <= x <=> i <= k
  BY <1>1, <1>2, <1>6, SortedSplit
<1>8. SortedPlace(q, x) = k
  <2>1. {i \in DOMAIN q : priorities(q)[i] <= x} = 1 .. k
    BY <1>1, <1>7 DEF v
  <2>2. Cardinality(1 .. k) = k
    BY <1>1, FS_Interval
  <2>. QED
    BY <2>1, <2>2 DEF SortedPlace
<1>9. \A i \in 1 .. n : v[i] = x => i <= k
  BY <1>1, <1>7
<1>10. CASE k = n
  <2>1. Place(q, "PRQ", newcomer) = -1
    <3>1. CASE q = <<>>
      BY <1>4, <3>1
    <3>2. CASE q # <<>>
      <4>1. n \in 1 .. n /\ v[n] <= x
        BY <1>1, <1>7, <1>10, <3>2
      <4>2. x >= v[Len(v)]
        BY <1>1, <1>2, <4>1
      <4>3. search_insertion_place(v, x) = -1
        BY <4>2, Zenon DEF search_insertion_place
      <4>. QED
        BY <1>4, <3>2, <4>3
    <3>. QED
      BY <3>1, <3>2
  <2>2. FoundPlace(q, x) = k
    BY <1>1, <1>5, <1>10, <2>1
  <2>. QED
    BY <1>1, <1>8, <1>9, <2>2 DEF v
<1>11. CASE k = 0 /\ n # 0
  <2>1. 1 \in 1 .. n /\ n \in 1 .. n /\ ~ (v[1] <= x) /\ ~ (v[n] <= x)
    BY <1>1, <1>7, <1>11
  <2>2. ~ (x >= v[Len(v)]) /\ x < v[1] /\ q # <<>>
    BY <1>1, <1>2, <2>1
  <2>3. Place(q, "PRQ", newcomer) = 0
    BY <1>4, <2>2, Zenon DEF search_insertion_place
  <2>4. FoundPlace(q, x) = k
    BY <1>1, <1>5, <1>11, <2>3
  <2>. QED
    BY <1>1, <1>8, <1>9, <2>4 DEF v
<1>12. CASE k \in 1 .. n - 1
  <2>1. /\ search_insertion_place(v, x) \in {k - 1, k}
        /\ v[k] = x => search_insertion_place(v, x) = k
    <3>1. k \in 1 .. Len(v) - 1 /\ \A i \in 1 .. Len(v) : v[i] <= x <=> i <= k
      BY <1>2, <1>7, <1>12
    <3>2. x \in Int
      BY <1>1
    <3>. QED
      BY <1>2, <3>1, <3>2, SearchResult
  <2>2. FoundPlace(q, x) = search_insertion_place(v, x)
    <3>1. q # <<>>
      BY <1>1, <1>12
    <3>. QED
      BY <1>1, <1>4, <1>5, <1>12, <2>1, <3>1
  <2>3. ASSUME NEW i \in 1 .. n, v[i] = x PROVE v[k] = x
    <3>1. i <= k /\ k \in 1 .. n /\ v[k] <= x
      BY <1>1, <1>7, <1>9, <1>12, <2>3
    <3>2. v[i] <= v[k]
      BY <1>1, <1>6, <3>1, <2>3
    <3>. QED
      BY <1>1, <2>3, <3>1, <3>2
  <2>. QED
    BY <1>1, <1>8, <1>9, <2>1, <2>2, <2>3 DEF v
<1>. QED
  <2>0. n \in Nat /\ k \in 0 .. n
    BY <1>1
  <2>. HIDE DEF n
  <2>1. k = n \/ (k = 0 /\ n # 0) \/ k \in 1 .. n - 1
    BY <2>0
  <2>. QED
    BY <1>10, <1>11, <1>12, <2>1, Zenon

(* In every queue that is sorted when an item arrives, the search places   *)
(* the item at most one position too early.                                *)
THEOREM PlacedAtMostOneEarlyCorrect == Spec => []PlacedAtMostOneEarly
<1>1. TypeOK => PlacedAtMostOneEarly
  <2>. SUFFICES ASSUME TypeOK, SortedQueue(MainQueue), NEW x \in Priorities
                PROVE  FoundPlace(MainQueue, x) \in
                         {SortedPlace(MainQueue, x) - 1, SortedPlace(MainQueue, x)}
    BY DEF PlacedAtMostOneEarly
  <2>1. MainQueue \in Seq(Item)
    BY DEF TypeOK
  <2>. QED
    BY <2>1, FoundInSortedQueue
<1>. QED
  BY <1>1, TypeCorrect, PTL

(* In every queue that is sorted when an item arrives, the search places   *)
(* the item behind the waiting items of its own priority.                  *)
THEOREM FifoAmongEqualsCorrect == Spec => []FifoAmongEquals
<1>1. TypeOK => FifoAmongEquals
  <2>. SUFFICES ASSUME TypeOK, SortedQueue(MainQueue),
                       NEW x \in Priorities, NEW i \in DOMAIN MainQueue,
                       priorities(MainQueue)[i] = x
                PROVE  i <= FoundPlace(MainQueue, x)
    BY DEF FifoAmongEquals
  <2>1. MainQueue \in Seq(Item)
    BY DEF TypeOK
  <2>. QED
    BY <2>1, FoundInSortedQueue
<1>. QED
  BY <1>1, TypeCorrect, PTL
=============================================================================
