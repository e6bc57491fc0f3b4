-------------------------- MODULE MCSTQueueOrder --------------------------
(***************************************************************************)
(* The order of the main queue when every caller uses one sorting          *)
(* mechanism (PRQ): what the binary search promises and what it keeps.     *)
(***************************************************************************)
EXTENDS STQueue

priorities(q) == SortValues(q, "PRQ")

SortedQueue(q) == \A i, j \in DOMAIN q : i < j => priorities(q)[i] <= priorities(q)[j]

(* reference definition: the number of values that are not greater *)
SortedPlace(q, x) == Cardinality({i \in DOMAIN q : priorities(q)[i] <= x})

(* The place found as an index: an append is the length of the queue. *)
FoundPlace(q, x) ==
  LET p == Place(q, "PRQ", [priority |-> x, deadline |-> 0])
  IN  IF p < 0 THEN Len(q) ELSE p

(* In a sorted queue the search misses the sorted place by at most one     *)
(* position, and then on the early side: an item never waits behind an     *)
(* item it should precede when it is inserted.                             *)
PlacedAtMostOneEarly ==
  SortedQueue(MainQueue) =>
    \A x \in Priorities :
      FoundPlace(MainQueue, x) \in {SortedPlace(MainQueue, x) - 1, SortedPlace(MainQueue, x)}

(* In a sorted queue an item is placed behind every waiting item of its    *)
(* own priority (subtask-queue_test.go:215, the later one is younger).     *)
FifoAmongEquals ==
  SortedQueue(MainQueue) =>
    \A x \in Priorities, i \in DOMAIN MainQueue :
      priorities(MainQueue)[i] = x => i <= FoundPlace(MainQueue, x)

(* The sanity loop in Enqueue inserts before the first item of greater     *)
(* priority value, which keeps the main queue sorted.                      *)
MainQueueSorted == SortedQueue(MainQueue)
=============================================================================
