----------------------------- MODULE Histogram -----------------------------
(***************************************************************************)
(* The histogram of a sliding window (histogram/histogram.go): the tree of *)
(* HistogramTree, the queue of the samples in the window, the smallest and *)
(* the largest item, and the tracked percentile points, each an item with  *)
(* the number of samples up to it.  The pod cache feeds it with service    *)
(* times and asks it for percentiles.                                      *)
(*                                                                         *)
(* Enqueue holds the mutex from its first line to its last, the dequeues   *)
(* of an overflow included, so it is one action.  A percentile is a number *)
(* of hundredths.  Mean, variance and buckets are left out.                *)
(***************************************************************************)
EXTENDS HistogramTree, FiniteSets

CONSTANTS
  QueueSize,     \* size of the window; 0, no limit, is not modelled
  Percentiles,   \* points added with AddPercentilePoint before any sample
  SampleCounts   \* the counts that Enqueue is called with

ASSUME HistogramAssumption ==
  /\ QueueSize \in Nat \ {0}
  /\ Percentiles \subseteq 1..99
  /\ SampleCounts \subseteq Nat \ {0}

VARIABLE hist

Point == [item : Values \cup {NoItem}, count : Int]

HistogramInit ==
  hist = [tree |-> EmptyTree, Queue |-> <<>>, MinItem |-> NoItem, MaxItem |-> NoItem,
          tracked |-> [p \in Percentiles |-> [item |-> NoItem, count |-> 0]]]
-----------------------------------------------------------------------------
Share(count) == 100 * count
Whole(p, h) == p * h.count[h.root]

(* A round of the loop over Smaller: while the share is too large, the     *)
(* point moves on.  The share of the first round is the point's own, a     *)
(* later one is that of the item before it.                                *)
SmallerRound(h, p, a) ==
  LET x == h.next[L][a.item]
      c == a.count - h.dup[a.item]
  IN  IF x = NoItem \/ Share(a.share) <= Whole(p, h) THEN a
      ELSE [item |-> x, count |-> c, share |-> c - h.dup[x]]

(* A round of the loop over Larger: while the share is too small, the      *)
(* point moves on unless the next share would be too large.                *)
LargerRound(h, p, a) ==
  LET x == h.next[R][a.item]
      c == a.count + h.dup[x]
  IN  IF x = NoItem \/ Share(a.share) >= Whole(p, h) THEN a
      ELSE IF Share(c) <= Whole(p, h) THEN [item |-> x, count |-> c, share |-> c]
      ELSE [a EXCEPT !.share = c]

(* A point moves to an item at most once, and rounds after the last change *)
(* nothing.                                                                *)
Walked(h, point, p, s) ==
  LET rounds == Cardinality({x \in Values : h.dup[x] > 0})
      after[i \in 0 .. rounds] ==
        IF i = 0 THEN [item |-> point.item, count |-> point.count, share |-> point.count]
        ELSE IF s = L THEN SmallerRound(h, p, after[i - 1])
        ELSE LargerRound(h, p, after[i - 1])
      end == after[rounds]
  IN  [item |-> end.item, count |-> end.count]

AfterInsert(h, point, p, v) ==
  IF v <= point.item THEN Walked(h, [point EXCEPT !.count = @ + 1], p, L)
  ELSE Walked(h, point, p, R)

(* h is the tree without the sample v, before the tree with it. *)
AfterDelete_keeps_share(h, before, point, p, v) ==   \* variant: duplications forgotten
  LET lost == [point EXCEPT !.count = @ - 1]
      larger == before.next[R][v]
      moved == IF larger # NoItem THEN [lost EXCEPT !.item = larger]
               ELSE [lost EXCEPT !.item = before.next[L][v]]
  IN  IF v > point.item THEN Walked(h, point, p, L)
      ELSE Walked(h, IF v = point.item /\ before.dup[v] = 1 THEN moved ELSE lost, p, R)

AfterDelete(h, before, point, p, v) ==
  LET lost == [point EXCEPT !.count = @ - 1]
      larger == before.next[R][v]
      moved == IF larger # NoItem THEN [item |-> larger, count |-> lost.count + h.dup[larger]]
               ELSE [lost EXCEPT !.item = before.next[L][v]]
  IN  IF v > point.item THEN Walked(h, point, p, L)
      ELSE Walked(h, IF v = point.item /\ before.dup[v] = 1 THEN moved ELSE lost, p, R)

Dequeue_keeps_extremes(s) ==   \* variant: MaxItem is not moved
  LET v == Head(s.Queue)
      h == Delete(s.tree, v)
      removed == s.tree.dup[v] = 1
  IN  [tree |-> h, Queue |-> Tail(s.Queue), MaxItem |-> s.MaxItem,
       MinItem |-> IF removed /\ v = s.MinItem THEN s.tree.next[R][v] ELSE s.MinItem,
       tracked |-> [p \in Percentiles |-> AfterDelete(h, s.tree, s.tracked[p], p, v)]]

(* Only called for an overflow: the window never gets empty. *)
Dequeue(s) ==
  LET v == Head(s.Queue)
      h == Delete(s.tree, v)
      removed == s.tree.dup[v] = 1
  IN  [tree |-> h, Queue |-> Tail(s.Queue),
       MaxItem |-> IF removed /\ v = s.MaxItem THEN s.tree.next[L][v] ELSE s.MaxItem,
       MinItem |-> IF removed /\ v = s.MinItem THEN s.tree.next[R][v] ELSE s.MinItem,
       tracked |-> [p \in Percentiles |-> AfterDelete(h, s.tree, s.tracked[p], p, v)]]

WithSamples(q, v, k) == q \o [i \in 1..k |-> v]

First(v, k) ==
  [tree |-> RootNode(v, k), Queue |-> WithSamples(<<>>, v, k), MinItem |-> v, MaxItem |-> v,
   tracked |-> [p \in Percentiles |-> [item |-> v, count |-> k]]]

Added(s, v, k) ==
  LET h == Insert(s.tree, v, k)
      beyond(x, side) == IF h.next[side][x] = NoItem THEN x ELSE h.next[side][x]
  IN  [tree |-> h, Queue |-> WithSamples(s.Queue, v, k),
       MinItem |-> beyond(s.MinItem, L), MaxItem |-> beyond(s.MaxItem, R),
       tracked |-> [p \in Percentiles |-> AfterInsert(h, s.tracked[p], p, v)]]

Overflow_late(s) == Len(s.Queue) - QueueSize - 1   \* variant: one sample too many stays
Overflow(s) == Len(s.Queue) - QueueSize

Dequeued(s, n) ==   \* n times
  LET after[i \in 0 .. n] == IF i = 0 THEN s ELSE Dequeue(after[i - 1])
  IN  after[n]

Trimmed(s) == IF Overflow(s) > 0 THEN Dequeued(s, Overflow(s)) ELSE s

Enqueue(v, k) ==
  hist' = Trimmed(IF hist.tree.root = NoItem THEN First(v, k) ELSE Added(hist, v, k))

HistogramNext == \E v \in Values, k \in SampleCounts : Enqueue(v, k)

HistogramSpec == HistogramInit /\ [][HistogramNext]_hist
-----------------------------------------------------------------------------
Tree == hist.tree
Queue == hist.Queue
Nodes == {v \in Values : Tree.dup[v] > 0}
UpTo(n) == {x \in Values : x <= n}
NumberIn(S) == Cardinality({i \in DOMAIN Queue : Queue[i] \in S})

(* Pointers, counts and points have their types, and the window never has *)
(* more samples than its size when Enqueue returns.                       *)
HistogramTypeOK ==
  /\ Tree.root \in Values \cup {NoItem}
  /\ Tree.parent \in Pointers
  /\ \A s \in Sides : Tree.child[s] \in Pointers /\ Tree.next[s] \in Pointers
  /\ {Tree.height, Tree.dup} \subseteq [Values -> Nat] /\ Tree.count \in [Values -> Int]
  /\ Queue \in Seq(Values) /\ Len(Queue) <= QueueSize
  /\ {hist.MinItem, hist.MaxItem} \subseteq Values \cup {NoItem}
  /\ hist.tracked \in [Percentiles -> Point]

(* Insertions, deletions and rotations leave one search tree: a search     *)
(* from the root ends at every node, child and parent pointers agree, and  *)
(* Smaller and Larger link the nodes in the order of their values.         *)
TreeOrdered ==
  \A n \in Nodes :
    /\ PlaceOf(Tree, n) = n
    /\ \A s \in Sides, m \in Values : Tree.child[s][n] = m =>
         Tree.parent[m] = n /\ s = Towards(m, n) /\ m \in Nodes
    /\ \A s \in Sides :
         LET beyond == {m \in Nodes : m # n /\ Towards(m, n) = s}
         IN  IF beyond = {} THEN Tree.next[s][n] = NoItem
             ELSE /\ Tree.next[s][n] \in beyond
                  /\ \A m \in beyond : m = Tree.next[s][n] \/ Towards(m, Tree.next[s][n]) = s

(* The count that a node keeps is the number of samples of the window in   *)
(* its subtree, and its height is one more than its highest child's,       *)
(* however the subtree was rotated or a deletion took nodes out of it.     *)
CountsExact ==
  \A n \in Nodes :
    /\ Tree.count[n] = NumberIn({x \in Values : n \in ToSet(Path(Tree, x))})
    /\ Tree.height[n] = CalcHeight(Tree, n).height[n]

(* The tree holds what the queue holds, as often as the queue holds it,    *)
(* and MinItem and MaxItem are its first and its last item.                *)
WindowMatchesTree ==
  /\ Nodes = ToSet(Queue)
  /\ \A n \in Nodes : Tree.dup[n] = NumberIn({n})
  /\ Queue # <<>> =>
       /\ {hist.MinItem, hist.MaxItem, Tree.root} \subseteq Nodes
       /\ \A n \in Nodes : hist.MinItem <= n /\ n <= hist.MaxItem

(* FindNoLargerThan finds the largest item of the window that is not       *)
(* larger than the given value, or none, and CumulativeCount counts the    *)
(* samples that are not larger than an item.                               *)
SearchExact ==
  /\ \A v \in Values :
       LET found == FindNoLargerThan(Tree, Tree.root, v)
           candidates == {n \in Nodes : n <= v}
       IN  IF candidates = {} THEN found = NoItem
           ELSE found \in candidates /\ \A n \in candidates : n <= found
  /\ \A n \in Nodes : CumulativeCount(Tree, n) = NumberIn(UpTo(n))

(* The count that a percentile point carries along is the number of        *)
(* samples that are not larger than its item, which is in the window.      *)
TrackedCountExact ==
  Queue # <<>> =>
    \A p \in Percentiles :
      LET point == hist.tracked[p]
      IN  point.item \in Nodes /\ point.count = NumberIn(UpTo(point.item))

(* The share of a percentile point's samples is not larger than the        *)
(* percentile, unless its item is the smallest (histogram_test.go:114      *)
(* asserts that the percentile minus the share is at least zero).          *)
PercentileNotExceeded ==
  \A p \in Percentiles :
    LET item == hist.tracked[p].item
    IN  item = hist.MinItem \/ Share(CumulativeCount(Tree, item)) <= Whole(p, Tree)
=============================================================================
