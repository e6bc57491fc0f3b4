--------------------------- MODULE HistogramTree ---------------------------
(***************************************************************************)
(* The binary tree of a histogram (histogram/histogram-item.go), written   *)
(* as operators from tree to tree.  A node keeps its identity while it is  *)
(* moved, and no two nodes of a tree have the same value, so a node is     *)
(* named by its value and a pointer is a value or NoItem.                  *)
(*                                                                         *)
(* Left and Right, and Smaller and Larger, are handled by mirrored code:   *)
(* here they are the two sides of child and of next.                       *)
(***************************************************************************)
EXTENDS Integers, Sequences, SequencesExt

CONSTANTS
  Values,  \* values that samples are rounded to
  NoItem

ASSUME HistogramTreeAssumption == Values \subseteq Nat /\ NoItem \notin Values

L == "left"    \* Left and Smaller
R == "right"   \* Right and Larger
Sides == {L, R}
Other(s) == IF s = L THEN R ELSE L

Pointers == [Values -> Values \cup {NoItem}]

EmptyTree ==
  [root |-> NoItem,
   child |-> [s \in Sides |-> [v \in Values |-> NoItem]],
   next |-> [s \in Sides |-> [v \in Values |-> NoItem]],
   parent |-> [v \in Values |-> NoItem],
   height |-> [v \in Values |-> 0],
   count |-> [v \in Values |-> 0],
   dup |-> [v \in Values |-> 0]]

HeightOf(h, n) == IF n = NoItem THEN 0 ELSE h.height[n]
CountOf(h, n) == IF n = NoItem THEN 0 ELSE h.count[n]

(* n and its ancestors, from n up to the root. *)
Path(h, n) ==
  LET up[c \in Values \cup {NoItem}] == IF c = NoItem THEN <<>> ELSE <<c>> \o up[h.parent[c]]
  IN  up[n]

AddCount(h, nodes, d) ==
  [h EXCEPT !.count = [v \in Values |-> h.count[v] + IF v \in nodes THEN d ELSE 0]]

CalcHeight(h, t) ==
  LET l == HeightOf(h, h.child[L][t])
      r == HeightOf(h, h.child[R][t])
  IN  [h EXCEPT !.height[t] = 1 + IF r > l THEN r ELSE l]

SetChild(h, s, n, c) == [h EXCEPT !.child[s][n] = c]
SetCount(h, n, k) == [h EXCEPT !.count[n] = k]
SetHeight(h, n, k) == [h EXCEPT !.height[n] = k]
SetDup(h, n, k) == [h EXCEPT !.dup[n] = k]

(* Nothing happens if n is NoItem, here and in SetParent. *)
SetNext(h, s, n, m) ==
  [h EXCEPT !.next = [y \in Sides |-> [x \in Values |->
                        IF y = s /\ x = n THEN m ELSE h.next[y][x]]]]

(* The parent of old, if any, gets new for its child. *)
ReplaceChild(h, old, new) ==
  [h EXCEPT !.child =
     [s \in Sides |-> [x \in Values |->
        IF x = h.parent[old] /\ h.child[s][x] = old THEN new ELSE h.child[s][x]]]]

SetParent_skipped(h, n, p) == h   \* variant: a moved subtree keeps its parent

SetParent(h, n, p) ==
  [h EXCEPT !.parent = [x \in Values |-> IF x = n THEN p ELSE h.parent[x]]]

(* LeftRotate for s = R, RightRotate for s = L: the child p of t on side s *)
(* takes the place of t, and t takes p's inner subtree.                    *)
Rotate_keeps_count(h, t, s) ==   \* variant: the counts are not carried over
  LET p == h.child[s][t]
      inner == h.child[Other(s)][p]
      up == h.parent[t]
      h1 == SetParent(ReplaceChild(SetChild(h, s, t, inner), t, p), inner, t)
      h2 == SetChild(SetParent(SetParent(h1, p, up), t, p), Other(s), p, t)
  IN  IF p = NoItem THEN h ELSE CalcHeight(CalcHeight(h2, t), p)

Rotate(h, t, s) ==
  LET p == h.child[s][t]
      inner == h.child[Other(s)][p]
      up == h.parent[t]
      h1 == SetParent(ReplaceChild(SetChild(h, s, t, inner), t, p), inner, t)
      h2 == SetChild(SetParent(SetParent(h1, p, up), t, p), Other(s), p, t)
      h3 == SetCount(SetCount(h2, t, h.count[t] - h.count[p] + CountOf(h, inner)), p, h.count[t])
  IN  IF p = NoItem THEN h ELSE CalcHeight(CalcHeight(h3, t), p)

(* One round of UpdateHeight, for node c: its height, and a rotation if    *)
(* one side is higher by more than one.  An insertion first rotates the    *)
(* higher child the other way, whichever grandchild is the higher one.     *)
Rebalance(h, c, isInserting) ==
  LET h1 == CalcHeight(h, c)
      excess(s) == HeightOf(h1, h1.child[s][c]) - HeightOf(h1, h1.child[Other(s)][c])
      rotated(s) ==
        LET q == h1.child[s][c]
        IN  Rotate(IF isInserting THEN Rotate(h1, q, Other(s)) ELSE h1, c, s)
  IN  IF excess(L) > 1 THEN rotated(L) ELSE IF excess(R) > 1 THEN rotated(R) ELSE h1

(* The nodes one after the other. *)
Rebalanced(h, nodes, isInserting) ==
  LET after[i \in 0 .. Len(nodes)] ==
        IF i = 0 THEN h ELSE Rebalance(after[i - 1], nodes[i], isInserting)
  IN  after[Len(nodes)]

(* From t up to the root, whose last replacement is the new root. *)
UpdateHeight(h, t, isInserting) ==
  LET h1 == Rebalanced(h, Path(h, t), isInserting)
  IN  [h1 EXCEPT !.root = Last(Path(h1, t))]

Towards(v, n) == IF v < n THEN L ELSE R

(* Where Insert stops: at v's node or at the one that is to be its parent. *)
PlaceOf(h, v) ==
  LET place[n \in Values] ==
        IF v = n \/ h.child[Towards(v, n)][n] = NoItem THEN n
        ELSE place[h.child[Towards(v, n)][n]]
  IN  place[h.root]

(* A new node next to t, linked between t and the value beyond it. *)
NewNode(h, t, v, k) ==
  LET s == Towards(v, t)
      beyond == h.next[s][t]
      h1 == SetParent(SetChild(h, s, t, v), v, t)
      h2 == SetNext(SetNext(SetNext(h1, s, v, beyond), Other(s), v, t), s, t, v)
      h3 == SetNext(h2, Other(s), beyond, v)
  IN  SetDup(SetCount(SetHeight(h3, v, 1), v, 1), v, k)

RootNode(v, k) ==
  [EmptyTree EXCEPT !.root = v, !.height[v] = 1, !.count[v] = 1, !.dup[v] = k]

Insert(h, v, k) ==
  LET t == PlaceOf(h, v)
      h1 == IF v = t THEN SetDup(h, v, h.dup[v] + k) ELSE NewNode(h, t, v, k)
      h2 == AddCount(h1, ToSet(Path(h, t)), k)
  IN  IF v = t \/ h.child[Other(Towards(v, t))][t] # NoItem THEN h2
      ELSE UpdateHeight(SetHeight(h2, t, h2.height[t] + 1), t, TRUE)

(* The last node of t's subtree on side s: FindLargestInLeft and           *)
(* FindSmallestInRight start with a child.                                 *)
Extreme(h, t, s) ==
  LET far[c \in Values] == IF h.child[s][c] = NoItem THEN c ELSE far[h.child[s][c]]
  IN  far[t]

Unlinked(h, t) ==
  LET h1 == SetChild(SetChild(h, L, t, NoItem), R, t, NoItem)
      h2 == SetParent(SetNext(SetNext(h1, L, t, NoItem), R, t, NoItem), t, NoItem)
  IN  SetDup(SetCount(SetHeight(h2, t, 0), t, 0), t, 0)

(* The neighbors of t become neighbors. *)
DeleteLeaf(h, t) ==
  LET h1 == SetNext(SetNext(h, L, h.next[R][t], h.next[L][t]), R, h.next[L][t], h.next[R][t])
      h2 == AddCount(ReplaceChild(h1, t, NoItem), ToSet(Path(h, h.parent[t])), -h.dup[t])
  IN  UpdateHeight(Unlinked(h2, t), h.parent[t], FALSE)

(* t is replaced by its neighbor r on side s, which leaves its own place   *)
(* to its only child.                                                      *)
DeleteInner(h, t, s) ==
  LET o == Other(s)
      r == Extreme(h, h.child[s][t], o)
      q == h.parent[r]
      deep == q # t
      between == ToSet(Path(h, q)) \ ToSet(Path(h, t))
      far == h.next[o][t]
      h1 == IF deep THEN SetParent(SetChild(h, o, q, h.child[s][r]), h.child[s][r], q) ELSE h
      h2 == SetCount(AddCount(h1, between, -h.dup[r]), r, h.count[t] - h.dup[t])
      h3 == ReplaceChild(SetParent(SetHeight(h2, r, h.height[t]), r, h.parent[t]), t, r)
      h4 == SetParent(SetChild(h3, o, r, h.child[o][t]), h.child[o][t], r)
      h5 == IF deep THEN SetParent(SetChild(h4, s, r, h.child[s][t]), h.child[s][t], r) ELSE h4
      h6 == SetNext(SetNext(h5, o, r, far), s, far, r)
      h7 == AddCount(h6, ToSet(Path(h, h.parent[t])), -h.dup[t])
  IN  UpdateHeight(Unlinked(h7, t), IF deep THEN q ELSE r, FALSE)

IsLast(h, t) == h.parent[t] = NoItem /\ \A s \in Sides : h.child[s][t] = NoItem

(* A value counted more than once only loses one of its duplications. *)
Delete(h, t) ==
  IF h.dup[t] > 1 THEN AddCount(SetDup(h, t, h.dup[t] - 1), ToSet(Path(h, t)), -1)
  ELSE IF IsLast(h, t) THEN EmptyTree
  ELSE IF h.child[L][t] # NoItem THEN DeleteInner(h, t, L)
  ELSE IF h.child[R][t] # NoItem THEN DeleteInner(h, t, R)
  ELSE DeleteLeaf(h, t)
-----------------------------------------------------------------------------
(* The loop of one side: on while the values stay on that side of v.       *)
LastOf(h, n, s, v) ==
  LET run[p \in Values] ==
        IF h.child[s][p] # NoItem /\ Towards(v, p) = s THEN run[h.child[s][p]] ELSE p
  IN  run[n]

(* FindNoLargerThan below node t; NoItem if there is none.                 *)
FindNoLargerThan(h, t, v) ==
  LET find[n \in Values \cup {NoItem}] ==
        IF n = NoItem THEN NoItem
        ELSE LET p == LastOf(h, n, Towards(v, n), v)
                 deeper == find[h.child[Towards(v, p)][p]]
             IN  IF p <= v THEN IF n <= v \/ deeper = NoItem THEN p ELSE deeper
                 ELSE IF v < n THEN NoItem
                 ELSE IF deeper = NoItem THEN h.parent[p] ELSE deeper
  IN  find[t]

(* The number of samples that are not larger than t, from t's left subtree *)
(* and from the ancestors that t is to the right of.                       *)
CumulativeCount_below(h, t) ==   \* variant: the ancestors are not counted
  IF t = NoItem THEN 0 ELSE h.dup[t] + CountOf(h, h.child[L][t])

CumulativeCount(h, t) ==
  LET own(n) == h.dup[n] + CountOf(h, h.child[L][n])
      up[n \in Values] ==
        IF h.parent[n] = NoItem THEN 0
        ELSE up[h.parent[n]] + IF h.child[L][h.parent[n]] = n THEN 0 ELSE own(h.parent[n])
  IN  IF t = NoItem THEN 0 ELSE own(t) + up[t]
=============================================================================
