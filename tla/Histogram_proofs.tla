-------------------------- MODULE Histogram_proofs --------------------------
(***************************************************************************)
(* Proofs about HistogramTree and Histogram: for any values and any size   *)
(* of the window, the samples that arrive and leave, with the rotations    *)
(* that they cause, leave a search tree whose links, heights and counts    *)
(* are right and which holds what the queue holds.                         *)
(*                                                                         *)
(* A tree h is described with its nodes N and a function D that gives the  *)
(* nodes below each node.  Shaped says that the pointers agree with D, and *)
(* every step of the code is shown to lead from one D to another: a        *)
(* rotation (RotateKeeps), the climb of UpdateHeight (UpdateHeightKeeps),  *)
(* a new leaf (InsertKeeps), a node that leaves (DeleteKeeps).  A deletion *)
(* of an inner node is the removal of its neighbor, which has one child at *)
(* most (Spliced), followed by a change of name (Renamed).  Heights are    *)
(* exact but for the nodes that the climb has not reached (ExactBut).      *)
(***************************************************************************)
EXTENDS Histogram, Induction

(* A tree, with numbers and pointers of any values.                        *)
Trees ==
  [root : Values \cup {NoItem}, child : [Sides -> Pointers], next : [Sides -> Pointers],
   parent : Pointers, height : [Values -> Nat], count : [Values -> Int], dup : [Values -> Nat]]

LEMMA TwoSides ==
  ASSUME NEW s \in Sides
  PROVE  /\ Other(s) \in Sides /\ Other(s) # s /\ Other(Other(s)) = s
         /\ Sides = {s, Other(s)}
  BY DEF Sides, Other, L, R

(* What the fields of a tree are.                                          *)
LEMMA TreeFields ==
  ASSUME NEW h \in Trees
  PROVE  /\ h.root \in Values \cup {NoItem} /\ h.parent \in Pointers
         /\ h.child \in [Sides -> Pointers] /\ h.next \in [Sides -> Pointers]
         /\ h.height \in [Values -> Nat] /\ h.count \in [Values -> Int] /\ h.dup \in [Values -> Nat]
         /\ \A v \in Values :
              /\ h.parent[v] \in Values \cup {NoItem}
              /\ h.height[v] \in Nat /\ h.count[v] \in Int /\ h.dup[v] \in Nat
              /\ \A s \in Sides : h.child[s][v] \in Values \cup {NoItem} /\ h.next[s][v] \in Values \cup {NoItem}
<1>1. /\ h.root \in Values \cup {NoItem} /\ h.parent \in Pointers
      /\ h.child \in [Sides -> Pointers] /\ h.next \in [Sides -> Pointers]
      /\ h.height \in [Values -> Nat] /\ h.count \in [Values -> Int] /\ h.dup \in [Values -> Nat]
  BY DEF Trees
<1>2. ASSUME NEW v \in Values
      PROVE  /\ h.parent[v] \in Values \cup {NoItem}
             /\ h.height[v] \in Nat /\ h.count[v] \in Int /\ h.dup[v] \in Nat
             /\ \A s \in Sides : h.child[s][v] \in Values \cup {NoItem} /\ h.next[s][v] \in Values \cup {NoItem}
  BY <1>1 DEF Pointers
<1>. QED
  BY <1>1, <1>2

(* A step that touches one field only.                                     *)
OnlyChild(h, g) ==
  /\ g \in Trees /\ g.root = h.root /\ g.next = h.next /\ g.parent = h.parent
  /\ g.height = h.height /\ g.count = h.count /\ g.dup = h.dup
OnlyParent(h, g) ==
  /\ g \in Trees /\ g.root = h.root /\ g.next = h.next /\ g.child = h.child
  /\ g.height = h.height /\ g.count = h.count /\ g.dup = h.dup
OnlyCount(h, g) ==
  /\ g \in Trees /\ g.root = h.root /\ g.next = h.next /\ g.child = h.child
  /\ g.parent = h.parent /\ g.height = h.height /\ g.dup = h.dup
OnlyHeight(h, g) ==
  /\ g \in Trees /\ g.root = h.root /\ g.next = h.next /\ g.child = h.child
  /\ g.parent = h.parent /\ g.count = h.count /\ g.dup = h.dup

(* What the steps do. *)
ChildSet(h, g, s, t, v) ==
  /\ OnlyChild(h, g) /\ g.child[s][t] = v
  /\ \A y \in Sides, x \in Values : y # s \/ x # t => g.child[y][x] = h.child[y][x]
ChildReplaced(h, g, old, new) ==
  /\ OnlyChild(h, g)
  /\ \A y \in Sides, x \in Values :
       g.child[y][x] = IF x = h.parent[old] /\ h.child[y][x] = old THEN new ELSE h.child[y][x]
ParentSet(h, g, n, p) ==
  /\ OnlyParent(h, g)
  /\ \A x \in Values : g.parent[x] = IF x = n THEN p ELSE h.parent[x]
CountSet(h, g, t, k) ==
  /\ OnlyCount(h, g) /\ g.count[t] = k
  /\ \A x \in Values : x # t => g.count[x] = h.count[x]

LEMMA OneField ==
  ASSUME NEW h \in Trees
  PROVE  /\ \A c \in [Sides -> Pointers] :
              [h EXCEPT !.child = c] \in Trees
              /\ OnlyChild(h, [h EXCEPT !.child = c]) /\ [h EXCEPT !.child = c].child = c
         /\ \A c \in Pointers :
              [h EXCEPT !.parent = c] \in Trees
              /\ OnlyParent(h, [h EXCEPT !.parent = c]) /\ [h EXCEPT !.parent = c].parent = c
         /\ \A c \in [Values -> Int] :
              [h EXCEPT !.count = c] \in Trees
              /\ OnlyCount(h, [h EXCEPT !.count = c]) /\ [h EXCEPT !.count = c].count = c
         /\ \A c \in [Values -> Nat] :
              [h EXCEPT !.height = c] \in Trees
              /\ OnlyHeight(h, [h EXCEPT !.height = c]) /\ [h EXCEPT !.height = c].height = c
<1>1. ASSUME NEW c \in [Sides -> Pointers]
      PROVE  [h EXCEPT !.child = c] \in Trees
              /\ OnlyChild(h, [h EXCEPT !.child = c]) /\ [h EXCEPT !.child = c].child = c
  BY DEF OnlyChild, Trees
<1>2. ASSUME NEW c \in Pointers
      PROVE  [h EXCEPT !.parent = c] \in Trees
              /\ OnlyParent(h, [h EXCEPT !.parent = c]) /\ [h EXCEPT !.parent = c].parent = c
  BY DEF OnlyParent, Trees
<1>3. ASSUME NEW c \in [Values -> Int]
      PROVE  [h EXCEPT !.count = c] \in Trees
              /\ OnlyCount(h, [h EXCEPT !.count = c]) /\ [h EXCEPT !.count = c].count = c
  BY DEF OnlyCount, Trees
<1>4. ASSUME NEW c \in [Values -> Nat]
      PROVE  [h EXCEPT !.height = c] \in Trees
              /\ OnlyHeight(h, [h EXCEPT !.height = c]) /\ [h EXCEPT !.height = c].height = c
  BY DEF OnlyHeight, Trees
<1>. QED
  BY <1>1, <1>2, <1>3, <1>4

(* One child, one count, one parent is set.                                *)
LEMMA SetChildFacts ==
  ASSUME NEW h \in Trees, NEW s \in Sides, NEW t \in Values, NEW v \in Values \cup {NoItem},
         NEW g, g = SetChild(h, s, t, v)
  PROVE  g \in Trees /\ ChildSet(h, g, s, t, v)
<1>. DEFINE c == [h.child EXCEPT ![s][t] = v]
<1>1. h.child \in [Sides -> Pointers]
  BY TreeFields
<1>2. c \in [Sides -> Pointers]
  BY <1>1 DEF Pointers
<1>3. g = [h EXCEPT !.child = c]
  BY DEF Trees, SetChild
<1>4. c[s][t] = v /\ \A y \in Sides, x \in Values : y # s \/ x # t => c[y][x] = h.child[y][x]
  BY <1>1 DEF Pointers
<1>. HIDE DEF c
<1>5. g \in Trees /\ OnlyChild(h, g) /\ g.child = c
  BY <1>2, <1>3, OneField
<1>. QED
  BY <1>4, <1>5 DEF ChildSet

LEMMA SetCountFacts ==
  ASSUME NEW h \in Trees, NEW t \in Values, NEW k \in Int, NEW g, g = SetCount(h, t, k)
  PROVE  g \in Trees /\ CountSet(h, g, t, k)
<1>. DEFINE c == [h.count EXCEPT ![t] = k]
<1>1. h.count \in [Values -> Int]
  BY TreeFields
<1>2. c \in [Values -> Int]
  BY <1>1
<1>3. g = [h EXCEPT !.count = c]
  BY DEF Trees, SetCount
<1>4. c[t] = k /\ \A x \in Values : x # t => c[x] = h.count[x]
  BY <1>1
<1>. HIDE DEF c
<1>5. g \in Trees /\ OnlyCount(h, g) /\ g.count = c
  BY <1>2, <1>3, OneField
<1>. QED
  BY <1>4, <1>5 DEF CountSet

LEMMA SetParentFacts ==
  ASSUME NEW h \in Trees, NEW n \in Values \cup {NoItem}, NEW p \in Values \cup {NoItem},
         NEW g, g = SetParent(h, n, p)
  PROVE  g \in Trees /\ ParentSet(h, g, n, p)
<1>. DEFINE c == [x \in Values |-> IF x = n THEN p ELSE h.parent[x]]
<1>1. h.parent \in Pointers
  BY TreeFields
<1>2. c \in Pointers
  BY <1>1 DEF Pointers
<1>3. g = [h EXCEPT !.parent = c]
  BY DEF SetParent
<1>4. \A x \in Values : c[x] = IF x = n THEN p ELSE h.parent[x]
  OBVIOUS
<1>. HIDE DEF c
<1>5. g \in Trees /\ OnlyParent(h, g) /\ g.parent = c
  BY <1>2, <1>3, OneField
<1>. QED
  BY <1>4, <1>5 DEF ParentSet

(* A parent gets a new child for an old one.                               *)
LEMMA ReplaceChildFacts ==
  ASSUME NEW h \in Trees, NEW old \in Values, NEW new \in Values \cup {NoItem},
         NEW g, g = ReplaceChild(h, old, new)
  PROVE  g \in Trees /\ ChildReplaced(h, g, old, new)
<1>. DEFINE c == [y \in Sides |-> [x \in Values |->
                    IF x = h.parent[old] /\ h.child[y][x] = old THEN new ELSE h.child[y][x]]]
<1>1. h.child \in [Sides -> Pointers]
  BY TreeFields
<1>2. c \in [Sides -> Pointers]
  BY <1>1 DEF Pointers
<1>3. g = [h EXCEPT !.child = c]
  BY DEF ReplaceChild
<1>4. \A y \in Sides, x \in Values :
        c[y][x] = IF x = h.parent[old] /\ h.child[y][x] = old THEN new ELSE h.child[y][x]
  OBVIOUS
<1>. HIDE DEF c
<1>5. g \in Trees /\ OnlyChild(h, g) /\ g.child = c
  BY <1>2, <1>3, OneField
<1>. QED
  BY <1>4, <1>5 DEF ChildReplaced

(* The height that the heights of the children give.                       *)
HeightHere(h, n) ==
  LET l == HeightOf(h, h.child[L][n])
      r == HeightOf(h, h.child[R][n])
  IN  1 + IF r > l THEN r ELSE l

HeightSet(h, g, t) ==
  /\ OnlyHeight(h, g) /\ g.height[t] = HeightHere(h, t)
  /\ \A x \in Values : x # t => g.height[x] = h.height[x]

LEMMA CalcHeightFacts ==
  ASSUME NEW h \in Trees, NEW t \in Values,
         NEW g, g = CalcHeight(h, t)
  PROVE  g \in Trees /\ HeightSet(h, g, t)
<1>1. h.height \in [Values -> Nat]
  BY TreeFields
<1>2. \A n \in Values \cup {NoItem} : HeightOf(h, n) \in Nat
  BY <1>1 DEF HeightOf
<1>3. L \in Sides /\ R \in Sides
  BY DEF Sides
<1>4. h.child[L][t] \in Values \cup {NoItem} /\ h.child[R][t] \in Values \cup {NoItem}
  BY <1>3, TreeFields
<1>. DEFINE e == HeightHere(h, t)
            c == [h.height EXCEPT ![t] = e]
<1>5. e \in Nat
  BY <1>2, <1>4 DEF HeightHere
<1>6. CalcHeight(h, t) = [h EXCEPT !.height[t] = e]
  BY DEF CalcHeight, HeightHere
<1>. HIDE DEF e
<1>7. [h EXCEPT !.height[t] = e] = [h EXCEPT !.height = c]
  BY DEF Trees
<1>8. c \in [Values -> Nat] /\ c[t] = e /\ \A x \in Values : x # t => c[x] = h.height[x]
  BY <1>1, <1>5
<1>. HIDE DEF c
<1>9. g = [h EXCEPT !.height = c]
  BY <1>6, <1>7
<1>10. g \in Trees /\ OnlyHeight(h, g) /\ g.height = c
  BY <1>8, <1>9, OneField
<1>. QED
  BY <1>8, <1>10 DEF HeightSet, e

(* The rotation of t and its child p on side s; the fields one by one.     *)
Rotated(h, g, t, s) ==
  LET o == Other(s)
      p == h.child[s][t]
      inner == h.child[o][p]
      up == h.parent[t]
  IN  /\ g \in Trees
      /\ g.root = h.root /\ g.next = h.next /\ g.dup = h.dup
      /\ g.child[s][t] = inner /\ g.child[o][p] = t
      /\ g.child[o][t] = h.child[o][t] /\ g.child[s][p] = h.child[s][p]
      /\ \A y \in Sides, x \in Values \ {t, p} :
           g.child[y][x] = IF x = up /\ h.child[y][x] = t THEN p ELSE h.child[y][x]
      /\ g.parent[t] = p /\ g.parent[p] = up
      /\ \A x \in Values \ {t, p} : g.parent[x] = IF x = inner THEN t ELSE h.parent[x]
      /\ g.count[t] = h.count[t] - h.count[p] + CountOf(h, inner)
      /\ g.count[p] = h.count[t]
      /\ \A x \in Values \ {t, p} : g.count[x] = h.count[x] /\ g.height[x] = h.height[x]
      /\ g.height[t] = HeightHere(g, t) /\ g.height[p] = HeightHere(g, p)

(* The nodes and subtrees that a rotation moves are not the same.          *)
Turnable(h, t, s) ==
  LET o == Other(s)
      p == h.child[s][t]
  IN  /\ p \in Values /\ p # t
      /\ \A y \in Sides : h.child[y][p] # t /\ h.child[y][p] # p
      /\ h.child[o][t] # t /\ h.child[o][t] # p
      /\ h.parent[t] # t /\ h.parent[t] # p

LEMMA RotateFacts ==
  ASSUME NEW h \in Trees, NEW t \in Values, NEW s \in Sides, Turnable(h, t, s),
         NEW f, f = Rotate(h, t, s)
  PROVE  f \in Trees /\ Rotated(h, f, t, s)
<1>. DEFINE o == Other(s)
            p == h.child[s][t]
            inner == h.child[o][p]
            up == h.parent[t]
            ha == SetChild(h, s, t, inner)
            hb == ReplaceChild(ha, t, p)
            hc == SetParent(hb, inner, t)
            hd == SetParent(hc, p, up)
            he == SetParent(hd, t, p)
            hf == SetChild(he, o, p, t)
            e == h.count[t] - h.count[p] + CountOf(h, inner)
            hg == SetCount(hf, t, e)
            hh == SetCount(hg, p, h.count[t])
            hi == CalcHeight(hh, t)
            g == CalcHeight(hi, p)
<1>0. /\ o \in Sides /\ o # s /\ Sides = {s, o} /\ L \in Sides /\ R \in Sides
      /\ p \in Values /\ NoItem \notin Values
  BY TwoSides, HistogramTreeAssumption DEF Sides, Turnable
<1>1. f = g
  BY <1>0 DEF Rotate
<1>2. inner \in Values \cup {NoItem} /\ up \in Values \cup {NoItem} /\ h.child[o][t] \in Values \cup {NoItem}
      /\ h.child[s][p] \in Values \cup {NoItem}
  BY <1>0, TreeFields
<1>3. e \in Int /\ h.count[t] \in Int
  BY <1>0, <1>2, TreeFields DEF CountOf
<1>4. p # t /\ inner # t /\ inner # p /\ up # t /\ up # p /\ h.child[o][t] # t
      /\ h.child[o][t] # p /\ h.child[s][p] # t /\ h.child[s][p] # p
  BY <1>0 DEF Turnable
<1>d1. ha = SetChild(h, s, t, inner)
  OBVIOUS
<1>d2. hb = ReplaceChild(ha, t, p)
  OBVIOUS
<1>d3. hc = SetParent(hb, inner, t)
  OBVIOUS
<1>d4. hd = SetParent(hc, p, up)
  OBVIOUS
<1>d5. he = SetParent(hd, t, p)
  OBVIOUS
<1>d6. hf = SetChild(he, o, p, t)
  OBVIOUS
<1>d7. hg = SetCount(hf, t, e)
  OBVIOUS
<1>d8. hh = SetCount(hg, p, h.count[t])
  OBVIOUS
<1>d9. hi = CalcHeight(hh, t)
  OBVIOUS
<1>d10. g = CalcHeight(hi, p)
  OBVIOUS
<1>. HIDE DEF e, ha, hb, hc, hd, he, hf, hg, hh, hi, g, p, inner, up, o
<1>o. o \in Sides
  BY <1>0
<1>p. p \in Values
  BY <1>0
<1>i. inner \in Values \cup {NoItem}
  BY <1>2
<1>u. up \in Values \cup {NoItem}
  BY <1>2
<1>v. p \in Values \cup {NoItem}
  BY <1>0
<1>w. t \in Values \cup {NoItem}
  OBVIOUS
<1>e. e \in Int
  BY <1>3
<1>c. h.count[t] \in Int
  BY <1>3
<1>5. ha \in Trees /\ ChildSet(h, ha, s, t, inner)
  BY <1>d1, <1>i, SetChildFacts
<1>6. hb \in Trees /\ ChildReplaced(ha, hb, t, p)
  BY <1>5, <1>d2, <1>v, ReplaceChildFacts
<1>7. hc \in Trees /\ ParentSet(hb, hc, inner, t)
  BY <1>6, <1>d3, <1>i, <1>w, SetParentFacts
<1>8. hd \in Trees /\ ParentSet(hc, hd, p, up)
  BY <1>7, <1>d4, <1>v, <1>u, SetParentFacts
<1>9. he \in Trees /\ ParentSet(hd, he, t, p)
  BY <1>8, <1>d5, <1>v, <1>w, SetParentFacts
<1>10. hf \in Trees /\ ChildSet(he, hf, o, p, t)
  BY <1>9, <1>d6, <1>o, <1>p, <1>w, SetChildFacts
<1>11. hg \in Trees /\ CountSet(hf, hg, t, e)
  BY <1>10, <1>d7, <1>e, SetCountFacts
<1>12. hh \in Trees /\ CountSet(hg, hh, p, h.count[t])
  BY <1>11, <1>d8, <1>p, <1>c, SetCountFacts
<1>13. hi \in Trees /\ HeightSet(hh, hi, t)
  BY <1>12, <1>d9, CalcHeightFacts
<1>14. g \in Trees /\ HeightSet(hi, g, p)
  BY <1>13, <1>d10, <1>p, CalcHeightFacts
(* Field by field.                                                         *)
<1>15. g \in Trees /\ g.root = h.root /\ g.next = h.next /\ g.dup = h.dup
  <2>1. he \in Trees /\ he.root = h.root /\ he.next = h.next /\ he.dup = h.dup
    BY <1>5, <1>6, <1>7, <1>8, <1>9 DEF OnlyChild, OnlyParent, ChildReplaced, ChildSet, ParentSet
  <2>. QED
    BY <2>1, <1>10, <1>11, <1>12, <1>13, <1>14 DEF OnlyChild, OnlyCount, OnlyHeight, ChildSet, CountSet, HeightSet
<1>16. g.child = hf.child /\ g.parent = he.parent /\ g.count = hh.count /\ hf.count = h.count
  <2>1. g.child = hf.child /\ g.parent = hf.parent /\ g.count = hh.count
    BY <1>11, <1>12, <1>13, <1>14 DEF OnlyCount, OnlyHeight, CountSet, HeightSet
  <2>. QED
    BY <2>1, <1>5, <1>6, <1>7, <1>8, <1>9, <1>10 DEF OnlyChild, OnlyParent, ChildReplaced, ChildSet, ParentSet
<1>17. hh.height = h.height
  <2>1. he.height = h.height
    BY <1>5, <1>6, <1>7, <1>8, <1>9 DEF OnlyChild, OnlyParent, ChildReplaced, ChildSet, ParentSet
  <2>. QED
    BY <2>1, <1>10, <1>11, <1>12 DEF OnlyChild, OnlyCount, ChildSet, CountSet
<1>18. he.child = hb.child /\ hb.parent = h.parent /\ ha.parent = h.parent
  BY <1>5, <1>6, <1>7, <1>8, <1>9 DEF OnlyChild, OnlyParent, ChildReplaced, ChildSet, ParentSet
<1>19. \A x \in Values : g.parent[x] = IF x = t THEN p ELSE IF x = p THEN up
                                       ELSE IF x = inner THEN t ELSE h.parent[x]
  BY <1>7, <1>8, <1>9, <1>16, <1>18 DEF ParentSet
<1>20. \A y \in Sides, x \in Values :
         hb.child[y][x] = IF x = up /\ h.child[y][x] = t THEN p
                          ELSE IF y = s /\ x = t THEN inner ELSE h.child[y][x]
  <2>1. ha.parent[t] = up
    BY <1>18 DEF up
  <2>. QED
    BY <1>4, <1>5, <1>6, <2>1 DEF ChildReplaced, ChildSet
<1>21. /\ g.child[o][p] = t
       /\ \A y \in Sides, x \in Values : y # o \/ x # p => g.child[y][x] = hb.child[y][x]
  BY <1>10, <1>16, <1>18 DEF ChildSet
<1>22. /\ g.child[s][t] = inner /\ g.child[o][t] = h.child[o][t] /\ g.child[s][p] = h.child[s][p]
       /\ \A y \in Sides, x \in Values \ {t, p} :
            g.child[y][x] = IF x = up /\ h.child[y][x] = t THEN p ELSE h.child[y][x]
  <2>1. g.child[s][t] = hb.child[s][t] /\ g.child[o][t] = hb.child[o][t] /\ g.child[s][p] = hb.child[s][p]
    BY <1>0, <1>4, <1>21
  <2>2. g.child[s][t] = inner /\ g.child[o][t] = h.child[o][t] /\ g.child[s][p] = h.child[s][p]
    BY <1>0, <1>4, <1>20, <2>1
  <2>. QED
    BY <1>20, <1>21, <2>2
<1>23. g.count[t] = e /\ g.count[p] = h.count[t] /\ \A x \in Values \ {t, p} : g.count[x] = h.count[x]
  BY <1>4, <1>11, <1>12, <1>16 DEF CountSet
<1>24. \A x \in Values \ {t, p} : g.height[x] = h.height[x]
  BY <1>13, <1>14, <1>17 DEF HeightSet
(* The heights of the two.                                                 *)
<1>26. g.child = hi.child /\ g.child = hh.child
  BY <1>13, <1>14 DEF OnlyHeight, HeightSet
<1>27. \A y \in Sides : g.child[y][t] # t /\ g.child[y][t] # p /\ g.child[y][p] # p
  BY <1>0, <1>4, <1>21, <1>22
<1>28. \A y \in Sides : g.child[y][t] \in Values \cup {NoItem} /\ g.child[y][p] \in Values \cup {NoItem}
  BY <1>0, <1>15, TreeFields
<1>29. \A y \in Sides : HeightOf(g, g.child[y][t]) = HeightOf(hh, hh.child[y][t])
  BY <1>13, <1>14, <1>26, <1>27, <1>28 DEF HeightOf, HeightSet
<1>30. \A y \in Sides : HeightOf(g, g.child[y][p]) = HeightOf(hi, hi.child[y][p])
  BY <1>14, <1>26, <1>27, <1>28 DEF HeightOf, HeightSet
<1>31. HeightHere(g, t) = HeightHere(hh, t) /\ HeightHere(g, p) = HeightHere(hi, p)
  BY <1>0, <1>29, <1>30 DEF HeightHere
<1>32. g.height[t] = HeightHere(g, t) /\ g.height[p] = HeightHere(g, p)
  BY <1>4, <1>13, <1>14, <1>31 DEF HeightSet
<1>33. Rotated(h, g, t, s)
  BY <1>0, <1>4, <1>15, <1>19, <1>21, <1>22, <1>23, <1>24, <1>32 DEF Rotated, p, inner, up, o, e
<1>. QED
  BY <1>1, <1>15, <1>33

-----------------------------------------------------------------------------
(***************************************************************************)
(* The shape of a tree: N are its nodes, and D[n] is n with all nodes that *)
(* are below n.                                                            *)
(***************************************************************************)
Below(D, n) == IF n = NoItem THEN {} ELSE D[n]

Descends(h, N, D) ==
  \A n \in N : D[n] = {n} \cup Below(D, h.child[L][n]) \cup Below(D, h.child[R][n])
Sided(h, N, D) ==
  \A n \in N, s \in Sides : \A m \in Below(D, h.child[s][n]) : m # n /\ Towards(m, n) = s
ChildLinks(h, N) ==
  \A n \in N, s \in Sides :
    h.child[s][n] # NoItem => h.child[s][n] \in N /\ h.parent[h.child[s][n]] = n
ParentLinks(h, N) ==
  \A n \in N : h.parent[n] # NoItem => h.parent[n] \in N /\ \E s \in Sides : h.child[s][h.parent[n]] = n
Outside(h, N) ==
  \A v \in Values \ N : h.parent[v] = NoItem /\ \A s \in Sides : h.child[s][v] = NoItem
OneRoot(h, N) == \A m, n \in N : h.parent[m] = NoItem /\ h.parent[n] = NoItem => m = n

Shaped(h, N, D) ==
  /\ N \subseteq Values /\ D \in [Values -> SUBSET N]
  /\ Descends(h, N, D) /\ Sided(h, N, D)
  /\ ChildLinks(h, N) /\ ParentLinks(h, N) /\ Outside(h, N) /\ OneRoot(h, N)

(* Counts and heights, as far as children determine them.                  *)
TreeCounted(h, N) ==
  \A n \in N : h.count[n] = h.dup[n] + CountOf(h, h.child[L][n]) + CountOf(h, h.child[R][n])
ExactBut(h, N, X) == \A n \in N \ X : h.height[n] = HeightHere(h, n)

LEMMA SideFacts ==
  ASSUME NEW a \in Values, NEW b \in Values, NEW s \in Sides, a # b, Towards(a, b) = s
  PROVE  /\ Towards(b, a) = Other(s)
         /\ \A x \in Values : x # a /\ Towards(x, a) = s => x # b /\ Towards(x, b) = s
<1>1. a \in Nat /\ b \in Nat /\ \A x \in Values : x \in Nat
  BY HistogramTreeAssumption
<1>2. s = L \/ s = R
  BY DEF Sides
<1>3. CASE s = L
  <2>1. a < b
    BY <1>3 DEF Towards, L, R
  <2>2. Towards(b, a) = Other(s)
    BY <1>1, <1>3, <2>1 DEF Towards, L, R, Other
  <2>3. ASSUME NEW x \in Values, x # a, Towards(x, a) = s PROVE x # b /\ Towards(x, b) = s
    <3>1. x < a
      BY <1>3, <2>3 DEF Towards, L, R
    <3>2. x < b
      BY <1>1, <2>1, <3>1
    <3>. QED
      BY <1>1, <1>3, <3>2 DEF Towards
  <2>. QED
    BY <2>2, <2>3
<1>4. CASE s = R
  <2>1. ~ (a < b)
    BY <1>4 DEF Towards, L, R
  <2>2. Towards(b, a) = Other(s)
    <3>1. b < a
      BY <1>1, <2>1
    <3>. QED
      BY <1>4, <3>1 DEF Towards, L, R, Other
  <2>3. ASSUME NEW x \in Values, x # a, Towards(x, a) = s PROVE x # b /\ Towards(x, b) = s
    <3>1. ~ (x < a)
      BY <1>4, <2>3 DEF Towards, L, R
    <3>2. ~ (x < b) /\ x # b
      BY <1>1, <2>1, <2>3, <3>1
    <3>. QED
      BY <1>4, <3>2 DEF Towards
  <2>. QED
    BY <2>2, <2>3
<1>. QED
  BY <1>2, <1>3, <1>4

(* What the shape says about a node, its child on a side and the rest.     *)
LEMMA ShapeFacts ==
  ASSUME NEW h \in Trees, NEW N, NEW D, Shaped(h, N, D), NEW n \in N
  PROVE  /\ n \in Values /\ n # NoItem /\ n \in D[n] /\ D[n] \subseteq N
         /\ \A s \in Sides :
              /\ D[n] = {n} \cup Below(D, h.child[s][n]) \cup Below(D, h.child[Other(s)][n])
              /\ h.child[s][n] # n
              /\ h.child[s][n] # NoItem => /\ h.child[s][n] \in N /\ h.parent[h.child[s][n]] = n
                                        /\ h.child[s][n] \in D[n] /\ D[h.child[s][n]] \subseteq D[n]
                                        /\ Towards(h.child[s][n], n) = s
                                        /\ n \notin D[h.child[s][n]]
                                        /\ h.child[Other(s)][n] # h.child[s][n]
<1>1. n \in Values /\ n # NoItem /\ D[n] \subseteq N
  BY HistogramTreeAssumption DEF Shaped
<1>2. D[n] = {n} \cup Below(D, h.child[L][n]) \cup Below(D, h.child[R][n])
  BY DEF Shaped, Descends
<1>3. ASSUME NEW s \in Sides
      PROVE  D[n] = {n} \cup Below(D, h.child[s][n]) \cup Below(D, h.child[Other(s)][n])
  <2>1. (s = L /\ Other(s) = R) \/ (s = R /\ Other(s) = L)
    BY DEF Sides, Other, L, R
  <2>. QED
    BY <1>2, <2>1
<1>4. ASSUME NEW s \in Sides, h.child[s][n] # NoItem
      PROVE  /\ h.child[s][n] \in N /\ h.parent[h.child[s][n]] = n
             /\ h.child[s][n] \in D[n] /\ D[h.child[s][n]] \subseteq D[n]
             /\ Towards(h.child[s][n], n) = s /\ h.child[s][n] # n
             /\ n \notin D[h.child[s][n]]
             /\ h.child[s][n] \in Below(D, h.child[s][n])
  <2>. DEFINE c == h.child[s][n]
  <2>1. c \in N /\ h.parent[c] = n
    BY <1>4 DEF Shaped, ChildLinks
  <2>2. c \in D[c]
    BY <2>1 DEF Shaped, Descends
  <2>3. Below(D, c) = D[c]
    BY <1>4 DEF Below
  <2>4. \A m \in D[c] : m # n /\ Towards(m, n) = s
    BY <2>3 DEF Shaped, Sided
  <2>. HIDE DEF c
  <2>5. D[c] \subseteq D[n]
    BY <1>3, <2>3 DEF c
  <2>6. c \in D[n] /\ Towards(c, n) = s /\ c # n /\ n \notin D[c]
    BY <2>2, <2>4, <2>5
  <2>. QED
    BY <2>1, <2>2, <2>3, <2>5, <2>6 DEF c
<1>5. ASSUME NEW s \in Sides, h.child[s][n] # NoItem PROVE h.child[Other(s)][n] # h.child[s][n]
  <2>1. Other(s) \in Sides /\ Other(s) # s
    BY TwoSides
  <2>2. Towards(h.child[s][n], n) = s
    BY <1>4, <1>5
  <2>3. h.child[Other(s)][n] # NoItem => Towards(h.child[Other(s)][n], n) = Other(s)
    BY <1>4, <2>1
  <2>. QED
    BY <1>5, <2>1, <2>2, <2>3
<1>6. ASSUME NEW s \in Sides PROVE h.child[s][n] # n
  BY <1>1, <1>4, <1>6
<1>7. n \in D[n]
  BY <1>2
<1>. QED
  BY <1>1, <1>3, <1>4, <1>5, <1>6, <1>7

(* No two nodes have a child in common, and the subtrees of a node's two   *)
(* children have no node in common.                                        *)
LEMMA ShapeApart ==
  ASSUME NEW h \in Trees, NEW N, NEW D, Shaped(h, N, D), NEW n \in N
  PROVE  /\ \A s \in Sides : \A m \in Below(D, h.child[s][n]) :
              m \in Values /\ m # n /\ Towards(m, n) = s /\ m \notin Below(D, h.child[Other(s)][n])
         /\ \A s \in Sides : Below(D, h.child[s][n]) \subseteq D[n]
         /\ h.parent[n] # n
         /\ h.parent[n] \in Values \cup {NoItem}
         /\ h.parent[n] # NoItem =>
              /\ h.parent[n] \in N /\ D[n] \subseteq D[h.parent[n]] /\ h.parent[n] \notin D[n]
              /\ \E s \in Sides : h.child[s][h.parent[n]] = n
<1>1. N \subseteq Values /\ D \in [Values -> SUBSET N] /\ NoItem \notin Values /\ n \in Values
  BY HistogramTreeAssumption DEF Shaped
<1>2. ASSUME NEW s \in Sides, NEW m \in Below(D, h.child[s][n])
      PROVE  m \in Values /\ m # n /\ Towards(m, n) = s /\ m \notin Below(D, h.child[Other(s)][n])
  <2>1. Other(s) \in Sides /\ Other(s) # s
    BY TwoSides
  <2>2. m # n /\ Towards(m, n) = s
    BY DEF Shaped, Sided
  <2>3. m \in Below(D, h.child[Other(s)][n]) => Towards(m, n) = Other(s)
    BY <2>1 DEF Shaped, Sided
  <2>4. m \in D[n] /\ D[n] \subseteq N
    BY ShapeFacts
  <2>. QED
    BY <1>1, <2>1, <2>2, <2>3, <2>4
<1>3. ASSUME NEW s \in Sides PROVE Below(D, h.child[s][n]) \subseteq D[n]
  BY ShapeFacts
<1>4. h.parent[n] \in Values \cup {NoItem}
  BY <1>1, TreeFields
<1>5. ASSUME h.parent[n] # NoItem
      PROVE  /\ h.parent[n] \in N /\ D[n] \subseteq D[h.parent[n]] /\ h.parent[n] \notin D[n]
             /\ \E s \in Sides : h.child[s][h.parent[n]] = n
             /\ h.parent[n] # n
  <2>1. h.parent[n] \in N
    BY <1>5 DEF Shaped, ParentLinks
  <2>2. PICK s \in Sides : h.child[s][h.parent[n]] = n
    BY <1>5 DEF Shaped, ParentLinks
  <2>3. n # NoItem
    BY <1>1
  <2>4. D[n] \subseteq D[h.parent[n]] /\ h.parent[n] \notin D[n]
    BY <2>1, <2>2, <2>3, ShapeFacts
  <2>5. n \in D[n]
    BY ShapeFacts
  <2>. QED
    BY <2>1, <2>2, <2>4, <2>5
<1>6. h.parent[n] # n
  BY <1>1, <1>5
<1>. QED
  BY <1>2, <1>3, <1>4, <1>5, <1>6

LEMMA OwnFacts ==
  ASSUME NEW h \in Trees, NEW N, NEW D, Shaped(h, N, D), NEW n \in N
  PROVE  n \in Values /\ n # NoItem /\ n \in D[n] /\ D[n] \subseteq N
  BY ShapeFacts

LEMMA BelowSide ==
  ASSUME NEW h \in Trees, NEW N, NEW D, Shaped(h, N, D), NEW n \in N, NEW s \in Sides,
         NEW m \in Below(D, h.child[s][n])
  PROVE  m \in Values /\ m # n /\ Towards(m, n) = s
  BY ShapeApart

(* A node with a child on side s can be turned.                            *)
LEMMA ShapeTurnable ==
  ASSUME NEW h \in Trees, NEW N, NEW D, Shaped(h, N, D), NEW t \in N, NEW s \in Sides,
         h.child[s][t] # NoItem
  PROVE  Turnable(h, t, s)
<1>. DEFINE p == h.child[s][t]
<1>1. /\ Other(s) \in Sides /\ t \in Values /\ NoItem \notin Values /\ N \subseteq Values
  BY TwoSides, HistogramTreeAssumption DEF Shaped
<1>2. /\ p \in N /\ h.parent[p] = t /\ p # t /\ t \notin D[p] /\ h.child[Other(s)][t] # p
  BY ShapeFacts
<1>3. h.child[Other(s)][t] # t
  BY <1>1, ShapeFacts
<1>. HIDE DEF p
<1>4. \A y \in Sides : h.child[y][p] # p /\ (h.child[y][p] # NoItem => h.child[y][p] \in D[p])
  BY <1>2, ShapeFacts
<1>5. \A y \in Sides : h.child[y][p] # t
  BY <1>1, <1>2, <1>4
<1>6. h.parent[t] # t
  BY ShapeApart
<1>7. h.parent[t] # p
  <2>1. ASSUME h.parent[t] = p PROVE FALSE
    <3>1. p # NoItem
      BY <1>1, <1>2
    <3>2. PICK y \in Sides : h.child[y][p] = t
      BY <2>1, <3>1, ShapeApart
    <3>. QED
      BY <1>5, <3>2
  <2>. QED
    BY <2>1
<1>. QED
  BY <1>1, <1>2, <1>3, <1>4, <1>5, <1>6, <1>7 DEF Turnable, p

(* Where nodes are below each other after the rotation.                    *)
Turned(h, D, t, s) ==
  LET p == h.child[s][t]
  IN  [v \in Values |->
         IF v = t THEN {t} \cup Below(D, h.child[Other(s)][t]) \cup Below(D, h.child[Other(s)][p])
         ELSE IF v = p THEN D[t] ELSE D[v]]

(* The names that the proofs about a rotation share.                       *)
Turn(h, f, N, D, E, t, s, o, p, inner, outer, rest, up) ==
  /\ o = Other(s) /\ p = h.child[s][t] /\ inner = h.child[o][p] /\ outer = h.child[s][p]
  /\ rest = h.child[o][t] /\ up = h.parent[t]
  /\ o \in Sides /\ o # s /\ Sides = {s, o} /\ Other(o) = s
  /\ N \subseteq Values /\ NoItem \notin Values /\ D \in [Values -> SUBSET N]
  /\ {t, p} \subseteq N /\ {inner, outer, rest, up} \subseteq N \cup {NoItem}
  /\ t # p /\ {inner, outer, rest, up} \cap {t, p} = {}
  /\ inner # NoItem => inner # outer /\ inner # rest
  /\ outer # NoItem => outer # rest
  /\ E[t] = {t} \cup Below(D, rest) \cup Below(D, inner) /\ E[p] = D[t]
  /\ \A v \in Values \ {t, p} : E[v] = D[v]
  /\ E \in [Values -> SUBSET N]

LEMMA TurnNames ==
  ASSUME NEW h \in Trees, NEW N, NEW D, Shaped(h, N, D), NEW t \in N, NEW s \in Sides,
         h.child[s][t] # NoItem, NEW f
  PROVE  \E o, p, inner, outer, rest, up :
            Turn(h, f, N, D, Turned(h, D, t, s), t, s, o, p, inner, outer, rest, up)
<1>. DEFINE o == Other(s)
            p == h.child[s][t]
            inner == h.child[o][p]
            outer == h.child[s][p]
            rest == h.child[o][t]
            up == h.parent[t]
            E == Turned(h, D, t, s)
<1>1. o \in Sides /\ o # s /\ Sides = {s, o} /\ Other(o) = s
  BY TwoSides
<1>2. N \subseteq Values /\ NoItem \notin Values /\ D \in [Values -> SUBSET N] /\ t \in Values
  BY HistogramTreeAssumption DEF Shaped
<1>3. p \in N /\ D[p] \subseteq D[t] /\ Towards(p, t) = s /\ t \notin D[p] /\ rest # p
  BY ShapeFacts
<1>4. Turnable(h, t, s)
  BY ShapeTurnable
<1>5. t # p /\ inner # t /\ inner # p /\ outer # t /\ outer # p /\ rest # t /\ rest # p
      /\ up # t /\ up # p
  BY <1>1, <1>4 DEF Turnable
<1>6. rest # NoItem => rest \in N /\ Towards(rest, t) = o
  BY <1>1, ShapeFacts
<1>7. up # NoItem => up \in N
  BY ShapeApart
<1>. HIDE DEF o, p
<1>8. inner # NoItem => inner \in N /\ inner \in D[p] /\ Towards(inner, p) = o
  BY <1>1, <1>3, ShapeFacts
<1>9. outer # NoItem => outer \in N /\ outer \in D[p] /\ Towards(outer, p) = s
  BY <1>1, <1>3, ShapeFacts
<1>10. \A m \in D[p] : Towards(m, t) = s
  <2>1. Below(D, h.child[s][t]) = D[p]
    BY <1>2, <1>3 DEF Below, p
  <2>. QED
    BY <2>1, ShapeApart
<1>11. inner # NoItem => inner # outer /\ inner # rest
  BY <1>1, <1>6, <1>8, <1>9, <1>10
<1>12. outer # NoItem => outer # rest
  BY <1>1, <1>6, <1>9, <1>10
<1>13. E[t] = {t} \cup Below(D, rest) \cup Below(D, inner)
  BY <1>2 DEF Turned, o, p
<1>14. E[p] = D[t]
  BY <1>2, <1>3, <1>5 DEF Turned, o, p
<1>15. \A v \in Values \ {t, p} : E[v] = D[v]
  BY <1>2, <1>5 DEF Turned, o, p
<1>16. DOMAIN E = Values /\ \E F : E = [v \in Values |-> F[v]]
  <2>1. E = [v \in Values |-> IF v = t THEN {t} \cup Below(D, rest) \cup Below(D, inner)
                              ELSE IF v = p THEN D[t] ELSE D[v]]
    BY DEF Turned, o, p
  <2>. HIDE DEF E
  <2>2. E = [v \in Values |-> E[v]]
    BY <2>1
  <2>. QED
    BY <2>1, <2>2
<1>17. E \in [Values -> SUBSET N]
  <2>. HIDE DEF E
  <2>1. Below(D, rest) \subseteq N /\ Below(D, inner) \subseteq N
    BY <1>2, <1>6, <1>8 DEF Below
  <2>2. \A v \in Values : E[v] \subseteq N
    BY <1>2, <1>13, <1>14, <1>15, <2>1
  <2>. QED
    BY <1>16, <2>2
<1>. HIDE DEF E, inner, outer, rest, up
<1>18. {t, p} \subseteq N /\ {inner, outer, rest, up} \subseteq N \cup {NoItem}
  BY <1>3, <1>6, <1>7, <1>8, <1>9
<1>19. {inner, outer, rest, up} \cap {t, p} = {}
  BY <1>5
<1>20. Turn(h, f, N, D, E, t, s, o, p, inner, outer, rest, up)
  BY <1>1, <1>2, <1>5, <1>11, <1>12, <1>13, <1>14, <1>15, <1>17, <1>18, <1>19
     DEF Turn, o, p, inner, outer, rest, up
<1>. QED
  BY <1>20 DEF E

(* The pointers after the rotation, under those names.                     *)
TurnedPointers(h, f, t, s, o, p, inner, outer, rest, up) ==
  /\ f.child[s][t] = inner /\ f.child[o][t] = rest
  /\ f.child[o][p] = t /\ f.child[s][p] = outer
  /\ \A y \in Sides, x \in Values \ {t, p} :
       f.child[y][x] = IF x = up /\ h.child[y][x] = t THEN p ELSE h.child[y][x]
  /\ f.parent[t] = p /\ f.parent[p] = up
  /\ \A x \in Values \ {t, p} : f.parent[x] = IF x = inner THEN t ELSE h.parent[x]

LEMMA TurnPointers ==
  ASSUME NEW h, NEW N, NEW D, NEW E, NEW t, NEW s, NEW f,
         Rotated(h, f, t, s),
         NEW o, NEW p, NEW inner, NEW outer, NEW rest, NEW up,
         Turn(h, f, N, D, E, t, s, o, p, inner, outer, rest, up)
  PROVE  TurnedPointers(h, f, t, s, o, p, inner, outer, rest, up)
<1>1. /\ Other(s) = o /\ h.child[s][t] = p /\ h.child[o][p] = inner /\ h.child[s][p] = outer
      /\ h.child[o][t] = rest /\ h.parent[t] = up
  BY DEF Turn
<1>. QED
  BY <1>1, Zenon DEF Rotated, TurnedPointers

LEMMA TurnedLinks ==
  ASSUME NEW h \in Trees, NEW N, NEW D, NEW E, NEW t \in N, NEW s \in Sides, NEW f \in Trees,
         Shaped(h, N, D), Rotated(h, f, t, s),
         NEW o, NEW p, NEW inner, NEW outer, NEW rest, NEW up,
         Turn(h, f, N, D, E, t, s, o, p, inner, outer, rest, up)
  PROVE  ChildLinks(f, N) /\ ParentLinks(f, N) /\ Outside(f, N) /\ OneRoot(f, N)
<1>0. TurnedPointers(h, f, t, s, o, p, inner, outer, rest, up)
  BY TurnPointers
<1>1. /\ f.child[s][t] = inner /\ f.child[o][t] = rest
      /\ f.child[o][p] = t /\ f.child[s][p] = outer
      /\ \A y \in Sides, x \in Values \ {t, p} :
           f.child[y][x] = IF x = up /\ h.child[y][x] = t THEN p ELSE h.child[y][x]
      /\ f.parent[t] = p /\ f.parent[p] = up
      /\ \A x \in Values \ {t, p} : f.parent[x] = IF x = inner THEN t ELSE h.parent[x]
  BY <1>0 DEF TurnedPointers
<1>2. /\ o \in Sides /\ o # s /\ Sides = {s, o}
      /\ N \subseteq Values /\ NoItem \notin Values
      /\ t \in N /\ p \in N /\ {inner, outer, rest, up} \subseteq N \cup {NoItem}
      /\ t # p /\ inner # t /\ inner # p /\ outer # t /\ outer # p /\ rest # t /\ rest # p
      /\ up # t /\ up # p
      /\ (inner # NoItem => inner # outer /\ inner # rest)
      /\ (outer # NoItem => outer # rest)
  BY DEF Turn
<1>3. /\ h.child[s][t] = p /\ h.child[o][t] = rest /\ h.child[o][p] = inner /\ h.child[s][p] = outer
      /\ h.parent[t] = up
  BY DEF Turn
<1>4. \A n \in N, y \in Sides :
        h.child[y][n] # NoItem => h.child[y][n] \in N /\ h.parent[h.child[y][n]] = n
  BY DEF Shaped, ChildLinks
<1>5. \A n \in N : h.parent[n] # NoItem => h.parent[n] \in N /\ \E y \in Sides : h.child[y][h.parent[n]] = n
  BY DEF Shaped, ParentLinks
<1>6. h.parent[p] = t /\ (inner # NoItem => h.parent[inner] = p) /\ (outer # NoItem => h.parent[outer] = p)
      /\ (rest # NoItem => h.parent[rest] = t)
  BY <1>2, <1>3, <1>4
<1>7. ASSUME NEW n \in N, NEW y \in Sides, f.child[y][n] # NoItem
      PROVE  f.child[y][n] \in N /\ f.parent[f.child[y][n]] = n
  <2>1. CASE n = t
    <3>1. f.child[y][n] = inner \/ f.child[y][n] = rest
      BY <1>1, <1>2, <2>1
    <3>2. inner # NoItem => inner \in N /\ f.parent[inner] = t
      BY <1>1, <1>2
    <3>3. rest # NoItem => rest \in N /\ f.parent[rest] = t
      BY <1>1, <1>2, <1>6
    <3>. QED
      BY <1>7, <2>1, <3>1, <3>2, <3>3
  <2>2. CASE n = p
    <3>1. f.child[y][n] = t \/ f.child[y][n] = outer
      BY <1>1, <1>2, <2>2
    <3>2. outer # NoItem => outer \in N /\ f.parent[outer] = p
      BY <1>1, <1>2, <1>6
    <3>. QED
      BY <1>1, <1>2, <1>7, <2>2, <3>1, <3>2
  <2>3. CASE n # t /\ n # p
    <3>1. n \in Values \ {t, p}
      BY <1>2, <2>3
    <3>2. CASE n = up /\ h.child[y][n] = t
      BY <1>1, <1>2, <3>1, <3>2
    <3>3. CASE ~ (n = up /\ h.child[y][n] = t)
      <4>. DEFINE m == h.child[y][n]
      <4>1. f.child[y][n] = m
        BY <1>1, <3>1, <3>3
      <4>2. m \in N /\ h.parent[m] = n
        BY <1>4, <1>7, <4>1
      <4>. HIDE DEF m
      <4>3. m # t
        BY <1>3, <3>3, <4>2 DEF m
      <4>4. m # p /\ m # inner
        BY <1>2, <1>6, <2>3, <4>2
      <4>5. f.parent[m] = n
        BY <1>1, <1>2, <4>2, <4>3, <4>4
      <4>. QED
        BY <4>1, <4>2, <4>5
    <3>. QED
      BY <3>2, <3>3
  <2>. QED
    BY <2>1, <2>2, <2>3
<1>8. ASSUME NEW n \in N, f.parent[n] # NoItem
      PROVE  f.parent[n] \in N /\ \E y \in Sides : f.child[y][f.parent[n]] = n
  <2>1. CASE n = t
    BY <1>1, <1>2, <2>1
  <2>2. CASE n = p
    <3>1. f.parent[n] = up /\ up \in N
      BY <1>1, <1>2, <1>8, <2>2
    <3>2. PICK y \in Sides : h.child[y][up] = t
      BY <1>2, <1>3, <1>5, <1>8, <3>1
    <3>3. f.child[y][up] = p
      BY <1>1, <1>2, <3>1, <3>2
    <3>. QED
      BY <2>2, <3>1, <3>3
  <2>3. CASE n # t /\ n # p /\ n = inner
    <3>1. f.parent[n] = t
      BY <1>1, <1>2, <2>3
    <3>. QED
      BY <1>1, <1>2, <2>3, <3>1
  <2>4. CASE n # t /\ n # p /\ n # inner
    <3>. DEFINE q == h.parent[n]
    <3>1. f.parent[n] = q
      BY <1>1, <1>2, <2>4
    <3>2. q \in N
      BY <1>5, <1>8, <3>1
    <3>3. PICK y \in Sides : h.child[y][q] = n
      BY <1>5, <1>8, <3>1
    <3>. HIDE DEF q
    <3>4. CASE q = t
      <4>1. y = o
        BY <1>2, <1>3, <2>4, <3>3, <3>4
      <4>2. f.child[o][q] = n
        BY <1>1, <1>3, <3>3, <3>4, <4>1
      <4>. QED
        BY <1>2, <3>1, <3>2, <4>2
    <3>5. CASE q = p
      <4>1. y = s
        BY <1>2, <1>3, <2>4, <3>3, <3>5
      <4>2. f.child[s][q] = n
        BY <1>1, <1>3, <3>3, <3>5, <4>1
      <4>. QED
        BY <3>1, <3>2, <4>2
    <3>6. CASE q # t /\ q # p
      <4>1. f.child[y][q] = n
        BY <1>1, <1>2, <2>4, <3>2, <3>3, <3>6
      <4>. QED
        BY <3>1, <3>2, <4>1
    <3>. QED
      BY <3>4, <3>5, <3>6
  <2>. QED
    BY <2>1, <2>2, <2>3, <2>4
<1>9. ASSUME NEW v \in Values \ N
      PROVE  f.parent[v] = NoItem /\ \A y \in Sides : f.child[y][v] = NoItem
  <2>1. v \in Values \ {t, p} /\ v # up /\ v # inner
    BY <1>2
  <2>2. h.parent[v] = NoItem /\ \A y \in Sides : h.child[y][v] = NoItem
    BY DEF Shaped, Outside
  <2>. QED
    BY <1>1, <2>1, <2>2
<1>10. ASSUME NEW m \in N, NEW n \in N, f.parent[m] = NoItem, f.parent[n] = NoItem PROVE m = n
  <2>1. \A x \in N : f.parent[x] = NoItem => (x = p /\ up = NoItem) \/ (x # p /\ x # t /\ h.parent[x] = NoItem)
    BY <1>1, <1>2
  <2>2. \A x, y \in N : h.parent[x] = NoItem /\ h.parent[y] = NoItem => x = y
    BY DEF Shaped, OneRoot
  <2>. QED
    BY <1>2, <1>3, <1>10, <2>1, <2>2
<1>. QED
  BY <1>7, <1>8, <1>9, <1>10 DEF ChildLinks, ParentLinks, Outside, OneRoot

(* The subtrees after the rotation are where the new children are.         *)
SameBelow(h, f, N, D, E, t, s, o, p, inner, outer, rest) ==
  /\ Below(E, f.child[s][t]) = Below(D, inner) /\ Below(E, f.child[o][t]) = Below(D, rest)
  /\ Below(E, f.child[o][p]) = E[t] /\ Below(E, f.child[s][p]) = Below(D, outer)
  /\ \A n \in N \ {t, p}, y \in Sides : Below(E, f.child[y][n]) = Below(D, h.child[y][n])

LEMMA TurnedBelow ==
  ASSUME NEW h \in Trees, NEW N, NEW D, NEW E, NEW t \in N, NEW s \in Sides, NEW f \in Trees,
         Shaped(h, N, D), Rotated(h, f, t, s),
         NEW o, NEW p, NEW inner, NEW outer, NEW rest, NEW up,
         Turn(h, f, N, D, E, t, s, o, p, inner, outer, rest, up)
  PROVE  SameBelow(h, f, N, D, E, t, s, o, p, inner, outer, rest)
<1>0. TurnedPointers(h, f, t, s, o, p, inner, outer, rest, up)
  BY TurnPointers
<1>1. /\ f.child[s][t] = inner /\ f.child[o][t] = rest
      /\ f.child[o][p] = t /\ f.child[s][p] = outer
      /\ \A y \in Sides, x \in Values \ {t, p} :
           f.child[y][x] = IF x = up /\ h.child[y][x] = t THEN p ELSE h.child[y][x]
  BY <1>0 DEF TurnedPointers
<1>2. /\ N \subseteq Values /\ NoItem \notin Values
      /\ t \in N /\ p \in N /\ {inner, outer, rest, up} \subseteq N \cup {NoItem}
      /\ t # p /\ inner # t /\ inner # p /\ outer # t /\ outer # p /\ rest # t /\ rest # p
      /\ E[t] = {t} \cup Below(D, rest) \cup Below(D, inner) /\ E[p] = D[t]
      /\ \A v \in Values \ {t, p} : E[v] = D[v]
  BY DEF Turn
<1>3. h.parent[t] = up /\ h.child[s][t] = p
  BY DEF Turn
<1>4. \A x \in N \cup {NoItem} : x # t /\ x # p => Below(E, x) = Below(D, x)
  BY <1>2 DEF Below
<1>5. Below(E, t) = E[t]
  BY <1>2 DEF Below
<1>6. Below(E, p) = D[t]
  BY <1>2 DEF Below
<1>7. Below(D, t) = D[t]
  BY <1>2 DEF Below
<1>8. ASSUME NEW n \in N \ {t, p}, NEW y \in Sides
      PROVE  Below(E, f.child[y][n]) = Below(D, h.child[y][n])
  <2>. DEFINE c == h.child[y][n]
  <2>1. c # NoItem => c \in N /\ h.parent[c] = n
    BY ShapeFacts
  <2>2. h.parent[p] = t
    BY <1>2, <1>3, ShapeFacts
  <2>3. f.child[y][n] = IF n = up /\ c = t THEN p ELSE c
    BY <1>1, <1>2
  <2>. HIDE DEF c
  <2>4. CASE c = t
    <3>1. n = up
      BY <1>2, <1>3, <2>1, <2>4
    <3>2. f.child[y][n] = p
      BY <2>3, <2>4, <3>1
    <3>. QED
      BY <1>6, <1>7, <2>4, <3>2 DEF c
  <2>5. CASE c # t
    <3>1. f.child[y][n] = c
      BY <2>3, <2>5
    <3>2. c # p
      BY <1>2, <2>1, <2>2
    <3>3. c \in N \cup {NoItem}
      BY <2>1
    <3>4. Below(E, c) = Below(D, c)
      BY <1>4, <2>5, <3>2, <3>3
    <3>. QED
      BY <3>1, <3>4 DEF c
  <2>. QED
    BY <2>4, <2>5
<1>. QED
  BY <1>1, <1>2, <1>4, <1>5, <1>8 DEF SameBelow

LEMMA TurnedShape ==
  ASSUME NEW h \in Trees, NEW N, NEW D, NEW E, NEW t \in N, NEW s \in Sides, NEW f \in Trees,
         Shaped(h, N, D), Rotated(h, f, t, s),
         NEW o, NEW p, NEW inner, NEW outer, NEW rest, NEW up,
         Turn(h, f, N, D, E, t, s, o, p, inner, outer, rest, up)
  PROVE  Shaped(f, N, E)
<1>1. /\ Below(E, f.child[s][t]) = Below(D, inner) /\ Below(E, f.child[o][t]) = Below(D, rest)
      /\ Below(E, f.child[o][p]) = E[t] /\ Below(E, f.child[s][p]) = Below(D, outer)
      /\ \A n \in N \ {t, p}, y \in Sides : Below(E, f.child[y][n]) = Below(D, h.child[y][n])
  <2>1. SameBelow(h, f, N, D, E, t, s, o, p, inner, outer, rest)
    BY TurnedBelow
  <2>. QED
    BY <2>1 DEF SameBelow
<1>2. /\ N \subseteq Values /\ NoItem \notin Values
      /\ t \in N /\ p \in N /\ t # p
      /\ E[t] = {t} \cup Below(D, rest) \cup Below(D, inner) /\ E[p] = D[t]
      /\ \A v \in Values \ {t, p} : E[v] = D[v]
      /\ Other(s) = o /\ Other(o) = s /\ o \in Sides /\ Sides = {s, o}
      /\ E \in [Values -> SUBSET N]
  BY DEF Turn
<1>3. h.child[s][t] = p /\ h.child[o][t] = rest /\ h.child[o][p] = inner /\ h.child[s][p] = outer
  BY DEF Turn
<1>4. D[t] = {t} \cup Below(D, p) \cup Below(D, rest)
  BY <1>2, <1>3, ShapeFacts
<1>5. D[p] = {p} \cup Below(D, inner) \cup Below(D, outer) /\ Below(D, p) = D[p]
  BY <1>2, <1>3, ShapeFacts DEF Below
<1>6. \A n \in N : E[n] = {n} \cup Below(E, f.child[s][n]) \cup Below(E, f.child[o][n])
  <2>1. \A n \in N \ {t, p} : D[n] = {n} \cup Below(D, h.child[s][n]) \cup Below(D, h.child[o][n])
    BY <1>2, ShapeFacts
  <2>2. \A n \in N \ {t, p} : E[n] = {n} \cup Below(E, f.child[s][n]) \cup Below(E, f.child[o][n])
    BY <1>1, <1>2, <2>1
  <2>3. E[t] = {t} \cup Below(E, f.child[s][t]) \cup Below(E, f.child[o][t])
    BY <1>1, <1>2
  <2>4. E[p] = {p} \cup Below(E, f.child[s][p]) \cup Below(E, f.child[o][p])
    BY <1>1, <1>2, <1>4, <1>5
  <2>. QED
    BY <2>2, <2>3, <2>4
<1>7. Descends(f, N, E)
  <2>1. s \in {L, R} /\ o \in {L, R} /\ {s, o} = {L, R}
    BY <1>2 DEF Sides
  <2>2. (s = L /\ o = R) \/ (s = R /\ o = L)
    BY <2>1
  <2>. QED
    BY <1>6, <2>2 DEF Descends
<1>8. ASSUME NEW n \in N, NEW y \in Sides, NEW m \in Below(E, f.child[y][n])
      PROVE  m # n /\ Towards(m, n) = y
  <2>0. p \in D[p] /\ Towards(p, t) = s
    BY <1>2, <1>3, ShapeFacts
  <2>1. \A x \in Below(D, p) : x \in Values /\ x # t /\ Towards(x, t) = s
    BY <1>3, BelowSide
  <2>2. \A x \in Below(D, rest) : x \in Values /\ x # t /\ Towards(x, t) = o
    BY <1>2, <1>3, BelowSide
  <2>3. \A x \in Below(D, inner) : x \in Values /\ x # p /\ Towards(x, p) = o
    BY <1>2, <1>3, BelowSide
  <2>4. \A x \in Below(D, outer) : x \in Values /\ x # p /\ Towards(x, p) = s
    BY <1>2, <1>3, BelowSide
  <2>5. CASE n = t /\ y = s
    BY <1>1, <1>5, <1>8, <2>1, <2>5
  <2>6. CASE n = t /\ y = o
    BY <1>1, <1>8, <2>2, <2>6
  <2>7. CASE n = p /\ y = s
    BY <1>1, <1>8, <2>4, <2>7
  <2>8. CASE n = p /\ y = o
    <3>1. Towards(t, p) = o /\ \A x \in Values : x # t /\ Towards(x, t) = o => x # p /\ Towards(x, p) = o
      <4>1. p \in Values /\ t \in Values /\ p # t
        BY <1>2
      <4>2. Towards(t, p) = Other(s)
        BY <2>0, <4>1, SideFacts
      <4>3. Towards(t, p) = o
        BY <1>2, <4>2
      <4>. QED
        BY <1>2, <4>1, <4>3, SideFacts
    <3>2. m = t \/ m \in Below(D, rest) \/ m \in Below(D, inner)
      BY <1>1, <1>2, <1>8, <2>8
    <3>. QED
      BY <1>2, <2>2, <2>3, <2>8, <3>1, <3>2
  <2>9. CASE n # t /\ n # p
    <3>1. m \in Below(D, h.child[y][n])
      BY <1>1, <1>8, <2>9
    <3>2. \A x \in Below(D, h.child[y][n]) : x # n /\ Towards(x, n) = y
      BY BelowSide
    <3>. QED
      BY <3>1, <3>2
  <2>. QED
    BY <1>2, <2>5, <2>6, <2>7, <2>8, <2>9
<1>9. Sided(f, N, E)
  BY <1>8 DEF Sided
<1>10. ChildLinks(f, N) /\ ParentLinks(f, N) /\ Outside(f, N) /\ OneRoot(f, N)
  BY TurnedLinks
<1>. QED
  BY <1>2, <1>7, <1>9, <1>10 DEF Shaped

LEMMA CountedSides ==
  ASSUME NEW h \in Trees, NEW N, N \subseteq Values
  PROVE  TreeCounted(h, N) <=>
           \A n \in N, s \in Sides :
             h.count[n] = h.dup[n] + CountOf(h, h.child[s][n]) + CountOf(h, h.child[Other(s)][n])
<1>1. L \in Sides /\ R \in Sides /\ Other(L) = R /\ Other(R) = L
  BY DEF Sides, Other, L, R
<1>2. \A s \in Sides : s = L \/ s = R
  BY DEF Sides
<1>3. \A n \in N, s \in Sides : CountOf(h, h.child[s][n]) \in Int /\ h.dup[n] \in Int
  BY TreeFields DEF CountOf
<1>. HIDE DEF L, R
<1>4. ASSUME TreeCounted(h, N), NEW n \in N, NEW s \in Sides
      PROVE  h.count[n] = h.dup[n] + CountOf(h, h.child[s][n]) + CountOf(h, h.child[Other(s)][n])
  <2>1. h.count[n] = h.dup[n] + CountOf(h, h.child[L][n]) + CountOf(h, h.child[R][n])
    BY <1>4 DEF TreeCounted
  <2>2. /\ h.dup[n] \in Int /\ CountOf(h, h.child[L][n]) \in Int /\ CountOf(h, h.child[R][n]) \in Int
    BY <1>1, <1>3
  <2>3. CASE s = L
    BY <1>1, <2>1, <2>3
  <2>4. CASE s = R
    <3>1. h.dup[n] + CountOf(h, h.child[L][n]) + CountOf(h, h.child[R][n])
            = h.dup[n] + CountOf(h, h.child[R][n]) + CountOf(h, h.child[L][n])
      BY <2>2
    <3>. QED
      BY <1>1, <2>1, <2>4, <3>1
  <2>. QED
    BY <1>2, <2>3, <2>4
<1>5. ASSUME \A n \in N, s \in Sides :
               h.count[n] = h.dup[n] + CountOf(h, h.child[s][n]) + CountOf(h, h.child[Other(s)][n])
      PROVE  TreeCounted(h, N)
  BY <1>1, <1>5 DEF TreeCounted
<1>. QED
  BY <1>4, <1>5

LEMMA HeightSides ==
  ASSUME NEW h \in Trees, NEW n \in Values, NEW s \in Sides
  PROVE  /\ HeightOf(h, h.child[s][n]) \in Nat
         /\ HeightHere(h, n) =
              1 + IF HeightOf(h, h.child[s][n]) > HeightOf(h, h.child[Other(s)][n])
                  THEN HeightOf(h, h.child[s][n]) ELSE HeightOf(h, h.child[Other(s)][n])
<1>1. L \in Sides /\ R \in Sides /\ Other(L) = R /\ Other(R) = L /\ (s = L \/ s = R)
  BY DEF Sides, Other, L, R
<1>2. \A y \in Sides : h.child[y][n] \in Values \cup {NoItem}
  BY TreeFields
<1>3. \A y \in Sides : HeightOf(h, h.child[y][n]) \in Nat
  BY <1>2, TreeFields DEF HeightOf
<1>4. HeightOf(h, h.child[L][n]) \in Nat /\ HeightOf(h, h.child[R][n]) \in Nat
  BY <1>1, <1>3
<1>5. HeightHere(h, n) = 1 + IF HeightOf(h, h.child[R][n]) > HeightOf(h, h.child[L][n])
                             THEN HeightOf(h, h.child[R][n]) ELSE HeightOf(h, h.child[L][n])
  BY DEF HeightHere
<1>. HIDE DEF L, R
<1>6. CASE s = R
  BY <1>1, <1>3, <1>5, <1>6
<1>7. CASE s = L
  <2>1. HeightHere(h, n) = 1 + IF HeightOf(h, h.child[L][n]) > HeightOf(h, h.child[R][n])
                               THEN HeightOf(h, h.child[L][n]) ELSE HeightOf(h, h.child[R][n])
    BY <1>4, <1>5
  <2>. QED
    BY <1>1, <1>3, <1>7, <2>1
<1>. QED
  BY <1>1, <1>6, <1>7

(* The counts after a rotation are what the children's counts say.         *)
LEMMA TurnedCounts ==
  ASSUME NEW h \in Trees, NEW N, NEW D, NEW E, NEW t \in N, NEW s \in Sides, NEW f \in Trees,
         Shaped(h, N, D), Rotated(h, f, t, s), TreeCounted(h, N),
         NEW o, NEW p, NEW inner, NEW outer, NEW rest, NEW up,
         Turn(h, f, N, D, E, t, s, o, p, inner, outer, rest, up)
  PROVE  TreeCounted(f, N)
<1>0. TurnedPointers(h, f, t, s, o, p, inner, outer, rest, up)
  BY TurnPointers
<1>1. /\ f.child[s][t] = inner /\ f.child[o][t] = rest
      /\ f.child[o][p] = t /\ f.child[s][p] = outer
      /\ \A y \in Sides, x \in Values \ {t, p} :
           f.child[y][x] = IF x = up /\ h.child[y][x] = t THEN p ELSE h.child[y][x]
  BY <1>0 DEF TurnedPointers
<1>2. /\ N \subseteq Values /\ NoItem \notin Values
      /\ t \in N /\ p \in N /\ {inner, outer, rest, up} \subseteq N \cup {NoItem}
      /\ t # p /\ inner # t /\ inner # p /\ outer # t /\ outer # p /\ rest # t /\ rest # p
      /\ Other(s) = o /\ Other(o) = s /\ o \in Sides /\ Sides = {s, o}
  BY DEF Turn
<1>3. h.child[s][t] = p /\ h.child[o][t] = rest /\ h.child[o][p] = inner /\ h.child[s][p] = outer
      /\ h.parent[t] = up
  BY DEF Turn
<1>4. /\ f.count[t] = h.count[t] - h.count[p] + CountOf(h, inner)
      /\ f.count[p] = h.count[t]
      /\ \A x \in Values \ {t, p} : f.count[x] = h.count[x]
      /\ f.dup = h.dup
  BY <1>3, <1>2 DEF Rotated
<1>5. \A x \in N \cup {NoItem} : x # t /\ x # p => CountOf(f, x) = CountOf(h, x)
  BY <1>2, <1>4 DEF CountOf
<1>6. CountOf(f, t) = f.count[t] /\ CountOf(f, p) = f.count[p] /\ CountOf(h, p) = h.count[p]
      /\ CountOf(h, t) = h.count[t]
  BY <1>2 DEF CountOf
<1>7. \A n \in N, y \in Sides :
        h.count[n] = h.dup[n] + CountOf(h, h.child[y][n]) + CountOf(h, h.child[Other(y)][n])
  BY <1>2, CountedSides
<1>8. /\ h.count[t] = h.dup[t] + h.count[p] + CountOf(h, rest)
      /\ h.count[p] = h.dup[p] + CountOf(h, inner) + CountOf(h, outer)
  BY <1>2, <1>3, <1>6, <1>7
<1>9. /\ \A x \in N : h.dup[x] \in Int /\ h.count[x] \in Int
      /\ \A x \in N \cup {NoItem} : CountOf(h, x) \in Int
  BY <1>2, TreeFields DEF CountOf
<1>10. f.count[t] = f.dup[t] + CountOf(f, f.child[s][t]) + CountOf(f, f.child[o][t])
  <2>1. CountOf(f, f.child[s][t]) = CountOf(h, inner) /\ CountOf(f, f.child[o][t]) = CountOf(h, rest)
    BY <1>1, <1>2, <1>5
  <2>2. f.count[t] = h.dup[t] + CountOf(h, inner) + CountOf(h, rest)
    <3>1. h.count[t] \in Int /\ h.count[p] \in Int /\ h.dup[t] \in Int /\ CountOf(h, inner) \in Int
          /\ CountOf(h, rest) \in Int
      BY <1>2, <1>9
    <3>. QED
      BY <1>4, <1>8, <3>1
  <2>. QED
    BY <1>4, <2>1, <2>2
<1>11. f.count[p] = f.dup[p] + CountOf(f, f.child[s][p]) + CountOf(f, f.child[o][p])
  <2>1. CountOf(f, f.child[s][p]) = CountOf(h, outer) /\ CountOf(f, f.child[o][p]) = f.count[t]
    BY <1>1, <1>2, <1>5, <1>6
  <2>2. h.count[t] \in Int /\ h.count[p] \in Int /\ h.dup[t] \in Int /\ CountOf(h, inner) \in Int
          /\ CountOf(h, rest) \in Int /\ CountOf(h, outer) \in Int /\ h.dup[p] \in Int
    BY <1>2, <1>9
  <2>3. h.count[t] = h.dup[p] + CountOf(h, outer) + f.count[t]
    BY <1>4, <1>8, <2>2
  <2>. QED
    BY <1>4, <2>1, <2>3
<1>12. ASSUME NEW n \in N, n # t, n # p, NEW y \in Sides
       PROVE  CountOf(f, f.child[y][n]) = CountOf(h, h.child[y][n])
  <2>. DEFINE c == h.child[y][n]
  <2>1. c # NoItem => c \in N /\ h.parent[c] = n
    BY ShapeFacts
  <2>2. h.parent[p] = t
    BY <1>2, <1>3, ShapeFacts
  <2>3. f.child[y][n] = IF n = up /\ c = t THEN p ELSE c
    BY <1>1, <1>2, <1>12
  <2>. HIDE DEF c
  <2>4. CASE c = t
    <3>1. n = up
      BY <1>2, <1>3, <2>1, <2>4
    <3>2. f.child[y][n] = p
      BY <2>3, <2>4, <3>1
    <3>. QED
      BY <1>4, <1>6, <2>4, <3>2 DEF c
  <2>5. CASE c # t
    <3>1. f.child[y][n] = c
      BY <2>3, <2>5
    <3>2. c # p
      BY <1>2, <1>12, <2>1, <2>2
    <3>3. c \in N \cup {NoItem}
      BY <2>1
    <3>4. CountOf(f, c) = CountOf(h, c)
      BY <1>5, <2>5, <3>2, <3>3
    <3>. QED
      BY <3>1, <3>4 DEF c
  <2>. QED
    BY <2>4, <2>5
<1>13. ASSUME NEW n \in N, n # t, n # p
       PROVE  f.count[n] = f.dup[n] + CountOf(f, f.child[L][n]) + CountOf(f, f.child[R][n])
  <2>1. L \in Sides /\ R \in Sides
    BY DEF Sides
  <2>2. CountOf(f, f.child[L][n]) = CountOf(h, h.child[L][n]) /\ CountOf(f, f.child[R][n]) = CountOf(h, h.child[R][n])
    BY <1>12, <1>13, <2>1
  <2>3. h.count[n] = h.dup[n] + CountOf(h, h.child[L][n]) + CountOf(h, h.child[R][n])
    BY DEF TreeCounted
  <2>. QED
    BY <1>2, <1>4, <1>13, <2>2, <2>3
<1>14. /\ f.count[t] = f.dup[t] + CountOf(f, f.child[L][t]) + CountOf(f, f.child[R][t])
       /\ f.count[p] = f.dup[p] + CountOf(f, f.child[L][p]) + CountOf(f, f.child[R][p])
  <2>1. (s = L /\ o = R) \/ (s = R /\ o = L)
    BY <1>2 DEF Sides, Other, L, R
  <2>2. \A n \in {t, p}, y \in Sides : CountOf(f, f.child[y][n]) \in Int /\ f.dup[n] \in Int
    BY <1>2, TreeFields DEF CountOf
  <2>3. /\ CountOf(f, f.child[s][t]) \in Int /\ CountOf(f, f.child[o][t]) \in Int /\ f.dup[t] \in Int
        /\ CountOf(f, f.child[s][p]) \in Int /\ CountOf(f, f.child[o][p]) \in Int /\ f.dup[p] \in Int
    BY <1>2, <2>2
  <2>4. /\ f.count[t] = f.dup[t] + CountOf(f, f.child[o][t]) + CountOf(f, f.child[s][t])
        /\ f.count[p] = f.dup[p] + CountOf(f, f.child[o][p]) + CountOf(f, f.child[s][p])
    BY <1>10, <1>11, <2>3
  <2>. QED
    BY <1>10, <1>11, <2>1, <2>4
<1>. QED
  BY <1>13, <1>14 DEF TreeCounted

(* After a rotation the heights are exact where they were, and where the   *)
(* rotation computed them, but not above.                                  *)
LEMMA TurnedHeights ==
  ASSUME NEW h \in Trees, NEW N, NEW D, NEW E, NEW t \in N, NEW s \in Sides, NEW f \in Trees,
         Shaped(h, N, D), Rotated(h, f, t, s), NEW X, ExactBut(h, N, X),
         NEW o, NEW p, NEW inner, NEW outer, NEW rest, NEW up,
         Turn(h, f, N, D, E, t, s, o, p, inner, outer, rest, up)
  PROVE  ExactBut(f, N, (X \ {t}) \cup {up})
<1>0. TurnedPointers(h, f, t, s, o, p, inner, outer, rest, up)
  BY TurnPointers
<1>1. \A y \in Sides, x \in Values \ {t, p} :
           f.child[y][x] = IF x = up /\ h.child[y][x] = t THEN p ELSE h.child[y][x]
  BY <1>0 DEF TurnedPointers
<1>2. /\ N \subseteq Values /\ NoItem \notin Values
      /\ t \in N /\ p \in N /\ t # p
  BY DEF Turn
<1>3. h.child[s][t] = p /\ h.parent[t] = up
  BY DEF Turn
<1>4. /\ \A x \in Values \ {t, p} : f.height[x] = h.height[x]
      /\ f.height[t] = HeightHere(f, t) /\ f.height[p] = HeightHere(f, p)
  BY <1>3, <1>2 DEF Rotated
<1>5. h.parent[p] = t
  BY <1>2, <1>3, ShapeFacts
<1>6. ASSUME NEW n \in N, n # t, n # p, n # up, n \notin X PROVE f.height[n] = HeightHere(f, n)
  <2>1. ASSUME NEW y \in Sides PROVE HeightOf(f, f.child[y][n]) = HeightOf(h, h.child[y][n])
    <3>1. f.child[y][n] = h.child[y][n]
      BY <1>1, <1>2, <1>6
    <3>2. h.child[y][n] # NoItem => h.child[y][n] \in N /\ h.parent[h.child[y][n]] = n
      BY ShapeFacts
    <3>3. h.child[y][n] # t /\ h.child[y][n] # p
      BY <1>2, <1>3, <1>5, <1>6, <3>2
    <3>. QED
      BY <1>2, <1>4, <3>1, <3>2, <3>3 DEF HeightOf
  <2>2. L \in Sides /\ R \in Sides
    BY DEF Sides
  <2>3. HeightHere(f, n) = HeightHere(h, n)
    BY <2>1, <2>2 DEF HeightHere
  <2>4. h.height[n] = HeightHere(h, n)
    BY <1>6 DEF ExactBut
  <2>. QED
    BY <1>2, <1>4, <1>6, <2>3, <2>4
<1>. QED
  BY <1>4, <1>6 DEF ExactBut

(* A step within the subtree of t, which the rest of the tree does not see. *)
Local(h, f, N, D, E, t) ==
  /\ f \in Trees /\ Shaped(f, N, E)
  /\ f.root = h.root /\ f.next = h.next /\ f.dup = h.dup
  /\ \A n \in N \ D[t] : E[n] = D[n] /\ f.parent[n] = h.parent[n]
  /\ TreeCounted(h, N) => TreeCounted(f, N)

LEMMA RotateKeeps ==
  ASSUME NEW h \in Trees, NEW N, NEW D, Shaped(h, N, D), NEW t \in N, NEW s \in Sides,
         h.child[s][t] # NoItem, NEW f, f = Rotate(h, t, s)
  PROVE  \E E : Local(h, f, N, D, E, t)
                /\ \A X : ExactBut(h, N, X) => ExactBut(f, N, (X \ {t}) \cup {h.parent[t]})
<1>1. t \in Values /\ Turnable(h, t, s)
  BY ShapeTurnable DEF Shaped
<1>2. f \in Trees /\ Rotated(h, f, t, s)
  BY <1>1, RotateFacts
<1>. DEFINE E == Turned(h, D, t, s)
<1>3. \E o, p, inner, outer, rest, up : Turn(h, f, N, D, E, t, s, o, p, inner, outer, rest, up)
  BY TurnNames
<1>. HIDE DEF E
<1>4. PICK o, p, inner, outer, rest, up : Turn(h, f, N, D, E, t, s, o, p, inner, outer, rest, up)
  BY <1>3
<1>5. Shaped(f, N, E)
  BY <1>2, <1>4, TurnedShape
<1>6. ASSUME TreeCounted(h, N) PROVE TreeCounted(f, N)
  BY <1>2, <1>4, <1>6, TurnedCounts
<1>7. h.parent[t] = up
  BY <1>4 DEF Turn
<1>8. ASSUME NEW X, ExactBut(h, N, X) PROVE ExactBut(f, N, (X \ {t}) \cup {h.parent[t]})
  BY <1>2, <1>4, <1>7, <1>8, TurnedHeights
<1>9. ASSUME NEW n \in N \ D[t] PROVE E[n] = D[n] /\ f.parent[n] = h.parent[n]
  <2>0. TurnedPointers(h, f, t, s, o, p, inner, outer, rest, up)
    BY <1>2, <1>4, TurnPointers
  <2>1. \A x \in Values \ {t, p} : f.parent[x] = IF x = inner THEN t ELSE h.parent[x]
    BY <2>0 DEF TurnedPointers
  <2>2. /\ N \subseteq Values /\ p \in N /\ p = h.child[s][t] /\ inner = h.child[o][p] /\ o \in Sides
        /\ \A v \in Values \ {t, p} : E[v] = D[v]
        /\ NoItem \notin Values
    BY <1>4 DEF Turn
  <2>3. t \in D[t] /\ p \in D[t] /\ D[p] \subseteq D[t]
    BY <2>2, ShapeFacts
  <2>4. inner # NoItem => inner \in D[p]
    BY <2>2, ShapeFacts
  <2>5. n # t /\ n # p /\ n # inner /\ n \in Values
    BY <2>2, <2>3, <2>4
  <2>. QED
    BY <2>1, <2>2, <2>5
<1>10. f.root = h.root /\ f.next = h.next /\ f.dup = h.dup
  BY <1>2 DEF Rotated
<1>11. Local(h, f, N, D, E, t)
  BY <1>2, <1>5, <1>6, <1>9, <1>10 DEF Local
<1>. QED
  BY <1>8, <1>11

LEMMA SameShape ==
  ASSUME NEW h, NEW f, NEW N, NEW D, Shaped(h, N, D), f.child = h.child, f.parent = h.parent
  PROVE  Shaped(f, N, D)
  BY DEF Shaped, Descends, Sided, ChildLinks, ParentLinks, Outside, OneRoot

LEMMA LocalTwice ==
  ASSUME NEW h, NEW g, NEW f, NEW N, NEW D, NEW E, NEW F, NEW q, NEW c,
         Local(h, g, N, D, E, q), Local(g, f, N, E, F, c), D[q] \subseteq D[c], E[c] = D[c]
  PROVE  Local(h, f, N, D, F, c)
<1>1. ASSUME NEW n \in N \ D[c] PROVE F[n] = D[n] /\ f.parent[n] = h.parent[n]
  <2>1. n \in N \ D[q] /\ n \in N \ E[c]
    OBVIOUS
  <2>2. E[n] = D[n] /\ g.parent[n] = h.parent[n]
    BY <2>1 DEF Local
  <2>3. F[n] = E[n] /\ f.parent[n] = g.parent[n]
    BY <2>1 DEF Local
  <2>. QED
    BY <2>2, <2>3
<1>2. f \in Trees /\ Shaped(f, N, F) /\ f.root = h.root /\ f.next = h.next /\ f.dup = h.dup
      /\ (TreeCounted(h, N) => TreeCounted(f, N))
  BY DEF Local
<1>. QED
  BY <1>1, <1>2 DEF Local

LEMMA CalcHeightKeeps ==
  ASSUME NEW h \in Trees, NEW N, NEW D, Shaped(h, N, D), NEW c \in N,
         NEW g, g = CalcHeight(h, c)
  PROVE  /\ Local(h, g, N, D, D, c)
         /\ g.child = h.child /\ g.parent = h.parent
         /\ ExactBut(h, N, {c, h.parent[c]}) => ExactBut(g, N, {h.parent[c]})
<1>1. c \in Values /\ N \subseteq Values /\ NoItem \notin Values
  BY HistogramTreeAssumption DEF Shaped
<1>2. g \in Trees /\ HeightSet(h, g, c)
  BY <1>1, CalcHeightFacts
<1>3. /\ g.root = h.root /\ g.next = h.next /\ g.child = h.child /\ g.parent = h.parent
      /\ g.count = h.count /\ g.dup = h.dup
  BY <1>2 DEF HeightSet, OnlyHeight
<1>4. g.height[c] = HeightHere(h, c) /\ \A x \in Values : x # c => g.height[x] = h.height[x]
  BY <1>2 DEF HeightSet
<1>5. Shaped(g, N, D)
  BY <1>3, SameShape
<1>6. TreeCounted(h, N) => TreeCounted(g, N)
  BY <1>3 DEF TreeCounted, CountOf
<1>7. Local(h, g, N, D, D, c)
  BY <1>2, <1>3, <1>5, <1>6 DEF Local
<1>8. ASSUME NEW n \in N, n # h.parent[c] PROVE HeightHere(g, n) = HeightHere(h, n)
  <2>1. ASSUME NEW y \in Sides PROVE HeightOf(g, g.child[y][n]) = HeightOf(h, h.child[y][n])
    <3>1. h.child[y][n] # NoItem => h.child[y][n] \in N /\ h.parent[h.child[y][n]] = n
      BY ShapeFacts
    <3>2. h.child[y][n] # c
      BY <1>1, <1>8, <3>1
    <3>. QED
      BY <1>1, <1>3, <1>4, <3>1, <3>2 DEF HeightOf
  <2>2. L \in Sides /\ R \in Sides
    BY DEF Sides
  <2>. QED
    BY <2>1, <2>2 DEF HeightHere
<1>9. h.parent[c] # c
  BY ShapeApart
<1>10. ASSUME ExactBut(h, N, {c, h.parent[c]}) PROVE ExactBut(g, N, {h.parent[c]})
  BY <1>1, <1>4, <1>8, <1>9, <1>10 DEF ExactBut
<1>. QED
  BY <1>3, <1>7, <1>10

(* The rotations of a round: q is the higher child.                        *)
LEMMA RotatedTwice ==
  ASSUME NEW h \in Trees, NEW N, NEW D, Shaped(h, N, D), NEW c \in N, NEW s \in Sides,
         h.child[s][c] # NoItem, NEW isInserting,
         NEW f, f = Rotate(IF isInserting THEN Rotate(h, h.child[s][c], Other(s)) ELSE h, c, s)
  PROVE  \E E : Local(h, f, N, D, E, c)
                /\ (ExactBut(h, N, {h.parent[c]}) => ExactBut(f, N, {h.parent[c]}))
<1>. DEFINE q == h.child[s][c]
            o == Other(s)
            up == h.parent[c]
            g == IF isInserting THEN Rotate(h, q, o) ELSE h
<1>0. o \in Sides /\ NoItem \notin Values /\ N \subseteq Values
  BY TwoSides, HistogramTreeAssumption DEF Shaped
<1>1. q \in N /\ h.parent[q] = c /\ c \notin D[q] /\ D[q] \subseteq D[c]
  BY ShapeFacts
<1>2. PICK E : /\ Local(h, g, N, D, E, q)
               /\ ExactBut(h, N, {up}) => ExactBut(g, N, {up, c})
               /\ E[c] = D[c]
               /\ g.child[s][c] # NoItem
               /\ g.parent[c] = up
  <2>1. CASE isInserting /\ h.child[o][q] # NoItem
    <3>. DEFINE r == Rotate(h, q, o)
    <3>1. PICK E : Local(h, r, N, D, E, q)
                   /\ \A X : ExactBut(h, N, X) => ExactBut(r, N, (X \ {q}) \cup {h.parent[q]})
      <4>. HIDE DEF q, o
      <4>. QED
        BY <1>0, <1>1, <2>1, RotateKeeps
    <3>. HIDE DEF r
    <3>2. E[c] = D[c] /\ r.parent[c] = h.parent[c]
      BY <1>1, <3>1 DEF Local
    <3>3. ASSUME ExactBut(h, N, {up}) PROVE ExactBut(r, N, {up, c})
      <4>1. ExactBut(r, N, ({up} \ {q}) \cup {c})
        BY <1>1, <3>1, <3>3
      <4>2. ({up} \ {q}) \cup {c} \subseteq {up, c}
        OBVIOUS
      <4>. QED
        BY <4>1, <4>2 DEF ExactBut
    <3>4. r.child[s][c] # NoItem
      <4>1. r \in Trees /\ Shaped(r, N, E) /\ D[c] = E[c]
        BY <3>1, <3>2 DEF Local
      <4>2. q \in D[c] /\ q # c /\ Towards(q, c) = s
        BY ShapeFacts
      <4>3. E[c] = {c} \cup Below(E, r.child[s][c]) \cup Below(E, r.child[o][c])
        BY <4>1, ShapeFacts
      <4>4. \A m \in Below(E, r.child[o][c]) : Towards(m, c) = o
        BY <1>0, <4>1, ShapeApart
      <4>5. o # s
        BY TwoSides
      <4>6. q \in Below(E, r.child[s][c])
        BY <4>1, <4>2, <4>3, <4>4, <4>5
      <4>. QED
        BY <4>6 DEF Below
    <3>5. g = r
      BY <2>1 DEF r
    <3>. QED
      BY <3>1, <3>2, <3>3, <3>4, <3>5
  <2>2. CASE ~ (isInserting /\ h.child[o][q] # NoItem)
    <3>1. g = h
      <4>1. isInserting => Rotate(h, q, o) = h
        BY <2>2 DEF Rotate
      <4>. QED
        BY <4>1
    <3>2. Local(h, g, N, D, D, q)
      BY <3>1 DEF Local
    <3>3. ExactBut(h, N, {up}) => ExactBut(g, N, {up, c})
      BY <3>1 DEF ExactBut
    <3>. QED
      BY <3>1, <3>2, <3>3
  <2>. QED
    BY <2>1, <2>2
<1>3. f = Rotate(g, c, s)
  OBVIOUS
<1>. HIDE DEF g
<1>4. g \in Trees /\ Shaped(g, N, E)
  BY <1>2 DEF Local
<1>5. PICK F : Local(g, f, N, E, F, c)
               /\ \A X : ExactBut(g, N, X) => ExactBut(f, N, (X \ {c}) \cup {g.parent[c]})
  BY <1>2, <1>3, <1>4, RotateKeeps
<1>6. Local(h, f, N, D, F, c)
  BY <1>1, <1>2, <1>5, LocalTwice
<1>7. ASSUME ExactBut(h, N, {up}) PROVE ExactBut(f, N, {up})
  <2>1. ExactBut(f, N, ({up, c} \ {c}) \cup {up})
    BY <1>2, <1>5, <1>7
  <2>2. ({up, c} \ {c}) \cup {up} = {up}
    BY ShapeApart
  <2>. QED
    BY <2>1, <2>2
<1>. QED
  BY <1>6, <1>7

LEMMA RebalanceKeeps ==
  ASSUME NEW h \in Trees, NEW N, NEW D, Shaped(h, N, D), NEW c \in N, NEW isInserting,
         NEW f, f = Rebalance(h, c, isInserting)
  PROVE  \E E : Local(h, f, N, D, E, c)
                /\ (ExactBut(h, N, {c, h.parent[c]}) => ExactBut(f, N, {h.parent[c]}))
<1>. DEFINE h1 == CalcHeight(h, c)
            excess(s) == HeightOf(h1, h1.child[s][c]) - HeightOf(h1, h1.child[Other(s)][c])
            rotated(s) ==
              Rotate(IF isInserting THEN Rotate(h1, h1.child[s][c], Other(s)) ELSE h1, c, s)
<1>1. f = IF excess(L) > 1 THEN rotated(L) ELSE IF excess(R) > 1 THEN rotated(R) ELSE h1
  BY DEF Rebalance
<1>2. /\ Local(h, h1, N, D, D, c)
      /\ h1.child = h.child /\ h1.parent = h.parent
      /\ ExactBut(h, N, {c, h.parent[c]}) => ExactBut(h1, N, {h.parent[c]})
  BY CalcHeightKeeps
<1>. HIDE DEF h1
<1>3. h1 \in Trees /\ Shaped(h1, N, D) /\ c \in Values /\ L \in Sides /\ R \in Sides
  BY <1>2 DEF Local, Shaped, Sides
<1>4. ASSUME NEW s \in Sides, excess(s) > 1
      PROVE  \E E : Local(h, rotated(s), N, D, E, c)
                /\ (ExactBut(h, N, {c, h.parent[c]}) => ExactBut(rotated(s), N, {h.parent[c]}))
  <2>1. h1.child[s][c] # NoItem
    <3>1. HeightOf(h1, h1.child[Other(s)][c]) \in Nat
      BY <1>3, TwoSides, HeightSides
    <3>2. HeightOf(h1, NoItem) = 0
      BY DEF HeightOf
    <3>. QED
      BY <1>4, <3>1, <3>2
  <2>. DEFINE g == rotated(s)
  <2>2. g = Rotate(IF isInserting THEN Rotate(h1, h1.child[s][c], Other(s)) ELSE h1, c, s)
    OBVIOUS
  <2>. HIDE DEF g
  <2>3. PICK E : Local(h1, g, N, D, E, c)
                /\ (ExactBut(h1, N, {h1.parent[c]}) => ExactBut(g, N, {h1.parent[c]}))
    BY <1>3, <2>1, <2>2, RotatedTwice
  <2>4. Local(h, g, N, D, E, c)
    BY <1>2, <2>3, LocalTwice
  <2>5. ExactBut(h, N, {c, h.parent[c]}) => ExactBut(g, N, {h.parent[c]})
    BY <1>2, <2>3
  <2>. QED
    BY <2>4, <2>5 DEF g
<1>5. CASE excess(L) > 1
  BY <1>1, <1>3, <1>4, <1>5
<1>6. CASE ~ (excess(L) > 1) /\ excess(R) > 1
  BY <1>1, <1>3, <1>4, <1>6
<1>7. CASE ~ (excess(L) > 1) /\ ~ (excess(R) > 1)
  BY <1>1, <1>2, <1>7
<1>. QED
  BY <1>5, <1>6, <1>7

-----------------------------------------------------------------------------
(***************************************************************************)
(* Below is transitive, and a climb from a node ends at the root.  N is    *)
(* finite: induction over the size of a subtree or the number of           *)
(* ancestors.                                                              *)
(***************************************************************************)
LEMMA SmallerBelow ==
  ASSUME NEW h \in Trees, NEW N, NEW D, Shaped(h, N, D), IsFiniteSet(N), NEW n \in N
  PROVE  /\ Cardinality(D[n]) \in 0 .. Cardinality(N)
         /\ \A s \in Sides : h.child[s][n] # NoItem =>
              Cardinality(D[h.child[s][n]]) < Cardinality(D[n])
<1>1. \A m \in N : m \in D[m] /\ D[m] \subseteq N
  BY ShapeFacts
<1>2. \A m \in N : IsFiniteSet(D[m]) /\ Cardinality(D[m]) <= Cardinality(N)
  BY <1>1, FS_Subset
<1>3. Cardinality(N) \in Nat /\ \A m \in N : Cardinality(D[m]) \in Nat
  BY <1>2, FS_CardinalityType
<1>4. ASSUME NEW s \in Sides, h.child[s][n] # NoItem
      PROVE  Cardinality(D[h.child[s][n]]) < Cardinality(D[n])
  <2>. DEFINE c == h.child[s][n]
  <2>1. c \in N /\ D[c] \subseteq D[n] /\ n \notin D[c] /\ n \in D[n]
    BY <1>4, ShapeFacts
  <2>. HIDE DEF c
  <2>2. Cardinality(D[c]) <= Cardinality(D[n]) /\ Cardinality(D[c]) # Cardinality(D[n])
    BY <1>2, <2>1, FS_Subset
  <2>. QED
    BY <1>3, <2>1, <2>2 DEF c
<1>. QED
  BY <1>2, <1>3, <1>4

(* All that is below x is below m, and so is x's parent.                   *)
Nested(h, N, D) ==
  \A m \in N : \A x \in D[m] :
    D[x] \subseteq D[m] /\ (x # m => h.parent[x] \in D[m])

LEMMA ShapeNested ==
  ASSUME NEW h \in Trees, NEW N, NEW D, Shaped(h, N, D), IsFiniteSet(N)
  PROVE  Nested(h, N, D)
<1>. DEFINE K == Cardinality(N)
            Good(m) == \A x \in D[m] : D[x] \subseteq D[m] /\ (x # m => h.parent[x] \in D[m])
            T == {k \in 0 .. K : \A m \in N : Cardinality(D[m]) <= k => Good(m)}
<1>1. K \in Nat /\ NoItem \notin N
  BY FS_CardinalityType, HistogramTreeAssumption DEF Shaped
<1>2. \A m \in N : m \in D[m] /\ D[m] \subseteq N /\ Cardinality(D[m]) \in 0 .. K
  BY ShapeFacts, SmallerBelow
<1>3. \A m \in N : Cardinality(D[m]) # 0
  <2>1. \A m \in N : IsFiniteSet(D[m])
    BY <1>2, FS_Subset
  <2>. QED
    BY <1>2, <2>1, FS_EmptySet
<1>. HIDE DEF K
<1>4. 0 \in T
  BY <1>1, <1>2, <1>3
<1>5. ASSUME NEW k \in 0 .. K - 1, k \in T PROVE k + 1 \in T
  <2>1. \A m \in N : Cardinality(D[m]) <= k => Good(m)
    BY <1>5
  <2>2. ASSUME NEW m \in N, Cardinality(D[m]) <= k + 1, NEW x \in D[m]
        PROVE  D[x] \subseteq D[m] /\ (x # m => h.parent[x] \in D[m])
    <3>1. ASSUME NEW y \in Sides, x \in Below(D, h.child[y][m])
          PROVE  D[x] \subseteq D[m] /\ h.parent[x] \in D[m]
      <4>. DEFINE c == h.child[y][m]
      <4>1. c # NoItem /\ x \in D[c]
        BY <3>1 DEF Below
      <4>2. c \in N /\ h.parent[c] = m /\ D[c] \subseteq D[m]
        BY <4>1, ShapeFacts
      <4>3. Cardinality(D[c]) < Cardinality(D[m])
        BY <4>1, SmallerBelow
      <4>. HIDE DEF c
      <4>4. Cardinality(D[c]) <= k
        BY <1>1, <1>2, <2>2, <4>2, <4>3
      <4>5. Good(c)
        BY <2>1, <4>2, <4>4
      <4>6. D[x] \subseteq D[m]
        BY <4>1, <4>2, <4>5
      <4>7. h.parent[x] \in D[m]
        BY <1>2, <4>1, <4>2, <4>5
      <4>. QED
        BY <4>6, <4>7
    <3>2. x = m \/ x \in Below(D, h.child[L][m]) \/ x \in Below(D, h.child[R][m])
      BY DEF Shaped, Descends
    <3>3. L \in Sides /\ R \in Sides
      BY DEF Sides
    <3>. QED
      BY <3>1, <3>2, <3>3
  <2>. QED
    BY <1>1, <2>2
<1>6. 0 .. K \subseteq T
  <2>. HIDE DEF T
  <2>. QED
    BY <1>1, <1>4, <1>5, InductionUpTo
<1>7. \A m \in N : Good(m)
  <2>1. K \in T
    BY <1>1, <1>6
  <2>. QED
    BY <1>2, <2>1
<1>. QED
  BY <1>7 DEF Nested

(* The ancestors of a node, the node itself included.                      *)
Anc(N, D, n) == {m \in N : n \in D[m]}

LEMMA Ancestors ==
  ASSUME NEW h \in Trees, NEW N, NEW D, Shaped(h, N, D), IsFiniteSet(N), NEW n \in N
  PROVE  /\ h.parent[n] = NoItem => Anc(N, D, n) = {n}
         /\ h.parent[n] # NoItem =>
              /\ Anc(N, D, n) = {n} \cup Anc(N, D, h.parent[n])
              /\ \A m \in Anc(N, D, h.parent[n]) : m \notin D[n]
<1>1. Nested(h, N, D)
  BY ShapeNested
<1>2. n \in D[n] /\ NoItem \notin N /\ \A m \in N : D[m] \subseteq N
  BY OwnFacts
<1>3. \A m \in N : n \in D[m] /\ n # m => h.parent[n] \in D[m]
  BY <1>1 DEF Nested
<1>4. ASSUME h.parent[n] = NoItem PROVE Anc(N, D, n) = {n}
  BY <1>2, <1>3, <1>4 DEF Anc
<1>5. ASSUME h.parent[n] # NoItem
      PROVE  /\ Anc(N, D, n) = {n} \cup Anc(N, D, h.parent[n])
             /\ \A m \in Anc(N, D, h.parent[n]) : m \notin D[n]
  <2>1. h.parent[n] \in N /\ D[n] \subseteq D[h.parent[n]] /\ h.parent[n] \notin D[n]
    BY <1>5, ShapeApart
  <2>2. ASSUME NEW m \in N, h.parent[n] \in D[m] PROVE n \in D[m] /\ m \notin D[n]
    <3>1. D[h.parent[n]] \subseteq D[m]
      BY <1>1, <2>2 DEF Nested
    <3>2. m \in D[n] => D[m] \subseteq D[n]
      BY <1>1 DEF Nested
    <3>. QED
      BY <1>2, <2>1, <2>2, <3>1, <3>2
  <2>3. Anc(N, D, n) \subseteq {n} \cup Anc(N, D, h.parent[n])
    BY <1>3 DEF Anc
  <2>4. {n} \cup Anc(N, D, h.parent[n]) \subseteq Anc(N, D, n)
    BY <1>2, <2>2 DEF Anc
  <2>. QED
    BY <2>2, <2>3, <2>4 DEF Anc
<1>. QED
  BY <1>4, <1>5

(* The number of ancestors.                                                *)
Depth(N, D, c) == IF c \in N THEN Cardinality(Anc(N, D, c)) ELSE IF c = NoItem THEN 0 ELSE 1

LEMMA DepthFacts ==
  ASSUME NEW h \in Trees, NEW N, NEW D, Shaped(h, N, D), IsFiniteSet(N), NEW c \in Values
  PROVE  /\ Depth(N, D, c) \in 0 .. Cardinality(N) + 1
         /\ Depth(N, D, h.parent[c]) < Depth(N, D, c)
<1>1. N \subseteq Values /\ NoItem \notin Values /\ Cardinality(N) \in Nat
  BY HistogramTreeAssumption, FS_CardinalityType DEF Shaped
<1>2. ASSUME NEW x \in N
      PROVE  /\ IsFiniteSet(Anc(N, D, x)) /\ Cardinality(Anc(N, D, x)) \in 1 .. Cardinality(N)
             /\ x \in Anc(N, D, x)
  <2>1. Anc(N, D, x) \subseteq N /\ x \in Anc(N, D, x)
    BY ShapeFacts DEF Anc
  <2>2. IsFiniteSet(Anc(N, D, x)) /\ Cardinality(Anc(N, D, x)) <= Cardinality(N)
    BY <2>1, FS_Subset
  <2>3. Cardinality(Anc(N, D, x)) \in Nat /\ Cardinality(Anc(N, D, x)) # 0
    BY <2>1, <2>2, FS_CardinalityType, FS_EmptySet
  <2>. QED
    BY <1>1, <2>1, <2>2, <2>3
<1>3. CASE c \notin N
  <2>1. h.parent[c] = NoItem
    BY <1>3 DEF Shaped, Outside
  <2>2. c # NoItem /\ NoItem \notin N
    BY <1>1
  <2>3. Depth(N, D, c) = 1 /\ Depth(N, D, NoItem) = 0
    BY <1>3, <2>2 DEF Depth
  <2>. QED
    BY <1>1, <2>1, <2>3
<1>4. CASE c \in N
  <2>1. Depth(N, D, c) = Cardinality(Anc(N, D, c)) /\ Cardinality(Anc(N, D, c)) \in 1 .. Cardinality(N)
    BY <1>2, <1>4 DEF Depth
  <2>2. CASE h.parent[c] = NoItem
    <3>1. Depth(N, D, h.parent[c]) = 0
      BY <1>1, <2>2 DEF Depth
    <3>. QED
      BY <1>1, <2>1, <3>1
  <2>3. CASE h.parent[c] # NoItem
    <3>. DEFINE q == h.parent[c]
    <3>1. q \in N
      BY <1>4, <2>3, ShapeApart
    <3>2. Anc(N, D, c) = {c} \cup Anc(N, D, q) /\ \A m \in Anc(N, D, q) : m \notin D[c]
      BY <1>4, <2>3, Ancestors
    <3>3. c \in D[c]
      BY <1>4, ShapeFacts
    <3>. HIDE DEF q
    <3>4. Cardinality(Anc(N, D, c)) = Cardinality(Anc(N, D, q)) + 1
      <4>1. c \notin Anc(N, D, q) /\ IsFiniteSet(Anc(N, D, q)) /\ Anc(N, D, c) = Anc(N, D, q) \cup {c}
        BY <1>2, <3>1, <3>2, <3>3
      <4>. QED
        BY <4>1, FS_AddElement
    <3>5. Depth(N, D, q) = Cardinality(Anc(N, D, q)) /\ Cardinality(Anc(N, D, q)) \in 1 .. Cardinality(N)
      BY <1>2, <3>1 DEF Depth
    <3>6. Depth(N, D, q) < Depth(N, D, c)
      BY <2>1, <3>4, <3>5
    <3>. QED
      BY <1>1, <2>1, <3>6 DEF q
  <2>. QED
    BY <2>2, <2>3
<1>. QED
  BY <1>3, <1>4

(* The path of a node is the node and the path of its parent.              *)
LEMMA PathStep ==
  ASSUME NEW h \in Trees, NEW N, NEW D, Shaped(h, N, D), IsFiniteSet(N)
  PROVE  /\ Path(h, NoItem) = <<>>
         /\ \A c \in Values : Path(h, c) = <<c>> \o Path(h, h.parent[c])
         /\ \A c \in Values \cup {NoItem} : Path(h, c) \in Seq(Values)
<1>. DEFINE X == Values \cup {NoItem}
            Y == Seq(Values)
            K == Cardinality(N) + 1
            mu == [c \in X |-> Depth(N, D, c)]
            G == [f \in [X -> Y] |-> [c \in X |-> IF c = NoItem THEN <<>> ELSE <<c>> \o f[h.parent[c]]]]
            Solution(f) == f = [c \in X |-> IF c = NoItem THEN <<>> ELSE <<c>> \o f[h.parent[c]]]
            up == CHOOSE f : Solution(f)
<1>1. K \in Nat /\ NoItem \notin Values /\ <<>> \in Y
  BY FS_CardinalityType, HistogramTreeAssumption
<1>2. \A c \in Values : h.parent[c] \in X
  BY TreeFields
<1>3. mu \in [X -> 0 .. K]
  <2>1. Depth(N, D, NoItem) = 0
    BY <1>1 DEF Depth, Shaped
  <2>2. \A c \in Values : Depth(N, D, c) \in 0 .. K
    BY DepthFacts
  <2>. QED
    BY <1>1, <2>1, <2>2
<1>4. \A c \in Values : mu[h.parent[c]] < mu[c]
  BY <1>2, DepthFacts
<1>5. G \in [[X -> Y] -> [X -> Y]]
  <2>1. ASSUME NEW f \in [X -> Y], NEW c \in X
        PROVE  (IF c = NoItem THEN <<>> ELSE <<c>> \o f[h.parent[c]]) \in Y
    <3>1. CASE c = NoItem
      BY <1>1, <3>1
    <3>2. CASE c # NoItem
      <4>1. c \in Values /\ h.parent[c] \in X
        BY <1>2, <3>2
      <4>2. f[h.parent[c]] \in Y /\ <<c>> \in Y
        BY <4>1
      <4>. QED
        BY <3>2, <4>2
    <3>. QED
      BY <3>1, <3>2
  <2>. HIDE DEF Y
  <2>. QED
    BY <2>1
<1>6. \A f, g \in [X -> Y], x \in X :
        (\A y \in X : mu[y] < mu[x] => f[y] = g[y]) => G[f][x] = G[g][x]
  <2>. SUFFICES ASSUME NEW f \in [X -> Y], NEW g \in [X -> Y], NEW x \in X,
                       \A y \in X : mu[y] < mu[x] => f[y] = g[y]
                PROVE  G[f][x] = G[g][x]
    OBVIOUS
  <2>1. CASE x = NoItem
    BY <2>1
  <2>2. CASE x # NoItem
    <3>1. x \in Values /\ h.parent[x] \in X /\ mu[h.parent[x]] < mu[x]
      BY <1>2, <1>4, <2>2
    <3>2. f[h.parent[x]] = g[h.parent[x]]
      BY <3>1
    <3>. QED
      BY <2>2, <3>2
  <2>. QED
    BY <2>1, <2>2
<1>7. \E f \in [X -> Y] : Solution(f)
  <2>1. \E f : FixedBy(f, G, X, Y)
    <3>1. <<>> \in Y
      BY <1>1
    <3>2. K \in Nat
      BY <1>1
    <3>. HIDE DEF X, Y, K, mu, G
    <3>3. Unfolds(G, mu, X, Y, K)
      BY <1>3, <1>5, <1>6 DEF Unfolds
    <3>. QED
      BY <3>1, <3>2, <3>3, FixedPoint
  <2>. QED
    BY <2>1 DEF FixedBy
<1>8. Solution(up)
  <2>1. \E f : Solution(f)
    BY <1>7
  <2>. HIDE DEF Solution
  <2>. QED
    BY <2>1, Zenon
<1>9. \A c : Path(h, c) = up[c]
  BY Zenon DEF Path
<1>. HIDE DEF up, mu, G, K
<1>10. up[NoItem] = <<>> /\ \A c \in Values : up[c] = <<c>> \o up[h.parent[c]]
  BY <1>1, <1>8
<1>11. up \in [X -> Y]
  <2>1. PICK f \in [X -> Y] : Solution(f)
    BY <1>7
  <2>. DEFINE T == {k \in 0 .. Cardinality(N) + 1 : \A c \in X : Depth(N, D, c) <= k => up[c] \in Y}
  <2>2. \A c \in Values : Depth(N, D, c) \in 0 .. Cardinality(N) + 1
                          /\ Depth(N, D, h.parent[c]) < Depth(N, D, c)
    BY DepthFacts
  <2>3. Depth(N, D, NoItem) = 0
    BY <1>1 DEF Depth, Shaped
  <2>4. Cardinality(N) + 1 \in Nat /\ \A c \in X : Depth(N, D, c) \in 0 .. Cardinality(N) + 1
    BY <2>2, <2>3, FS_CardinalityType
  <2>5. 0 \in T
    <3>1. ASSUME NEW c \in X, Depth(N, D, c) <= 0 PROVE c = NoItem
      <4>1. ASSUME c \in Values PROVE FALSE
        <5>1. h.parent[c] \in X
          BY <1>2, <4>1
        <5>2. Depth(N, D, h.parent[c]) \in 0 .. Cardinality(N) + 1 /\ Depth(N, D, h.parent[c]) < Depth(N, D, c)
              /\ Depth(N, D, c) \in 0 .. Cardinality(N) + 1
          BY <2>2, <2>4, <4>1, <5>1
        <5>. QED
          BY <3>1, <5>2, FS_CardinalityType
      <4>. QED
        BY <4>1
    <3>2. \A c \in X : Depth(N, D, c) <= 0 => up[c] \in Y
      BY <1>1, <1>10, <3>1
    <3>. QED
      BY <2>4, <3>2
  <2>6. ASSUME NEW k \in 0 .. (Cardinality(N) + 1) - 1, k \in T PROVE k + 1 \in T
    <3>1. ASSUME NEW c \in X, Depth(N, D, c) <= k + 1 PROVE up[c] \in Y
      <4>1. CASE c = NoItem
        BY <1>1, <1>10, <4>1
      <4>2. CASE c # NoItem
        <5>1. c \in Values /\ h.parent[c] \in X
          BY <1>2, <4>2
        <5>2. Depth(N, D, h.parent[c]) < Depth(N, D, c)
          BY <2>2, <5>1
        <5>3. Depth(N, D, h.parent[c]) \in 0 .. Cardinality(N) + 1 /\ Depth(N, D, c) \in 0 .. Cardinality(N) + 1
          BY <2>4, <5>1
        <5>4. Depth(N, D, h.parent[c]) <= k
          BY <3>1, <5>2, <5>3, FS_CardinalityType
        <5>5. up[h.parent[c]] \in Y
          BY <2>6, <5>1, <5>4
        <5>6. up[c] = <<c>> \o up[h.parent[c]]
          BY <1>10, <5>1
        <5>7. <<c>> \in Y
          BY <5>1
        <5>. QED
          BY <5>5, <5>6, <5>7
      <4>. QED
        BY <4>1, <4>2
    <3>2. k + 1 \in 0 .. Cardinality(N) + 1
      BY <2>4
    <3>. QED
      BY <3>1, <3>2
  <2>7. 0 .. Cardinality(N) + 1 \subseteq T
    <3>. HIDE DEF T
    <3>. QED
      BY <2>4, <2>5, <2>6, InductionUpTo
  <2>8. \A c \in X : up[c] \in Y
    <3>1. Cardinality(N) + 1 \in T
      BY <2>4, <2>7
    <3>. QED
      BY <2>4, <3>1
  <2>9. up = [c \in X |-> up[c]]
    BY <1>8
  <2>. QED
    BY <2>8, <2>9
<1>. QED
  BY <1>9, <1>10, <1>11

LEMMA ToSetOfSeq ==
  ASSUME NEW S, NEW a \in Seq(S)
  PROVE  \A x : x \in ToSet(a) <=> \E i \in 1 .. Len(a) : a[i] = x
<1>1. DOMAIN a = 1 .. Len(a)
  OBVIOUS
<1>. QED
  BY <1>1 DEF ToSet

PrependedTo(a, c, b, S) ==
  /\ a \in Seq(S) /\ Len(a) = Len(b) + 1 /\ Len(b) \in Nat /\ a[1] = c
  /\ \A i \in 1 .. Len(b) : a[i + 1] = b[i]
  /\ \A i \in 2 .. Len(a) : i - 1 \in 1 .. Len(b) /\ a[i] = b[i - 1]
  /\ ToSet(a) = {c} \cup ToSet(b)

LEMMA Prepended ==
  ASSUME NEW S, NEW c \in S, NEW b \in Seq(S), NEW a, a = <<c>> \o b
  PROVE  PrependedTo(a, c, b, S)
<1>1. <<c>> \in Seq(S) /\ Len(<<c>>) = 1 /\ <<c>>[1] = c
  OBVIOUS
<1>2. a \in Seq(S) /\ Len(a) = Len(b) + 1 /\ Len(b) \in Nat
  BY <1>1
<1>3. \A i \in 1 .. Len(a) : a[i] = IF i = 1 THEN c ELSE b[i - 1]
  BY <1>1, <1>2
<1>4. /\ a[1] = c
      /\ \A i \in 1 .. Len(b) : a[i + 1] = b[i]
      /\ \A i \in 2 .. Len(a) : i - 1 \in 1 .. Len(b) /\ a[i] = b[i - 1]
  BY <1>2, <1>3
<1>6. ASSUME NEW x \in ToSet(a) PROVE x = c \/ x \in ToSet(b)
  <2>0. PICK i \in 1 .. Len(a) : a[i] = x
    BY <1>2, ToSetOfSeq
  <2>1. CASE i = 1
    BY <1>4, <2>0, <2>1
  <2>2. CASE i # 1
    <3>1. i \in 2 .. Len(a)
      BY <1>2, <2>2
    <3>2. i - 1 \in 1 .. Len(b) /\ b[i - 1] = x
      BY <1>4, <2>0, <3>1
    <3>. QED
      BY <3>2, ToSetOfSeq
  <2>. QED
    BY <2>1, <2>2
<1>7. ASSUME NEW x \in ToSet(b) PROVE x \in ToSet(a)
  <2>0. PICK i \in 1 .. Len(b) : b[i] = x
    BY <1>2, ToSetOfSeq
  <2>1. i + 1 \in 1 .. Len(a) /\ a[i + 1] = x
    BY <1>2, <1>4, <2>0
  <2>. QED
    BY <1>2, <2>1, ToSetOfSeq
<1>8. c \in ToSet(a)
  <2>1. 1 \in 1 .. Len(a)
    BY <1>2
  <2>. QED
    BY <1>2, <1>4, <2>1, ToSetOfSeq
<1>9. ToSet(a) = {c} \cup ToSet(b)
  BY <1>6, <1>7, <1>8
<1>. QED
  BY <1>2, <1>4, <1>9 DEF PrependedTo

(* A path leads from a node over its parents to the root.                  *)
Climb(h, N, D, a, t) ==
  /\ a \in Seq(N) /\ Len(a) >= 1 /\ a[1] = t
  /\ ToSet(a) = Anc(N, D, t)
  /\ \A i \in 1 .. Len(a) - 1 : h.parent[a[i]] = a[i + 1]
  /\ h.parent[a[Len(a)]] = NoItem
  /\ \A i, j \in 1 .. Len(a) : i < j => a[j] \notin D[a[i]]

LEMMA PathFacts ==
  ASSUME NEW h \in Trees, NEW N, NEW D, Shaped(h, N, D), IsFiniteSet(N), NEW t \in N
  PROVE  Climb(h, N, D, Path(h, t), t)
<1>. DEFINE K == Cardinality(N) + 1
            T == {k \in 0 .. K : \A c \in N : Depth(N, D, c) <= k => Climb(h, N, D, Path(h, c), c)}
<1>1. K \in Nat /\ N \subseteq Values /\ NoItem \notin Values
  BY FS_CardinalityType, HistogramTreeAssumption DEF Shaped
<1>2. \A c \in Values : Depth(N, D, c) \in 0 .. K /\ Depth(N, D, h.parent[c]) < Depth(N, D, c)
  BY DepthFacts
<1>. HIDE DEF K
<1>3. Depth(N, D, NoItem) = 0
  BY <1>1 DEF Depth
<1>4. \A c \in N : Depth(N, D, c) # 0
  <2>. SUFFICES ASSUME NEW c \in N, Depth(N, D, c) = 0 PROVE FALSE
    OBVIOUS
  <2>1. h.parent[c] \in N \cup {NoItem}
    BY ShapeApart
  <2>2. Depth(N, D, h.parent[c]) \in 0 .. K
    BY <1>1, <1>2, <1>3, <2>1
  <2>3. Depth(N, D, h.parent[c]) < Depth(N, D, c)
    BY <1>1, <1>2
  <2>. QED
    BY <1>1, <2>2, <2>3
<1>5. 0 \in T
  BY <1>1, <1>2, <1>4
<1>6. ASSUME NEW k \in 0 .. K - 1, k \in T PROVE k + 1 \in T
  <2>1. ASSUME NEW c \in N, Depth(N, D, c) <= k + 1 PROVE Climb(h, N, D, Path(h, c), c)
    <3>. DEFINE q == h.parent[c]
                b == Path(h, q)
                a == Path(h, c)
    <3>1. a = <<c>> \o b /\ Path(h, NoItem) = <<>>
      BY <1>1, PathStep
    <3>2. CASE q = NoItem
      <4>1. <<>> \in Seq(N) /\ Len(<<>>) = 0
        OBVIOUS
      <4>2. b = <<>>
        BY <3>1, <3>2
      <4>. HIDE DEF a, b
      <4>3. PrependedTo(a, c, <<>>, N)
        BY <3>1, <4>1, <4>2, Prepended
      <4>7. a \in Seq(N) /\ Len(a) = 1 /\ a[1] = c /\ ToSet(a) = {c} \cup ToSet(<<>>)
        BY <4>1, <4>3 DEF PrependedTo
      <4>4. ToSet(<<>>) = {}
        BY DEF ToSet
      <4>5. Anc(N, D, c) = {c}
        BY <3>2, Ancestors
      <4>6. Climb(h, N, D, a, c)
        BY <3>2, <4>7, <4>4, <4>5 DEF Climb
      <4>. QED
        BY <4>6 DEF a
    <3>3. CASE q # NoItem
      <4>1. q \in N /\ Depth(N, D, q) < Depth(N, D, c)
        BY <1>1, <1>2, <3>3, ShapeApart
      <4>2. Depth(N, D, q) <= k
        BY <1>1, <1>2, <2>1, <4>1
      <4>3. Climb(h, N, D, b, q)
        BY <1>6, <4>1, <4>2
      <4>4. /\ Anc(N, D, c) = {c} \cup Anc(N, D, q)
            /\ \A m \in Anc(N, D, q) : m \notin D[c]
        BY <3>3, Ancestors
      <4>5. h.parent[c] = q
        OBVIOUS
      <4>. HIDE DEF a, b, q
      <4>6. /\ b \in Seq(N) /\ Len(b) >= 1 /\ b[1] = q /\ ToSet(b) = Anc(N, D, q)
            /\ \A i \in 1 .. Len(b) - 1 : h.parent[b[i]] = b[i + 1]
            /\ h.parent[b[Len(b)]] = NoItem
            /\ \A i, j \in 1 .. Len(b) : i < j => b[j] \notin D[b[i]]
        BY <4>3 DEF Climb
      <4>7. /\ a \in Seq(N) /\ Len(a) = Len(b) + 1 /\ Len(b) \in Nat /\ a[1] = c
            /\ \A i \in 1 .. Len(b) : a[i + 1] = b[i]
            /\ \A i \in 2 .. Len(a) : i - 1 \in 1 .. Len(b) /\ a[i] = b[i - 1]
            /\ ToSet(a) = {c} \cup ToSet(b)
        <5>1. PrependedTo(a, c, b, N)
          BY <3>1, <4>6, Prepended
        <5>. QED
          BY <5>1 DEF PrependedTo
      <4>8. ASSUME NEW i \in 1 .. Len(a) - 1 PROVE h.parent[a[i]] = a[i + 1]
        <5>1. CASE i = 1
          <6>1. 1 \in 1 .. Len(b)
            BY <4>6, <4>7
          <6>2. a[2] = b[1]
            BY <4>7, <6>1
          <6>. QED
            BY <4>5, <4>6, <4>7, <5>1, <6>2
        <5>2. CASE i # 1
          <6>1. i \in 2 .. Len(a) /\ i - 1 \in 1 .. Len(b) - 1 /\ i \in 1 .. Len(b) /\ (i - 1) + 1 = i
            BY <4>7, <5>2
          <6>2. a[i] = b[i - 1] /\ a[i + 1] = b[i] /\ h.parent[b[i - 1]] = b[(i - 1) + 1]
            BY <4>6, <4>7, <6>1
          <6>. QED
            BY <6>1, <6>2
        <5>. QED
          BY <5>1, <5>2
      <4>9. h.parent[a[Len(a)]] = NoItem
        <5>1. Len(b) \in 1 .. Len(b)
          BY <4>6, <4>7
        <5>2. a[Len(a)] = b[Len(b)]
          BY <4>7, <5>1
        <5>. QED
          BY <4>6, <5>2
      <4>10. ASSUME NEW i \in 1 .. Len(a), NEW j \in 1 .. Len(a), i < j PROVE a[j] \notin D[a[i]]
        <5>1. j \in 2 .. Len(a)
          BY <4>7, <4>10
        <5>2. a[j] = b[j - 1] /\ j - 1 \in 1 .. Len(b)
          BY <4>7, <5>1
        <5>3. CASE i = 1
          <6>1. b[j - 1] \in ToSet(b)
            BY <4>6, <5>2 DEF ToSet
          <6>. QED
            BY <4>4, <4>6, <4>7, <5>2, <5>3, <6>1
        <5>4. CASE i # 1
          <6>1. i \in 2 .. Len(a) /\ i - 1 < j - 1
            BY <4>7, <4>10, <5>4
          <6>2. a[i] = b[i - 1] /\ i - 1 \in 1 .. Len(b)
            BY <4>7, <6>1
          <6>. QED
            BY <4>6, <5>2, <6>1, <6>2
        <5>. QED
          BY <5>3, <5>4
      <4>11. Climb(h, N, D, a, c)
        <5>1. Len(a) >= 1
          BY <4>7
        <5>. QED
          BY <4>4, <4>6, <4>7, <4>8, <4>9, <4>10, <5>1 DEF Climb
      <4>. QED
        BY <4>11 DEF a
    <3>. QED
      BY <3>2, <3>3
  <2>2. k + 1 \in 0 .. K
    BY <1>1
  <2>. QED
    BY <2>1, <2>2
<1>7. 0 .. K \subseteq T
  <2>. HIDE DEF T
  <2>. QED
    BY <1>1, <1>5, <1>6, InductionUpTo
<1>8. K \in T /\ Depth(N, D, t) <= K
  BY <1>1, <1>2, <1>7
<1>. QED
  BY <1>8

(* UpdateHeight goes up the path and leaves a tree whose heights are exact, *)
(* if only t's was not, and whose root is the node without a parent.       *)
Updated(h, f, N, t, E) ==
  /\ f \in Trees /\ Shaped(f, N, E)
  /\ f.next = h.next /\ f.dup = h.dup
  /\ TreeCounted(h, N) => TreeCounted(f, N)
  /\ ExactBut(h, N, {t, h.parent[t]}) => ExactBut(f, N, {})
  /\ f.root \in N /\ f.parent[f.root] = NoItem

(* After i rounds along the path a.                                        *)
Due(a, i) == IF i < Len(a) THEN a[i + 1] ELSE NoItem
Round(h, g, N, D, a, i, t, E) ==
  /\ g \in Trees /\ Shaped(g, N, E)
  /\ g.next = h.next /\ g.dup = h.dup
  /\ TreeCounted(h, N) => TreeCounted(g, N)
  /\ \A j \in i + 1 .. Len(a) : E[a[j]] = D[a[j]] /\ g.parent[a[j]] = h.parent[a[j]]
  /\ ExactBut(h, N, {t, h.parent[t]}) => ExactBut(g, N, {Due(a, i), Due(a, i + 1)})

LEMMA NextRound ==
  ASSUME NEW h \in Trees, NEW N, NEW D, Shaped(h, N, D), IsFiniteSet(N), NEW t \in N, NEW isInserting,
         NEW a, Climb(h, N, D, a, t), NEW i \in 0 .. Len(a) - 1,
         NEW E, NEW g, Round(h, g, N, D, a, i, t, E), NEW f, f = Rebalance(g, a[i + 1], isInserting)
  PROVE  \E F : Round(h, f, N, D, a, i + 1, t, F)
<1>1. /\ a \in Seq(N) /\ Len(a) >= 1 /\ Len(a) \in Nat
      /\ \A k \in 1 .. Len(a) - 1 : h.parent[a[k]] = a[k + 1]
      /\ h.parent[a[Len(a)]] = NoItem
      /\ \A k, j \in 1 .. Len(a) : k < j => a[j] \notin D[a[k]]
  BY DEF Climb
<1>2. /\ g \in Trees /\ Shaped(g, N, E)
      /\ g.next = h.next /\ g.dup = h.dup
      /\ TreeCounted(h, N) => TreeCounted(g, N)
      /\ \A j \in i + 1 .. Len(a) : E[a[j]] = D[a[j]] /\ g.parent[a[j]] = h.parent[a[j]]
      /\ ExactBut(h, N, {t, h.parent[t]}) => ExactBut(g, N, {Due(a, i), Due(a, i + 1)})
  BY DEF Round
<1>. DEFINE c == a[i + 1]
<1>3. i + 1 \in 1 .. Len(a) /\ i < Len(a)
  BY <1>1
<1>4. c \in N /\ E[c] = D[c] /\ g.parent[c] = h.parent[c]
  BY <1>1, <1>2, <1>3
<1>5. PICK F : Local(g, f, N, E, F, c)
               /\ (ExactBut(g, N, {c, g.parent[c]}) => ExactBut(f, N, {g.parent[c]}))
  <2>. HIDE DEF c
  <2>1. f = Rebalance(g, c, isInserting)
    BY DEF c
  <2>. QED
    BY <1>2, <1>4, <2>1, RebalanceKeeps
<1>6. /\ f \in Trees /\ Shaped(f, N, F)
      /\ f.next = g.next /\ f.dup = g.dup
      /\ TreeCounted(g, N) => TreeCounted(f, N)
      /\ \A n \in N \ E[c] : F[n] = E[n] /\ f.parent[n] = g.parent[n]
  BY <1>5 DEF Local
<1>7. ASSUME NEW j \in (i + 1) + 1 .. Len(a)
      PROVE  F[a[j]] = D[a[j]] /\ f.parent[a[j]] = h.parent[a[j]]
  <2>1. j \in 1 .. Len(a) /\ j \in i + 1 .. Len(a) /\ i + 1 < j
    BY <1>1, <1>3
  <2>2. a[j] \in N /\ a[j] \notin D[c]
    BY <1>1, <1>3, <2>1
  <2>3. E[a[j]] = D[a[j]] /\ g.parent[a[j]] = h.parent[a[j]]
    BY <1>2, <2>1
  <2>. QED
    BY <1>4, <1>6, <2>2, <2>3
<1>8. g.parent[c] = Due(a, i + 1)
  <2>1. CASE i + 1 < Len(a)
    <3>1. i + 1 \in 1 .. Len(a) - 1
      BY <1>1, <1>3, <2>1
    <3>. QED
      BY <1>1, <1>4, <2>1, <3>1 DEF Due
  <2>2. CASE ~ (i + 1 < Len(a))
    <3>1. i + 1 = Len(a)
      BY <1>1, <1>3, <2>2
    <3>. QED
      BY <1>1, <1>4, <2>2, <3>1 DEF Due
  <2>. QED
    BY <2>1, <2>2
<1>9. ASSUME ExactBut(h, N, {t, h.parent[t]})
      PROVE  ExactBut(f, N, {Due(a, i + 1), Due(a, (i + 1) + 1)})
  <2>1. Due(a, i) = c
    BY <1>3 DEF Due
  <2>2. ExactBut(g, N, {c, g.parent[c]})
    BY <1>2, <1>8, <1>9, <2>1
  <2>3. ExactBut(f, N, {Due(a, i + 1)})
    BY <1>5, <1>8, <2>2
  <2>. QED
    BY <2>3 DEF ExactBut
<1>. HIDE DEF c
<1>10. Round(h, f, N, D, a, i + 1, t, F)
  BY <1>2, <1>6, <1>7, <1>9 DEF Round
<1>. QED
  BY <1>10

LEMMA UpdateHeightKeeps ==
  ASSUME NEW h \in Trees, NEW N, NEW D, Shaped(h, N, D), IsFiniteSet(N), NEW t \in N, NEW isInserting,
         NEW f, f = UpdateHeight(h, t, isInserting)
  PROVE  \E E : Updated(h, f, N, t, E)
<1>. DEFINE a == Path(h, t)
            m == Len(a)
            Solution(x) == x = [i \in 0 .. m |->
                                  IF i = 0 THEN h ELSE Rebalance(x[i - 1], a[i], isInserting)]
            after == CHOOSE x : Solution(x)
            h1 == after[m]
<1>1. Climb(h, N, D, a, t)
  BY PathFacts
<1>0. Rebalanced(h, a, isInserting) = h1
  BY Zenon DEF Rebalanced
<1>2. f = [h1 EXCEPT !.root = Last(Path(h1, t))]
  <2>. HIDE DEF h1
  <2>. QED
    BY <1>0 DEF UpdateHeight
<1>. HIDE DEF a
<1>3. a \in Seq(N) /\ m \in Nat /\ m >= 1 /\ a[1] = t
  BY <1>1 DEF Climb
<1>. HIDE DEF m
<1>4. Solution(after)
  <2>. DEFINE S == {x \in Trees : \E E : Shaped(x, N, E)}
              g == [z \in S \X (1 .. m) |-> Rebalance(z[1], a[z[2]], isInserting)]
  <2>1. h \in S
    OBVIOUS
  <2>2. ASSUME NEW x \in S, NEW i \in 1 .. m PROVE Rebalance(x, a[i], isInserting) \in S
    <3>1. PICK E : Shaped(x, N, E)
      OBVIOUS
    <3>2. a[i] \in N
      BY <1>3 DEF m
    <3>. DEFINE y == Rebalance(x, a[i], isInserting)
    <3>. HIDE DEF y
    <3>3. PICK F : Local(x, y, N, E, F, a[i])
      BY <3>1, <3>2, RebalanceKeeps DEF y
    <3>4. y \in S
      BY <3>3 DEF Local
    <3>. QED
      BY <3>4 DEF y
  <2>3. g \in [S \X (1 .. m) -> S]
    <3>. HIDE DEF S
    <3>. QED
      BY <2>2
  <2>4. IsStep(g, S, m)
    BY <2>3 DEF IsStep
  <2>5. PICK q : Iterates(q, g, h, S, m)
    <3>. HIDE DEF S, g
    <3>. QED
      BY <1>3, <2>1, <2>4, Iteration
  <2>6. /\ q \in [0 .. m -> S] /\ q[0] = h
        /\ \A i \in 1 .. m : q[i] = g[<<q[i - 1], i>>]
    BY <2>5 DEF Iterates
  <2>7. ASSUME NEW i \in 1 .. m PROVE q[i] = Rebalance(q[i - 1], a[i], isInserting)
    <3>1. i - 1 \in 0 .. m
      BY <1>3
    <3>2. q[i - 1] \in S
      BY <2>6, <3>1
    <3>3. <<q[i - 1], i>> \in S \X (1 .. m)
      BY <3>2
    <3>. HIDE DEF S
    <3>. QED
      BY <2>6, <3>3
  <2>8. q = [i \in 0 .. m |-> IF i = 0 THEN h ELSE Rebalance(q[i - 1], a[i], isInserting)]
    <3>. HIDE DEF S, g
    <3>1. \A i \in 0 .. m : q[i] = IF i = 0 THEN h ELSE Rebalance(q[i - 1], a[i], isInserting)
      BY <1>3, <2>6, <2>7
    <3>2. q = [i \in 0 .. m |-> q[i]]
      BY <2>6
    <3>. QED
      BY <3>1, <3>2
  <2>9. \E x : Solution(x)
    BY <2>8
  <2>. HIDE DEF Solution
  <2>. QED
    BY <2>9, Zenon
<1>. HIDE DEF after
<1>5. after[0] = h /\ \A i \in 1 .. m : after[i] = Rebalance(after[i - 1], a[i], isInserting)
  BY <1>3, <1>4
<1>. DEFINE T == {i \in 0 .. m : \E E : Round(h, after[i], N, D, a, i, t, E)}
<1>6. 0 \in T
  <2>0. Due(a, 0) = t /\ Due(a, 0 + 1) = h.parent[t]
    <3>1. Due(a, 0) = t
      BY <1>3 DEF Due, m
    <3>2. CASE m = 1
      BY <1>1, <1>3, <3>1, <3>2 DEF Due, m, Climb
    <3>3. CASE m # 1
      <4>0. Len(a) = m
        BY DEF m
      <4>1. 1 \in 1 .. Len(a) - 1 /\ 0 + 1 = 1 /\ 1 < Len(a)
        BY <1>3, <3>3, <4>0
      <4>2. h.parent[a[1]] = a[1 + 1]
        BY <1>1, <4>1 DEF Climb
      <4>. QED
        BY <1>3, <3>1, <4>1, <4>2 DEF Due
    <3>. QED
      BY <3>2, <3>3
  <2>1. Round(h, h, N, D, a, 0, t, D)
    BY <1>3, <2>0 DEF Round
  <2>. QED
    BY <1>3, <1>5, <2>1
<1>7. ASSUME NEW i \in 0 .. m - 1, i \in T PROVE i + 1 \in T
  <2>1. i + 1 \in 1 .. m /\ (i + 1) - 1 = i /\ i \in 0 .. Len(a) - 1
    BY <1>3 DEF m
  <2>2. after[i + 1] = Rebalance(after[i], a[i + 1], isInserting)
    BY <1>5, <2>1
  <2>3. PICK E : Round(h, after[i], N, D, a, i, t, E)
    BY <1>7
  <2>4. PICK F : Round(h, after[i + 1], N, D, a, i + 1, t, F)
    BY <1>1, <2>1, <2>2, <2>3, NextRound
  <2>. QED
    BY <1>3, <2>1, <2>4
<1>8. 0 .. m \subseteq T
  <2>. HIDE DEF T
  <2>. QED
    BY <1>3, <1>6, <1>7, InductionUpTo
<1>9. PICK E : Round(h, h1, N, D, a, m, t, E)
  BY <1>3, <1>8
<1>. HIDE DEF h1, T
<1>19. Due(a, m) = NoItem /\ Due(a, m + 1) = NoItem
  BY <1>3 DEF Due, m
<1>10. /\ h1 \in Trees /\ Shaped(h1, N, E)
       /\ h1.next = h.next /\ h1.dup = h.dup
       /\ TreeCounted(h, N) => TreeCounted(h1, N)
       /\ ExactBut(h, N, {t, h.parent[t]}) => ExactBut(h1, N, {NoItem})
  BY <1>9, <1>19 DEF Round
<1>11. Climb(h1, N, E, Path(h1, t), t)
  BY <1>10, PathFacts
<1>. DEFINE b == Path(h1, t)
            r == Last(b)
<1>12. r \in N /\ h1.parent[r] = NoItem
  <2>1. b \in Seq(N) /\ Len(b) >= 1 /\ h1.parent[b[Len(b)]] = NoItem
    BY <1>11 DEF Climb
  <2>. HIDE DEF b
  <2>2. r = b[Len(b)]
    BY DEF Last
  <2>. QED
    BY <2>1, <2>2
<1>. HIDE DEF r
<1>13. f = [h1 EXCEPT !.root = r]
  BY <1>2 DEF r
<1>14. r \in Values \cup {NoItem} /\ NoItem \notin N
  BY <1>12, HistogramTreeAssumption DEF Shaped
<1>15. /\ f \in Trees /\ f.root = r /\ f.child = h1.child /\ f.parent = h1.parent
       /\ f.next = h1.next /\ f.dup = h1.dup /\ f.count = h1.count /\ f.height = h1.height
  BY <1>10, <1>13, <1>14 DEF Trees
<1>16. Shaped(f, N, E)
  BY <1>10, <1>15, SameShape
<1>17. TreeCounted(h, N) => TreeCounted(f, N)
  BY <1>10, <1>15 DEF TreeCounted, CountOf
<1>18. ASSUME ExactBut(h, N, {t, h.parent[t]}) PROVE ExactBut(f, N, {})
  <2>1. \A n \in N : h1.height[n] = HeightHere(h1, n)
    BY <1>10, <1>14, <1>18 DEF ExactBut
  <2>2. \A n \in N : HeightHere(f, n) = HeightHere(h1, n)
    BY <1>15 DEF HeightHere, HeightOf
  <2>. QED
    BY <1>15, <2>1, <2>2 DEF ExactBut
<1>20. Updated(h, f, N, t, E)
  BY <1>10, <1>12, <1>15, <1>16, <1>17, <1>18 DEF Updated
<1>. QED
  BY <1>20

-----------------------------------------------------------------------------
(***************************************************************************)
(* The search for the place of a value.                                    *)
(***************************************************************************)
Rooted(h, N) == h.root \in N /\ h.parent[h.root] = NoItem

LEMMA AllBelowRoot ==
  ASSUME NEW h \in Trees, NEW N, NEW D, Shaped(h, N, D), IsFiniteSet(N), Rooted(h, N)
  PROVE  D[h.root] = N
<1>1. ASSUME NEW n \in N PROVE n \in D[h.root]
  <2>. DEFINE a == Path(h, n)
  <2>1. Climb(h, N, D, a, n)
    BY PathFacts
  <2>. HIDE DEF a
  <2>2. a \in Seq(N) /\ Len(a) >= 1 /\ h.parent[a[Len(a)]] = NoItem /\ ToSet(a) = Anc(N, D, n)
    BY <2>1 DEF Climb
  <2>3. a[Len(a)] \in N /\ a[Len(a)] \in Anc(N, D, n)
    BY <2>2, ToSetOfSeq
  <2>4. a[Len(a)] = h.root
    BY <2>2, <2>3 DEF Shaped, OneRoot, Rooted
  <2>. QED
    BY <2>3, <2>4 DEF Anc
<1>2. D[h.root] \subseteq N
  BY ShapeFacts DEF Rooted
<1>. QED
  BY <1>1, <1>2

(* The other nodes are on v's side where they are on n's.                  *)
InRange(N, D, n, v) ==
  \A m \in N \ D[n] : m # v /\ \A x \in D[n] : Towards(x, m) = Towards(v, m)

LEMMA RangeNarrows ==
  ASSUME NEW h \in Trees, NEW N, NEW D, Shaped(h, N, D), NEW n \in N, NEW v \in Values,
         InRange(N, D, n, v), v # n, NEW c, c = h.child[Towards(v, n)][n], c # NoItem
  PROVE  c \in N /\ InRange(N, D, c, v)
<1>. DEFINE y == Towards(v, n)
            o == Other(y)
<1>1. y \in Sides /\ o \in Sides /\ o # y /\ Other(o) = y
  <2>1. y \in Sides
    BY DEF Towards, Sides
  <2>. HIDE DEF y
  <2>. QED
    BY <2>1, TwoSides
<1>2. c = h.child[y][n] /\ Towards(v, n) = y
  OBVIOUS
<1>. HIDE DEF y
<1>3. c \in N /\ D[c] \subseteq D[n] /\ n \in Values /\ N \subseteq Values
  BY <1>1, <1>2, ShapeFacts DEF Shaped
<1>4. \A x \in D[c] : x \in Values /\ x # n /\ Towards(x, n) = y
  <2>1. Below(D, h.child[y][n]) = D[c]
    BY <1>2 DEF Below
  <2>. HIDE DEF o
  <2>2. \A m \in Below(D, h.child[y][n]) : m \in Values /\ m # n /\ Towards(m, n) = y
    BY <1>1, BelowSide
  <2>. QED
    BY <2>1, <2>2
<1>5. ASSUME NEW m \in N \ D[c], NEW x \in D[c] \cup {v}
      PROVE  m # v /\ Towards(x, m) = Towards(v, m)
  <2>1. CASE m \notin D[n]
    <3>1. m # v /\ \A z \in D[n] : Towards(z, m) = Towards(v, m)
      BY <2>1 DEF InRange
    <3>. QED
      BY <1>3, <3>1
  <2>2. CASE m = n
    BY <1>2, <1>4, <2>2
  <2>3. CASE m \in D[n] /\ m # n
    <3>1. D[n] = {n} \cup Below(D, h.child[y][n]) \cup Below(D, h.child[o][n])
      BY <1>1, ShapeFacts
    <3>2. Below(D, h.child[y][n]) = D[c]
      BY <1>2 DEF Below
    <3>3. m \in Below(D, h.child[o][n])
      BY <2>3, <3>1, <3>2
    <3>9. \A z \in Below(D, h.child[o][n]) : z \in Values /\ Towards(z, n) = o
      <4>. HIDE DEF o
      <4>. QED
        BY <1>1, ShapeApart
    <3>4. m \in Values /\ Towards(m, n) = o
      BY <3>3, <3>9
    <3>5. Towards(n, m) = y
      BY <1>1, <1>3, <2>3, <3>4, SideFacts
    <3>6. \A z \in Values : z # n /\ Towards(z, n) = y => z # m /\ Towards(z, m) = y
      BY <1>1, <1>3, <2>3, <3>4, <3>5, SideFacts
    <3>7. v # m /\ Towards(v, m) = y
      BY <1>2, <3>6
    <3>8. x \in Values /\ x # n /\ Towards(x, n) = y
      BY <1>2, <1>4
    <3>. QED
      BY <3>6, <3>7, <3>8
  <2>. QED
    BY <2>1, <2>2, <2>3
<1>. QED
  BY <1>3, <1>5 DEF InRange

(* Where the search ends.                                                  *)
PlaceFound(h, N, D, t, v) ==
  /\ t \in N /\ InRange(N, D, t, v)
  /\ v = t \/ h.child[Towards(v, t)][t] = NoItem

LEMMA PlaceFacts ==
  ASSUME NEW h \in Trees, NEW N, NEW D, Shaped(h, N, D), IsFiniteSet(N), Rooted(h, N), NEW v \in Values
  PROVE  PlaceFound(h, N, D, PlaceOf(h, v), v)
<1>. DEFINE K == Cardinality(N)
            mu == [n \in Values |-> IF n \in N THEN Cardinality(D[n]) ELSE 0]
            Ends(n) == v = n \/ h.child[Towards(v, n)][n] = NoItem
            G == [f \in [Values -> Values] |->
                    [n \in Values |-> IF Ends(n) THEN n ELSE f[h.child[Towards(v, n)][n]]]]
            Solution(f) == f = [n \in Values |-> IF v = n \/ h.child[Towards(v, n)][n] = NoItem THEN n
                                                 ELSE f[h.child[Towards(v, n)][n]]]
            place == CHOOSE f : Solution(f)
<1>1. K \in Nat /\ N \subseteq Values /\ NoItem \notin Values
  BY FS_CardinalityType, HistogramTreeAssumption DEF Shaped
<1>2. \A n \in Values : Towards(v, n) \in Sides
  BY DEF Towards, Sides
<1>3. ASSUME NEW n \in Values, ~ Ends(n)
      PROVE  /\ n \in N /\ h.child[Towards(v, n)][n] \in N
             /\ Cardinality(D[h.child[Towards(v, n)][n]]) < Cardinality(D[n])
  <2>1. n \in N
    BY <1>2, <1>3 DEF Shaped, Outside
  <2>2. h.child[Towards(v, n)][n] \in N
    BY <1>2, <1>3, <2>1, ShapeFacts
  <2>3. Cardinality(D[h.child[Towards(v, n)][n]]) < Cardinality(D[n])
    BY <1>2, <1>3, <2>1, SmallerBelow
  <2>. QED
    BY <2>1, <2>2, <2>3
<1>4. \A n \in N : Cardinality(D[n]) \in 0 .. K
  BY SmallerBelow
<1>5. \E f : Solution(f)
  <2>1. mu \in [Values -> 0 .. K]
    BY <1>1, <1>4
  <2>2. G \in [[Values -> Values] -> [Values -> Values]]
    <3>1. ASSUME NEW f \in [Values -> Values], NEW n \in Values
          PROVE  (IF Ends(n) THEN n ELSE f[h.child[Towards(v, n)][n]]) \in Values
      BY <1>1, <1>3
    <3>. HIDE DEF Ends
    <3>. QED
      BY <3>1
  <2>3. \A f, g \in [Values -> Values], x \in Values :
          (\A y \in Values : mu[y] < mu[x] => f[y] = g[y]) => G[f][x] = G[g][x]
    <3>. SUFFICES ASSUME NEW f \in [Values -> Values], NEW g \in [Values -> Values], NEW x \in Values,
                         \A y \in Values : mu[y] < mu[x] => f[y] = g[y]
                  PROVE  G[f][x] = G[g][x]
      OBVIOUS
    <3>1. CASE Ends(x)
      <4>. HIDE DEF Ends
      <4>. QED
        BY <3>1
    <3>2. CASE ~ Ends(x)
      <4>. DEFINE c == h.child[Towards(v, x)][x]
      <4>1. c \in Values /\ mu[c] < mu[x]
        BY <1>1, <1>3, <3>2
      <4>2. f[c] = g[c]
        BY <4>1
      <4>. HIDE DEF Ends
      <4>. QED
        BY <3>2, <4>2
    <3>. QED
      BY <3>1, <3>2
  <2>4. Unfolds(G, mu, Values, Values, K)
    <3>. HIDE DEF G, mu, K
    <3>. QED
      BY <2>1, <2>2, <2>3 DEF Unfolds
  <2>. HIDE DEF mu, K
  <2>5. \E f : FixedBy(f, G, Values, Values)
    <3>. HIDE DEF G
    <3>. QED
      BY <1>1, <2>4, FixedPoint
  <2>6. PICK f : FixedBy(f, G, Values, Values)
    BY <2>5
  <2>7. f \in [Values -> Values] /\ f = G[f]
    <3>. HIDE DEF G
    <3>. QED
      BY <2>6 DEF FixedBy
  <2>. QED
    BY <2>7
<1>6. Solution(place)
  <2>. HIDE DEF Solution
  <2>. QED
    BY <1>5, Zenon
<1>7. PlaceOf(h, v) = place[h.root]
  BY Zenon DEF PlaceOf
<1>. HIDE DEF place, G, mu, K
<1>8. \A n \in Values : place[n] = IF Ends(n) THEN n ELSE place[h.child[Towards(v, n)][n]]
  BY <1>6
<1>. HIDE DEF Solution
<1>. DEFINE T == {k \in 0 .. K : \A n \in N : Cardinality(D[n]) <= k /\ InRange(N, D, n, v)
                                              => PlaceFound(h, N, D, place[n], v)}
<1>9. ASSUME NEW n \in N, InRange(N, D, n, v), Ends(n) PROVE PlaceFound(h, N, D, place[n], v)
  <2>1. place[n] = n
    BY <1>1, <1>8, <1>9
  <2>. QED
    BY <1>9, <2>1 DEF PlaceFound
<1>10. 0 \in T
  <2>1. \A n \in N : Cardinality(D[n]) # 0
    <3>1. \A n \in N : IsFiniteSet(D[n]) /\ n \in D[n]
      BY ShapeFacts, FS_Subset
    <3>. QED
      BY <3>1, FS_EmptySet
  <2>. QED
    BY <1>1, <1>4, <2>1
<1>11. ASSUME NEW k \in 0 .. K - 1, k \in T PROVE k + 1 \in T
  <2>1. ASSUME NEW n \in N, Cardinality(D[n]) <= k + 1, InRange(N, D, n, v)
        PROVE  PlaceFound(h, N, D, place[n], v)
    <3>1. CASE Ends(n)
      BY <1>9, <2>1, <3>1
    <3>2. CASE ~ Ends(n)
      <4>. DEFINE c == h.child[Towards(v, n)][n]
      <4>1. n \in Values /\ c \in N /\ Cardinality(D[c]) < Cardinality(D[n])
        BY <1>1, <1>3, <3>2
      <4>2. place[n] = place[c]
        BY <1>8, <3>2, <4>1
      <4>3. v # n /\ c # NoItem
        BY <3>2
      <4>4. c = h.child[Towards(v, n)][n]
        OBVIOUS
      <4>. HIDE DEF c
      <4>5. InRange(N, D, c, v)
        BY <2>1, <4>3, <4>4, RangeNarrows
      <4>6. Cardinality(D[c]) <= k
        BY <1>1, <1>4, <2>1, <4>1
      <4>7. PlaceFound(h, N, D, place[c], v)
        BY <1>11, <4>1, <4>5, <4>6
      <4>. QED
        BY <4>2, <4>7
    <3>. QED
      BY <3>1, <3>2
  <2>. HIDE DEF Ends
  <2>. QED
    BY <1>1, <2>1
<1>12. 0 .. K \subseteq T
  <2>. HIDE DEF T
  <2>. QED
    BY <1>1, <1>10, <1>11, InductionUpTo
<1>13. InRange(N, D, h.root, v) /\ h.root \in N
  BY AllBelowRoot DEF InRange, Rooted
<1>14. K \in T /\ Cardinality(D[h.root]) <= K
  BY <1>1, <1>4, <1>12, <1>13
<1>15. PlaceFound(h, N, D, place[h.root], v)
  BY <1>13, <1>14
<1>. QED
  BY <1>7, <1>15

-----------------------------------------------------------------------------
(***************************************************************************)
(* The order of the nodes: Smaller and Larger.                             *)
(***************************************************************************)
Neighbor(N, n, s, m) ==
  IF m = NoItem THEN \A x \in N : x # n => Towards(x, n) # s
  ELSE /\ m \in N /\ m # n /\ Towards(m, n) = s
       /\ \A x \in N : x # n /\ x # m /\ Towards(x, n) = s => Towards(x, m) = s
Linked(h, N) == \A n \in N, s \in Sides : Neighbor(N, n, s, h.next[s][n])

(* Nothing is between t and v. *)
NextTo(N, t, v) == \A x \in N \ {t} : x # v /\ Towards(v, x) = Towards(t, x)

LEMMA OtherSide ==
  ASSUME NEW a \in Values, NEW b \in Values, a # b
  PROVE  Towards(a, b) \in Sides /\ Towards(b, a) = Other(Towards(a, b))
<1>1. Towards(a, b) \in Sides
  BY DEF Towards, Sides
<1>. QED
  BY <1>1, SideFacts

(* If b is on side s of a, and c on side s of b, then c is on side s of a. *)
LEMMA SameSide ==
  ASSUME NEW a \in Values, NEW b \in Values, NEW c \in Values, a # b, b # c,
         NEW s, Towards(b, a) = s, Towards(c, b) = s
  PROVE  c # a /\ Towards(c, a) = s
<1>1. a \in Nat /\ b \in Nat /\ c \in Nat
  BY HistogramTreeAssumption
<1>2. s = L \/ s = R
  BY DEF Towards
<1>3. CASE s = L
  BY <1>1, <1>3 DEF Towards, L, R
<1>4. CASE s = R
  BY <1>1, <1>4 DEF Towards, L, R
<1>. QED
  BY <1>2, <1>3, <1>4

LEMMA PlaceNextTo ==
  ASSUME NEW h \in Trees, NEW N, NEW D, Shaped(h, N, D), NEW t, NEW v \in Values,
         PlaceFound(h, N, D, t, v), v # t
  PROVE  NextTo(N, t, v)
<1>. DEFINE s == Towards(v, t)
            o == Other(s)
<1>1. t \in N /\ N \subseteq Values /\ s \in Sides /\ o \in Sides /\ Other(o) = s /\ o # s
  <2>1. t \in N /\ N \subseteq Values
    BY DEF PlaceFound, Shaped
  <2>2. s \in Sides
    BY DEF Towards, Sides
  <2>. HIDE DEF s
  <2>. QED
    BY <2>1, <2>2, TwoSides
<1>2. h.child[s][t] = NoItem /\ InRange(N, D, t, v) /\ Towards(v, t) = s
  BY DEF PlaceFound
<1>. HIDE DEF s, o
<1>3. t \in D[t]
  BY <1>1, ShapeFacts
<1>4. ASSUME NEW x \in N \ {t} PROVE x # v /\ Towards(v, x) = Towards(t, x)
  <2>1. CASE x \notin D[t]
    <3>1. x # v /\ \A z \in D[t] : Towards(z, x) = Towards(v, x)
      BY <1>2, <2>1 DEF InRange
    <3>. QED
      BY <1>3, <3>1
  <2>2. CASE x \in D[t]
    <3>1. D[t] = {t} \cup Below(D, h.child[s][t]) \cup Below(D, h.child[o][t])
      BY <1>1, ShapeFacts DEF o
    <3>2. Below(D, h.child[s][t]) = {}
      BY <1>2 DEF Below
    <3>3. x \in Below(D, h.child[o][t])
      BY <2>2, <3>1, <3>2
    <3>4. \A z \in Below(D, h.child[o][t]) : Towards(z, t) = o
      BY <1>1, ShapeApart
    <3>5. Towards(x, t) = o
      BY <3>3, <3>4
    <3>6. Towards(t, x) = s
      BY <1>1, <3>5, SideFacts
    <3>7. v # x /\ Towards(v, x) = s
      BY <1>1, <1>2, <3>6, SameSide
    <3>. QED
      BY <3>6, <3>7
  <2>. QED
    BY <2>1, <2>2
<1>. QED
  BY <1>4 DEF NextTo

(* A new node between t and its neighbor m on side s.                      *)
PutBetween(h, g, N, t, v, s, o, m) ==
  /\ g.next[s][v] = m /\ g.next[o][v] = t /\ g.next[s][t] = v
  /\ m # NoItem => g.next[o][m] = v
  /\ \A y \in Sides, x \in N : ~ (y = s /\ x = t) /\ ~ (y = o /\ x = m)
                               => g.next[y][x] = h.next[y][x]

LEMMA LinkedWith ==
  ASSUME NEW h \in Trees, NEW N, N \subseteq Values, Linked(h, N), NEW t \in N, NEW v \in Values \ N,
         NextTo(N, t, v), NEW s, NEW o, s = Towards(v, t), o = Other(s),
         NEW m, m = h.next[s][t],
         NEW g, PutBetween(h, g, N, t, v, s, o, m)
  PROVE  Linked(g, N \cup {v})
<1>. USE DEF PutBetween
<1>0. /\ s \in Sides /\ o \in Sides /\ s # o /\ Other(o) = s /\ Sides = {s, o} /\ v # t /\ v \notin N
      /\ t \in Values /\ NoItem \notin Values /\ v # NoItem
  <2>1. s \in Sides
    BY DEF Sides, Towards
  <2>. QED
    BY <2>1, TwoSides, HistogramTreeAssumption
<1>1. \A x \in N \ {t} : x # v /\ Towards(v, x) = Towards(t, x) /\ Towards(x, v) = Towards(x, t)
  <2>. SUFFICES ASSUME NEW x \in N \ {t}
                PROVE  x # v /\ Towards(v, x) = Towards(t, x) /\ Towards(x, v) = Towards(x, t)
    OBVIOUS
  <2>1. x # v /\ Towards(v, x) = Towards(t, x)
    BY DEF NextTo
  <2>2. Towards(x, v) = Other(Towards(v, x)) /\ Towards(x, t) = Other(Towards(t, x))
    BY <1>0, <2>1, OtherSide
  <2>. QED
    BY <2>1, <2>2
<1>2. Towards(v, t) = s /\ Towards(t, v) = o
  BY <1>0, OtherSide
<1>3. \A x \in N, z \in N : x # z => Towards(x, z) \in {s, o} /\ Towards(z, x) = Other(Towards(x, z))
  BY <1>0, OtherSide
<1>4. Neighbor(N, t, s, m)
  BY <1>0 DEF Linked
<1>5. m = NoItem \/ (m \in N /\ m # t /\ Towards(m, t) = s
                  /\ \A x \in N : x # t /\ x # m /\ Towards(x, t) = s => Towards(x, m) = s)
  BY <1>4 DEF Neighbor
<1>6. Neighbor(N \cup {v}, v, s, m)
  <2>1. CASE m = NoItem
    <3>1. \A x \in N : x # t => Towards(x, t) # s
      BY <1>4, <2>1 DEF Neighbor
    <3>2. \A x \in N \cup {v} : x # v => Towards(x, v) # s
      BY <1>0, <1>1, <1>2, <3>1
    <3>. QED
      BY <2>1, <3>2 DEF Neighbor
  <2>2. CASE m # NoItem
    BY <1>0, <1>1, <1>2, <1>5, <2>2 DEF Neighbor
  <2>. QED
    BY <2>1, <2>2
<1>7. Neighbor(N \cup {v}, v, o, t)
  BY <1>0, <1>1, <1>2 DEF Neighbor
<1>8. Neighbor(N \cup {v}, t, s, v)
  BY <1>0, <1>1, <1>2 DEF Neighbor
<1>9. ASSUME m # NoItem PROVE Neighbor(N \cup {v}, m, o, v)
  <2>1. Towards(t, m) = o
    BY <1>0, <1>3, <1>5, <1>9
  <2>2. Towards(v, m) = o
    BY <1>0, <1>1, <1>5, <1>9, <2>1
  <2>3. ASSUME NEW x \in N, x # m, Towards(x, m) = o PROVE Towards(x, v) = o
    <3>1. CASE x = t
      BY <1>2, <3>1
    <3>2. CASE x # t
      <4>1. Towards(x, t) # s
        BY <1>0, <1>5, <1>9, <2>3, <3>2
      <4>2. Towards(x, t) = o
        BY <1>0, <1>3, <3>2, <4>1
      <4>. QED
        BY <1>1, <3>2, <4>2
    <3>. QED
      BY <3>1, <3>2
  <2>. QED
    BY <1>0, <1>5, <1>9, <2>2, <2>3 DEF Neighbor
<1>10. ASSUME NEW n \in N, NEW y \in Sides, ~ (y = s /\ n = t), ~ (y = o /\ n = m)
       PROVE  Neighbor(N \cup {v}, n, y, h.next[y][n])
  <2>. DEFINE z == h.next[y][n]
  <2>1. Neighbor(N, n, y, z)
    BY DEF Linked
  <2>. HIDE DEF z
  <2>2. n # v /\ n \in Values
    BY <1>0
  <2>3. ASSUME z = NoItem PROVE Neighbor(N \cup {v}, n, y, z)
    <3>1. \A x \in N : x # n => Towards(x, n) # y
      BY <2>1, <2>3 DEF Neighbor
    <3>2. Towards(v, n) # y
      BY <1>0, <1>1, <1>2, <1>10, <3>1
    <3>. QED
      BY <2>3, <3>1, <3>2 DEF Neighbor
  <2>4. ASSUME z # NoItem PROVE Neighbor(N \cup {v}, n, y, z)
    <3>1. /\ z \in N /\ z # n /\ Towards(z, n) = y
          /\ \A x \in N : x # n /\ x # z /\ Towards(x, n) = y => Towards(x, z) = y
      BY <2>1, <2>4 DEF Neighbor
    <3>2. ASSUME Towards(v, n) = y PROVE Towards(v, z) = y
      <4>1. CASE n = t
        BY <1>2, <1>10, <3>2, <4>1
      <4>2. CASE n # t /\ z # t
        <5>1. Towards(t, n) = y
          BY <1>1, <3>2, <4>2
        <5>2. Towards(t, z) = y
          BY <3>1, <4>2, <5>1
        <5>. QED
          BY <1>1, <3>1, <4>2, <5>2
      <4>3. CASE n # t /\ z = t
        <5>1. CASE y = s
          BY <1>2, <4>3, <5>1
        <5>2. CASE y = o
          <6>1. Towards(n, t) = s
            BY <1>0, <1>3, <3>1, <4>3, <5>2
          <6>2. m # NoItem
            BY <1>4, <4>3, <6>1 DEF Neighbor
          <6>3. n # m /\ Towards(n, m) = s
            BY <1>5, <1>10, <4>3, <5>2, <6>1, <6>2
          <6>4. Towards(m, n) = o
            BY <1>0, <1>3, <1>5, <6>2, <6>3
          <6>5. Towards(m, t) = o
            BY <1>5, <3>1, <4>3, <5>2, <6>2, <6>3, <6>4
          <6>. QED
            BY <1>0, <1>5, <6>2, <6>5
        <5>. QED
          BY <1>0, <5>1, <5>2
      <4>. QED
        BY <4>1, <4>2, <4>3
    <3>. QED
      BY <2>4, <3>1, <3>2 DEF Neighbor
  <2>5. Neighbor(N \cup {v}, n, y, z)
    BY <2>3, <2>4
  <2>. QED
    BY <2>5 DEF z
<1>11. ASSUME NEW n \in N \cup {v}, NEW y \in Sides PROVE Neighbor(N \cup {v}, n, y, g.next[y][n])
  <2>1. CASE n = v
    BY <1>0, <1>6, <1>7, <2>1
  <2>2. CASE n \in N /\ y = s /\ n = t
    BY <1>8, <2>2
  <2>3. CASE n \in N /\ y = o /\ n = m
    <3>1. m # NoItem
      BY <1>0, <2>3
    <3>. QED
      BY <1>9, <2>3, <3>1
  <2>4. CASE n \in N /\ ~ (y = s /\ n = t) /\ ~ (y = o /\ n = m)
    <3>1. g.next[y][n] = h.next[y][n]
      BY <2>4
    <3>. QED
      BY <1>10, <2>4, <3>1
  <2>. QED
    BY <2>1, <2>2, <2>3, <2>4
<1>. QED
  BY <1>11 DEF Linked

(* A node has one neighbor on a side, and is that neighbor's neighbor.     *)
LEMMA OneNeighbor ==
  ASSUME NEW N, N \subseteq Values, NEW n \in N, NEW s \in Sides, NEW a, NEW b,
         Neighbor(N, n, s, a), Neighbor(N, n, s, b)
  PROVE  a = b
<1>1. NoItem \notin N /\ NoItem \notin Values
  BY HistogramTreeAssumption
<1>2. CASE a = NoItem
  <2>1. \A x \in N : x # n => Towards(x, n) # s
    BY <1>2 DEF Neighbor
  <2>. QED
    BY <1>2, <2>1 DEF Neighbor
<1>3. CASE b = NoItem
  <2>1. \A x \in N : x # n => Towards(x, n) # s
    BY <1>3 DEF Neighbor
  <2>. QED
    BY <1>3, <2>1 DEF Neighbor
<1>4. CASE a # NoItem /\ b # NoItem
  <2>1. /\ a \in N /\ a # n /\ Towards(a, n) = s
        /\ \A x \in N : x # n /\ x # a /\ Towards(x, n) = s => Towards(x, a) = s
    BY <1>4 DEF Neighbor
  <2>2. /\ b \in N /\ b # n /\ Towards(b, n) = s
        /\ \A x \in N : x # n /\ x # b /\ Towards(x, n) = s => Towards(x, b) = s
    BY <1>4 DEF Neighbor
  <2>3. SUFFICES ASSUME a # b PROVE FALSE
    OBVIOUS
  <2>4. Towards(b, a) = s /\ Towards(a, b) = s
    BY <2>1, <2>2, <2>3
  <2>5. Towards(b, a) = Other(Towards(a, b)) /\ Other(s) # s
    BY <2>1, <2>2, <2>3, OtherSide, TwoSides
  <2>. QED
    BY <2>4, <2>5
<1>. QED
  BY <1>2, <1>3, <1>4

LEMMA LinkBack ==
  ASSUME NEW h, NEW N, N \subseteq Values, Linked(h, N), NEW x \in N, NEW y \in N, NEW s \in Sides
  PROVE  h.next[s][x] = y <=> h.next[Other(s)][y] = x
<1>1. ASSUME NEW a \in N, NEW b \in N, NEW z \in Sides, h.next[z][a] = b
      PROVE  h.next[Other(z)][b] = a
  <2>. DEFINE o == Other(z)
  <2>0. o \in Sides /\ o # z /\ Other(o) = z /\ Sides = {z, o}
    BY TwoSides
  <2>1. b # NoItem /\ a \in Values /\ b \in Values
    BY HistogramTreeAssumption
  <2>2. Neighbor(N, a, z, b)
    BY <1>1 DEF Linked
  <2>3. /\ b # a /\ Towards(b, a) = z
        /\ \A w \in N : w # a /\ w # b /\ Towards(w, a) = z => Towards(w, b) = z
    BY <2>1, <2>2 DEF Neighbor
  <2>4. Towards(a, b) = o
    BY <2>1, <2>3, OtherSide
  <2>. HIDE DEF o
  <2>5. ASSUME NEW w \in N, w # b, w # a, Towards(w, b) = o PROVE Towards(w, a) = o
    <3>1. Towards(w, a) # z
      BY <2>0, <2>3, <2>5
    <3>2. Towards(w, a) \in Sides
      BY <2>1, <2>5, OtherSide
    <3>. QED
      BY <2>0, <3>1, <3>2
  <2>6. a # NoItem
    BY <2>1, HistogramTreeAssumption
  <2>7. Neighbor(N, b, o, a)
    BY <2>3, <2>4, <2>5, <2>6 DEF Neighbor
  <2>8. Neighbor(N, b, o, h.next[o][b])
    BY <2>0 DEF Linked
  <2>9. h.next[o][b] = a
    BY <2>0, <2>7, <2>8, OneNeighbor
  <2>. QED
    BY <2>9 DEF o
<1>2. Other(s) \in Sides /\ Other(Other(s)) = s
  BY TwoSides
<1>. QED
  BY <1>1, <1>2

(* The neighbors of a node that leaves become neighbors.                   *)
LEMMA LinkedWithout ==
  ASSUME NEW h, NEW N, N \subseteq Values, Linked(h, N), NEW r \in N, NEW g,
         \A y \in Sides, x \in N \ {r} :
           g.next[y][x] = IF h.next[y][x] = r THEN h.next[y][r] ELSE h.next[y][x]
  PROVE  Linked(g, N \ {r})
<1>. SUFFICES ASSUME NEW n \in N \ {r}, NEW y \in Sides
              PROVE  Neighbor(N \ {r}, n, y, g.next[y][n])
  BY DEF Linked
<1>. DEFINE z == h.next[y][n]
            w == h.next[y][r]
<1>1. Neighbor(N, n, y, z) /\ Neighbor(N, r, y, w)
  BY DEF Linked
<1>2. g.next[y][n] = IF z = r THEN w ELSE z
  OBVIOUS
<1>3. r # NoItem /\ NoItem \notin N /\ n \in Values /\ r \in Values
  BY HistogramTreeAssumption
<1>. HIDE DEF z, w
<1>4. CASE z # r
  <2>1. Neighbor(N \ {r}, n, y, z)
    BY <1>1, <1>4 DEF Neighbor
  <2>. QED
    BY <1>2, <1>4, <2>1
<1>5. CASE z = r
  <2>1. /\ Towards(r, n) = y
        /\ \A x \in N : x # n /\ x # r /\ Towards(x, n) = y => Towards(x, r) = y
    BY <1>1, <1>3, <1>5 DEF Neighbor
  <2>2. ASSUME w = NoItem PROVE Neighbor(N \ {r}, n, y, w)
    <3>1. \A x \in N : x # r => Towards(x, r) # y
      BY <1>1, <2>2 DEF Neighbor
    <3>. QED
      BY <2>1, <2>2, <3>1 DEF Neighbor
  <2>3. ASSUME w # NoItem PROVE Neighbor(N \ {r}, n, y, w)
    <3>1. /\ w \in N /\ w # r /\ Towards(w, r) = y
          /\ \A x \in N : x # r /\ x # w /\ Towards(x, r) = y => Towards(x, w) = y
      BY <1>1, <2>3 DEF Neighbor
    <3>2. w # n /\ Towards(w, n) = y
      BY <1>3, <2>1, <3>1, SameSide
    <3>. QED
      BY <2>1, <2>3, <3>1, <3>2 DEF Neighbor
  <2>4. Neighbor(N \ {r}, n, y, w)
    BY <2>2, <2>3
  <2>. QED
    BY <1>2, <1>5, <2>4
<1>. QED
  BY <1>4, <1>5

(* A value next to t takes t's place among the neighbors.                  *)
Swap(N, t, r) == (N \ {t}) \cup {r}

LEMMA LinkedSwapped ==
  ASSUME NEW h, NEW N, N \subseteq Values, Linked(h, N), NEW t \in N, NEW r \in Values \ N,
         NextTo(N, t, r), NEW g,
         \A y \in Sides, x \in N \ {t} :
           g.next[y][x] = IF h.next[y][x] = t THEN r ELSE h.next[y][x],
         \A y \in Sides : g.next[y][r] = h.next[y][t]
  PROVE  Linked(g, Swap(N, t, r))
<1>1. /\ r # NoItem /\ NoItem \notin N /\ t \in Values /\ r # t /\ t # NoItem
  BY HistogramTreeAssumption
<1>2. \A x \in N \ {t} : x # r /\ Towards(r, x) = Towards(t, x) /\ Towards(x, r) = Towards(x, t)
  <2>. SUFFICES ASSUME NEW x \in N \ {t}
                PROVE  x # r /\ Towards(r, x) = Towards(t, x) /\ Towards(x, r) = Towards(x, t)
    OBVIOUS
  <2>1. x # r /\ Towards(r, x) = Towards(t, x)
    BY DEF NextTo
  <2>2. Towards(x, r) = Other(Towards(r, x)) /\ Towards(x, t) = Other(Towards(t, x))
    BY <1>1, <2>1, OtherSide
  <2>. QED
    BY <2>1, <2>2
<1>3. ASSUME NEW y \in Sides PROVE Neighbor(Swap(N, t, r), r, y, g.next[y][r])
  <2>. DEFINE z == h.next[y][t]
  <2>1. Neighbor(N, t, y, z)
    BY DEF Linked
  <2>. HIDE DEF z
  <2>2. Neighbor(Swap(N, t, r), r, y, z)
    <3>1. CASE z = NoItem
      BY <1>2, <2>1, <3>1 DEF Neighbor, Swap
    <3>2. CASE z # NoItem
      BY <1>2, <2>1, <3>2 DEF Neighbor, Swap
    <3>. QED
      BY <3>1, <3>2
  <2>. QED
    BY <2>2 DEF z
<1>4. ASSUME NEW n \in N \ {t}, NEW y \in Sides PROVE Neighbor(Swap(N, t, r), n, y, g.next[y][n])
  <2>. DEFINE z == h.next[y][n]
  <2>1. Neighbor(N, n, y, z)
    BY DEF Linked
  <2>0. g.next[y][n] = IF z = t THEN r ELSE z
    OBVIOUS
  <2>. HIDE DEF z
  <2>2. CASE z = NoItem
    BY <1>1, <1>2, <2>0, <2>1, <2>2 DEF Neighbor, Swap
  <2>3. CASE z = t
    BY <1>1, <1>2, <2>0, <2>1, <2>3 DEF Neighbor, Swap
  <2>4. CASE z # t /\ z # NoItem
    <3>1. /\ z \in N /\ z # n /\ Towards(z, n) = y
          /\ \A x \in N : x # n /\ x # z /\ Towards(x, n) = y => Towards(x, z) = y
      BY <2>1, <2>4 DEF Neighbor
    <3>2. \A x \in Swap(N, t, r) : x # n /\ x # z /\ Towards(x, n) = y => Towards(x, z) = y
      BY <1>1, <1>2, <2>4, <3>1 DEF Swap
    <3>3. Neighbor(Swap(N, t, r), n, y, z)
      BY <2>4, <3>1, <3>2 DEF Neighbor, Swap
    <3>. QED
      BY <2>0, <2>4, <3>3
  <2>. QED
    BY <2>2, <2>3, <2>4
<1>5. ASSUME NEW n \in Swap(N, t, r), NEW y \in Sides PROVE Neighbor(Swap(N, t, r), n, y, g.next[y][n])
  <2>1. n = r \/ n \in N \ {t}
    BY DEF Swap
  <2>. QED
    BY <1>3, <1>4, <2>1
<1>. QED
  BY <1>5 DEF Linked

(* The search for a node ends at the node, so that its subtree is on one   *)
(* side of every other node.                                               *)
LEMMA PlaceOfNode ==
  ASSUME NEW h \in Trees, NEW N, NEW D, Shaped(h, N, D), IsFiniteSet(N), Rooted(h, N), NEW n \in N
  PROVE  PlaceOf(h, n) = n /\ InRange(N, D, n, n)
<1>. DEFINE t == PlaceOf(h, n)
<1>1. n \in Values /\ N \subseteq Values
  BY DEF Shaped
<1>2. PlaceFound(h, N, D, t, n)
  BY <1>1, PlaceFacts
<1>. HIDE DEF t
<1>3. t \in N /\ InRange(N, D, t, n) /\ (n = t \/ h.child[Towards(n, t)][t] = NoItem)
  BY <1>2 DEF PlaceFound
<1>4. n \in D[t]
  BY <1>3 DEF InRange
<1>5. ASSUME n # t PROVE FALSE
  <2>. DEFINE y == Towards(n, t)
  <2>1. y \in Sides /\ Other(y) \in Sides /\ Other(y) # y
    BY <1>1, <1>3, <1>5, OtherSide, TwoSides
  <2>2. Below(D, h.child[y][t]) = {}
    BY <1>3, <1>5 DEF Below
  <2>. HIDE DEF y
  <2>3. D[t] = {t} \cup Below(D, h.child[y][t]) \cup Below(D, h.child[Other(y)][t])
    BY <1>3, <2>1, ShapeFacts
  <2>4. n \in Below(D, h.child[Other(y)][t])
    BY <1>4, <1>5, <2>2, <2>3
  <2>5. Towards(n, t) = Other(y)
    BY <1>3, <2>1, <2>4, ShapeApart
  <2>. QED
    BY <2>1, <2>5 DEF y
<1>. QED
  BY <1>3, <1>5 DEF t

-----------------------------------------------------------------------------
(***************************************************************************)
(* The other steps of an insertion and a deletion.                         *)
(***************************************************************************)
OnlyNext(h, g) ==
  /\ g \in Trees /\ g.root = h.root /\ g.child = h.child /\ g.parent = h.parent
  /\ g.height = h.height /\ g.count = h.count /\ g.dup = h.dup
OnlyDup(h, g) ==
  /\ g \in Trees /\ g.root = h.root /\ g.child = h.child /\ g.parent = h.parent
  /\ g.next = h.next /\ g.height = h.height /\ g.count = h.count

NextSet(h, g, s, n, m) ==
  /\ OnlyNext(h, g)
  /\ \A y \in Sides, x \in Values : g.next[y][x] = IF y = s /\ x = n THEN m ELSE h.next[y][x]
HeightPut(h, g, n, k) ==
  /\ OnlyHeight(h, g)
  /\ \A x \in Values : g.height[x] = IF x = n THEN k ELSE h.height[x]
DupSet(h, g, n, k) ==
  /\ OnlyDup(h, g)
  /\ \A x \in Values : g.dup[x] = IF x = n THEN k ELSE h.dup[x]
CountsAdded(h, g, nodes, d) ==
  /\ OnlyCount(h, g)
  /\ \A x \in Values : g.count[x] = h.count[x] + IF x \in nodes THEN d ELSE 0

LEMMA SetNextFacts ==
  ASSUME NEW h \in Trees, NEW s \in Sides, NEW n \in Values \cup {NoItem}, NEW m \in Values \cup {NoItem},
         NEW g, g = SetNext(h, s, n, m)
  PROVE  g \in Trees /\ NextSet(h, g, s, n, m)
<1>. DEFINE c == [y \in Sides |-> [x \in Values |-> IF y = s /\ x = n THEN m ELSE h.next[y][x]]]
<1>1. c \in [Sides -> Pointers]
  BY TreeFields DEF Pointers
<1>2. g = [h EXCEPT !.next = c]
  BY DEF SetNext
<1>3. \A y \in Sides, x \in Values : c[y][x] = IF y = s /\ x = n THEN m ELSE h.next[y][x]
  OBVIOUS
<1>. HIDE DEF c
<1>4. g \in Trees /\ OnlyNext(h, g) /\ g.next = c
  BY <1>1, <1>2 DEF OnlyNext, Trees
<1>. QED
  BY <1>3, <1>4 DEF NextSet

LEMMA SetHeightFacts ==
  ASSUME NEW h \in Trees, NEW n \in Values, NEW k \in Nat, NEW g, g = SetHeight(h, n, k)
  PROVE  g \in Trees /\ HeightPut(h, g, n, k)
<1>. DEFINE c == [h.height EXCEPT ![n] = k]
<1>1. h.height \in [Values -> Nat]
  BY TreeFields
<1>2. c \in [Values -> Nat] /\ \A x \in Values : c[x] = IF x = n THEN k ELSE h.height[x]
  BY <1>1
<1>3. g = [h EXCEPT !.height = c]
  BY DEF Trees, SetHeight
<1>. HIDE DEF c
<1>4. g \in Trees /\ OnlyHeight(h, g) /\ g.height = c
  BY <1>2, <1>3, OneField
<1>. QED
  BY <1>2, <1>4 DEF HeightPut

LEMMA SetDupFacts ==
  ASSUME NEW h \in Trees, NEW n \in Values, NEW k \in Nat, NEW g, g = SetDup(h, n, k)
  PROVE  g \in Trees /\ DupSet(h, g, n, k)
<1>. DEFINE c == [h.dup EXCEPT ![n] = k]
<1>1. h.dup \in [Values -> Nat]
  BY TreeFields
<1>2. c \in [Values -> Nat] /\ \A x \in Values : c[x] = IF x = n THEN k ELSE h.dup[x]
  BY <1>1
<1>3. g = [h EXCEPT !.dup = c]
  BY DEF Trees, SetDup
<1>. HIDE DEF c
<1>4. g \in Trees /\ OnlyDup(h, g) /\ g.dup = c
  BY <1>2, <1>3 DEF OnlyDup, Trees
<1>. QED
  BY <1>2, <1>4 DEF DupSet

LEMMA AddCountFacts ==
  ASSUME NEW h \in Trees, NEW nodes, NEW d \in Int, NEW g, g = AddCount(h, nodes, d)
  PROVE  g \in Trees /\ CountsAdded(h, g, nodes, d)
<1>. DEFINE c == [v \in Values |-> h.count[v] + IF v \in nodes THEN d ELSE 0]
<1>1. h.count \in [Values -> Int]
  BY TreeFields
<1>2. c \in [Values -> Int]
  BY <1>1
<1>3. g = [h EXCEPT !.count = c] /\ \A x \in Values : c[x] = h.count[x] + IF x \in nodes THEN d ELSE 0
  BY DEF AddCount
<1>. HIDE DEF c
<1>4. g \in Trees /\ OnlyCount(h, g) /\ g.count = c
  BY <1>2, <1>3, OneField
<1>. QED
  BY <1>3, <1>4 DEF CountsAdded

(* Of the children of an ancestor of t, one is an ancestor of t.           *)
LEMMA AncestorsChild ==
  ASSUME NEW h \in Trees, NEW N, NEW D, Shaped(h, N, D), NEW n \in N, NEW t \in N
  PROVE  /\ t \in D[n] /\ n # t =>
              \E s \in Sides : t \in Below(D, h.child[s][n]) /\ t \notin Below(D, h.child[Other(s)][n])
         /\ t \notin D[n] \/ n = t => \A s \in Sides : t \notin Below(D, h.child[s][n])
<1>1. L \in Sides /\ R \in Sides
  BY DEF Sides
<1>2. D[n] = {n} \cup Below(D, h.child[L][n]) \cup Below(D, h.child[R][n])
  BY DEF Shaped, Descends
<1>3. \A s \in Sides : \A m \in Below(D, h.child[s][n]) :
        m # n /\ m \notin Below(D, h.child[Other(s)][n])
  <2>. TAKE s \in Sides
  <2>. TAKE m \in Below(D, h.child[s][n])
  <2>1. m # n
    BY DEF Shaped, Sided
  <2>2. m \notin Below(D, h.child[Other(s)][n])
    BY ShapeApart
  <2>. QED
    BY <2>1, <2>2
<1>4. \A s \in Sides : Below(D, h.child[s][n]) \subseteq D[n]
  BY ShapeApart
<1>. HIDE DEF L, R
<1>5. ASSUME t \in D[n], n # t
      PROVE  \E s \in Sides : t \in Below(D, h.child[s][n]) /\ t \notin Below(D, h.child[Other(s)][n])
  BY <1>1, <1>2, <1>3, <1>5
<1>. QED
  BY <1>3, <1>4, <1>5

(* A node gets another number of duplications, its ancestors are told.     *)
Reweighed(h, g, N, D, t, k) ==
  /\ g \in Trees /\ g.root = h.root /\ g.child = h.child /\ g.parent = h.parent
  /\ g.next = h.next /\ g.height = h.height
  /\ \A x \in Values : g.dup[x] = IF x = t THEN k ELSE h.dup[x]
  /\ \A x \in N : g.count[x] = h.count[x] + IF t \in D[x] THEN k - h.dup[t] ELSE 0

LEMMA ReweighedCounts ==
  ASSUME NEW h \in Trees, NEW N, NEW D, Shaped(h, N, D), NEW t \in N, NEW k \in Nat,
         NEW g, Reweighed(h, g, N, D, t, k), TreeCounted(h, N)
  PROVE  TreeCounted(g, N)
<1>. DEFINE d == k - h.dup[t]
<1>1. N \subseteq Values /\ t \in Values /\ NoItem \notin N /\ g \in Trees
  BY HistogramTreeAssumption DEF Shaped, Reweighed
<1>2. \A x \in Values : h.count[x] \in Int /\ h.dup[x] \in Nat
  BY TreeFields
<1>3. d \in Int
  BY <1>1, <1>2
<1>4. /\ g.child = h.child
      /\ \A x \in Values : g.dup[x] = IF x = t THEN k ELSE h.dup[x]
      /\ \A x \in N : g.count[x] = h.count[x] + IF t \in D[x] THEN d ELSE 0
  BY DEF Reweighed
<1>. SUFFICES ASSUME NEW n \in N, NEW s \in Sides
              PROVE  g.count[n] = g.dup[n] + CountOf(g, g.child[s][n]) + CountOf(g, g.child[Other(s)][n])
  BY <1>1, CountedSides
<1>5. ASSUME NEW y \in Sides
      PROVE  /\ CountOf(h, h.child[y][n]) \in Int
             /\ CountOf(g, g.child[y][n]) = CountOf(h, h.child[y][n])
                                              + IF t \in Below(D, h.child[y][n]) THEN d ELSE 0
  <2>. DEFINE c == h.child[y][n]
  <2>1. c # NoItem => c \in N
    BY ShapeFacts
  <2>2. g.child[y][n] = c
    BY <1>4
  <2>. HIDE DEF c
  <2>3. CASE c = NoItem
    BY <2>2, <2>3 DEF CountOf, Below, c
  <2>4. CASE c # NoItem
    BY <1>1, <1>2, <1>4, <2>1, <2>2, <2>4 DEF CountOf, Below, c
  <2>. QED
    BY <2>3, <2>4
<1>6. h.count[n] = h.dup[n] + CountOf(h, h.child[s][n]) + CountOf(h, h.child[Other(s)][n])
  BY <1>1, CountedSides
<1>7. Other(s) \in Sides
  BY TwoSides
<1>8. n \in Values /\ n \in D[n]
  BY ShapeFacts
<1>. DEFINE a == CountOf(h, h.child[s][n])
            b == CountOf(h, h.child[Other(s)][n])
            a1 == CountOf(g, g.child[s][n])
            b1 == CountOf(g, g.child[Other(s)][n])
<1>9. a \in Int /\ b \in Int /\ h.count[n] = h.dup[n] + a + b /\ h.dup[n] \in Int /\ h.dup[t] \in Int
  BY <1>1, <1>2, <1>5, <1>6, <1>7, <1>8
<1>10. /\ a1 = a + IF t \in Below(D, h.child[s][n]) THEN d ELSE 0
       /\ b1 = b + IF t \in Below(D, h.child[Other(s)][n]) THEN d ELSE 0
  BY <1>5, <1>7
<1>11. /\ g.count[n] = h.count[n] + IF t \in D[n] THEN d ELSE 0
       /\ g.dup[n] = IF n = t THEN k ELSE h.dup[n]
  BY <1>4, <1>8
<1>12. n = t => k = h.dup[n] + d
  BY <1>9
<1>. HIDE DEF a, b, a1, b1, d
<1>13. g.count[n] = g.dup[n] + a1 + b1
  <2>1. CASE n = t
    <3>1. t \notin Below(D, h.child[s][n]) /\ t \notin Below(D, h.child[Other(s)][n])
      BY <1>7, <2>1, AncestorsChild
    <3>2. a1 = a /\ b1 = b
      BY <1>9, <1>10, <3>1
    <3>3. g.count[n] = h.count[n] + d /\ g.dup[n] = h.dup[n] + d
      BY <1>8, <1>11, <1>12, <2>1
    <3>. QED
      BY <1>3, <1>9, <3>2, <3>3
  <2>2. CASE n # t /\ t \notin D[n]
    <3>1. t \notin Below(D, h.child[s][n]) /\ t \notin Below(D, h.child[Other(s)][n])
      BY <1>7, <2>2, AncestorsChild
    <3>. QED
      BY <1>9, <1>10, <1>11, <2>2, <3>1
  <2>3. CASE n # t /\ t \in D[n]
    <3>1. PICK y \in Sides : t \in Below(D, h.child[y][n]) /\ t \notin Below(D, h.child[Other(y)][n])
      BY <2>3, AncestorsChild
    <3>2. y = s \/ (y = Other(s) /\ Other(y) = s)
      BY TwoSides
    <3>. QED
      BY <1>3, <1>9, <1>10, <1>11, <2>3, <3>1, <3>2
  <2>. QED
    BY <2>1, <2>2, <2>3
<1>. QED
  BY <1>13 DEF a1, b1

(* The tree with a new node v on t's empty side s, before any count is     *)
(* updated; m is the node beyond.                                          *)
Attached(h, g, t, v, s, o, m, k) ==
  /\ g \in Trees /\ g.root = h.root
  /\ \A y \in Sides, x \in Values : g.child[y][x] = IF y = s /\ x = t THEN v ELSE h.child[y][x]
  /\ \A x \in Values : g.parent[x] = IF x = v THEN t ELSE h.parent[x]
  /\ \A y \in Sides, x \in Values :
       g.next[y][x] = IF y = o /\ x = m THEN v ELSE IF y = s /\ x = t THEN v
                      ELSE IF y = o /\ x = v THEN t ELSE IF y = s /\ x = v THEN m ELSE h.next[y][x]
  /\ \A x \in Values : g.height[x] = IF x = v THEN 1 ELSE h.height[x]
  /\ \A x \in Values : g.count[x] = IF x = v THEN 1 ELSE h.count[x]
  /\ \A x \in Values : g.dup[x] = IF x = v THEN k ELSE h.dup[x]

LEMMA NewNodeFacts ==
  ASSUME NEW h \in Trees, NEW t \in Values, NEW v \in Values, NEW k \in Nat,
         NEW g, g = NewNode(h, t, v, k)
  PROVE  Attached(h, g, t, v, Towards(v, t), Other(Towards(v, t)), h.next[Towards(v, t)][t], k)
<1>. DEFINE s == Towards(v, t)
            o == Other(s)
            m == h.next[s][t]
            ga == SetChild(h, s, t, v)
            gb == SetParent(ga, v, t)
            gc == SetNext(gb, s, v, m)
            gd == SetNext(gc, o, v, t)
            ge == SetNext(gd, s, t, v)
            gf == SetNext(ge, o, m, v)
            gg == SetHeight(gf, v, 1)
            gh == SetCount(gg, v, 1)
<1>1. g = SetDup(gh, v, k)
  BY DEF NewNode
<1>2. s \in Sides /\ o \in Sides
  <2>1. s \in Sides
    BY DEF Towards, Sides
  <2>. HIDE DEF s
  <2>. QED
    BY <2>1, TwoSides
<1>3. m \in Values \cup {NoItem}
  BY <1>2, TreeFields
<1>d. /\ ga = SetChild(h, s, t, v) /\ gb = SetParent(ga, v, t)
      /\ gc = SetNext(gb, s, v, m) /\ gd = SetNext(gc, o, v, t)
      /\ ge = SetNext(gd, s, t, v) /\ gf = SetNext(ge, o, m, v)
      /\ gg = SetHeight(gf, v, 1) /\ gh = SetCount(gg, v, 1)
  OBVIOUS
<1>. HIDE DEF s, o, m, ga, gb, gc, gd, ge, gf, gg, gh
<1>4. ga \in Trees /\ ChildSet(h, ga, s, t, v)
  BY <1>d, <1>2, SetChildFacts
<1>5. gb \in Trees /\ ParentSet(ga, gb, v, t)
  BY <1>d, <1>4, SetParentFacts
<1>6. gc \in Trees /\ NextSet(gb, gc, s, v, m)
  BY <1>d, <1>2, <1>3, <1>5, SetNextFacts
<1>7. gd \in Trees /\ NextSet(gc, gd, o, v, t)
  BY <1>d, <1>2, <1>6, SetNextFacts
<1>8. ge \in Trees /\ NextSet(gd, ge, s, t, v)
  BY <1>d, <1>2, <1>7, SetNextFacts
<1>9. gf \in Trees /\ NextSet(ge, gf, o, m, v)
  BY <1>d, <1>2, <1>3, <1>8, SetNextFacts
<1>10. gg \in Trees /\ HeightPut(gf, gg, v, 1)
  BY <1>d, <1>9, SetHeightFacts
<1>11. gh \in Trees /\ CountSet(gg, gh, v, 1)
  BY <1>d, <1>10, SetCountFacts
<1>12. g \in Trees /\ DupSet(gh, g, v, k)
  BY <1>1, <1>11, SetDupFacts
<1>13. /\ g.root = gf.root /\ g.child = gf.child /\ g.parent = gf.parent /\ g.next = gf.next
       /\ \A x \in Values : g.height[x] = IF x = v THEN 1 ELSE gf.height[x]
       /\ \A x \in Values : g.count[x] = IF x = v THEN 1 ELSE gf.count[x]
       /\ \A x \in Values : g.dup[x] = IF x = v THEN k ELSE gf.dup[x]
  BY <1>10, <1>11, <1>12 DEF HeightPut, CountSet, DupSet, OnlyHeight, OnlyCount, OnlyDup
<1>14. /\ gf.root = gb.root /\ gf.child = gb.child /\ gf.parent = gb.parent
       /\ gf.height = gb.height /\ gf.count = gb.count /\ gf.dup = gb.dup
  BY <1>6, <1>7, <1>8, <1>9 DEF NextSet, OnlyNext
<1>15. /\ gb.root = h.root /\ gb.child = ga.child /\ gb.next = h.next
       /\ gb.height = h.height /\ gb.count = h.count /\ gb.dup = h.dup /\ ga.parent = h.parent
  BY <1>4, <1>5 DEF ChildSet, ParentSet, OnlyChild, OnlyParent
<1>16. \A y \in Sides, x \in Values : g.child[y][x] = IF y = s /\ x = t THEN v ELSE h.child[y][x]
  BY <1>4, <1>13, <1>14, <1>15 DEF ChildSet
<1>17. \A x \in Values : g.parent[x] = IF x = v THEN t ELSE h.parent[x]
  BY <1>5, <1>13, <1>14, <1>15 DEF ParentSet
<1>18. \A y \in Sides, x \in Values :
         g.next[y][x] = IF y = o /\ x = m THEN v ELSE IF y = s /\ x = t THEN v
                        ELSE IF y = o /\ x = v THEN t ELSE IF y = s /\ x = v THEN m ELSE h.next[y][x]
  BY <1>6, <1>7, <1>8, <1>9, <1>13, <1>15 DEF NextSet
<1>19. Attached(h, g, t, v, s, o, m, k)
  BY <1>12, <1>13, <1>14, <1>15, <1>16, <1>17, <1>18 DEF Attached
<1>. QED
  BY <1>19 DEF s, o, m

WithBelow(D, t, v) ==
  [x \in Values |-> IF x = v THEN {v} ELSE IF t \in D[x] THEN D[x] \cup {v} ELSE D[x]]

LEMMA AttachedShape ==
  ASSUME NEW h \in Trees, NEW N, NEW D, Shaped(h, N, D), NEW t \in N, NEW v \in Values \ N,
         NextTo(N, t, v), NEW s, s = Towards(v, t), NEW o, o = Other(s), h.child[s][t] = NoItem,
         NEW g, NEW m, NEW k, Attached(h, g, t, v, s, o, m, k), NEW E, E = WithBelow(D, t, v)
  PROVE  Shaped(g, N \cup {v}, E)
<1>. DEFINE M == N \cup {v}
<1>0. /\ s \in Sides /\ o \in Sides /\ s # o /\ Other(o) = s /\ Sides = {s, o}
      /\ v # t /\ t \in Values /\ v # NoItem /\ NoItem \notin N /\ t # NoItem
      /\ N \subseteq Values /\ M \subseteq Values /\ D \in [Values -> SUBSET N]
  <2>1. s \in Sides
    BY DEF Sides, Towards
  <2>. QED
    BY <2>1, TwoSides, HistogramTreeAssumption DEF Shaped
<1>1. /\ \A y \in Sides, x \in Values : g.child[y][x] = IF y = s /\ x = t THEN v ELSE h.child[y][x]
      /\ \A x \in Values : g.parent[x] = IF x = v THEN t ELSE h.parent[x]
  BY DEF Attached
<1>2. /\ E \in [Values -> SUBSET M] /\ E[v] = {v}
      /\ \A x \in N : E[x] = IF t \in D[x] THEN D[x] \cup {v} ELSE D[x]
  BY <1>0 DEF WithBelow
<1>3. \A x \in Values \ N : h.parent[x] = NoItem /\ \A y \in Sides : h.child[y][x] = NoItem
  BY DEF Shaped, Outside
<1>4. \A y \in Sides : g.child[y][v] = NoItem
  BY <1>0, <1>1, <1>3
<1>5. g.child[s][t] = v /\ g.child[o][t] = h.child[o][t] /\ h.child[s][t] = NoItem
  BY <1>0, <1>1
<1>6. ASSUME NEW c, c = NoItem \/ c \in N
      PROVE  Below(E, c) = IF t \in Below(D, c) THEN Below(D, c) \cup {v} ELSE Below(D, c)
  BY <1>0, <1>2, <1>6 DEF Below
<1>7. ASSUME NEW n \in N, NEW y \in Sides PROVE h.child[y][n] = NoItem \/ h.child[y][n] \in N
  BY ShapeFacts
<1>8. \A n \in N : D[n] = {n} \cup Below(D, h.child[s][n]) \cup Below(D, h.child[o][n])
  BY <1>0, ShapeFacts
<1>9. Below(D, NoItem) = {} /\ Below(E, NoItem) = {} /\ Below(E, v) = {v}
  BY <1>0, <1>2 DEF Below
<1>10. ASSUME NEW n \in M
       PROVE  E[n] = {n} \cup Below(E, g.child[s][n]) \cup Below(E, g.child[o][n])
  <2>1. CASE n = v
    BY <1>0, <1>2, <1>4, <1>9, <2>1
  <2>2. CASE n = t
    <3>1. t \notin Below(D, h.child[o][t])
      BY <1>0, ShapeApart
    <3>2. Below(E, h.child[o][t]) = Below(D, h.child[o][t])
      BY <1>0, <1>6, <1>7, <3>1
    <3>3. D[t] = {t} \cup Below(D, h.child[o][t])
      BY <1>5, <1>8, <1>9
    <3>4. E[t] = D[t] \cup {v}
      BY <1>2, <3>3
    <3>. QED
      BY <1>5, <1>9, <2>2, <3>2, <3>3, <3>4
  <2>3. CASE n \in N /\ n # t
    <3>1. g.child[s][n] = h.child[s][n] /\ g.child[o][n] = h.child[o][n]
      BY <1>0, <1>1, <2>3
    <3>. DEFINE a == h.child[s][n]
                b == h.child[o][n]
    <3>2. (a = NoItem \/ a \in N) /\ (b = NoItem \/ b \in N)
      BY <1>0, <1>7, <2>3
    <3>3. D[n] = {n} \cup Below(D, a) \cup Below(D, b)
      BY <1>8, <2>3
    <3>. HIDE DEF a, b
    <3>4. /\ Below(E, a) = IF t \in Below(D, a) THEN Below(D, a) \cup {v} ELSE Below(D, a)
          /\ Below(E, b) = IF t \in Below(D, b) THEN Below(D, b) \cup {v} ELSE Below(D, b)
      BY <1>6, <3>2
    <3>5. E[n] = IF t \in D[n] THEN D[n] \cup {v} ELSE D[n]
      BY <1>2, <2>3
    <3>6. E[n] = {n} \cup Below(E, a) \cup Below(E, b)
      BY <2>3, <3>3, <3>4, <3>5
    <3>. QED
      BY <3>1, <3>6 DEF a, b
  <2>. QED
    BY <2>1, <2>2, <2>3
<1>11. Descends(g, M, E)
  <2>1. (s = L /\ o = R) \/ (s = R /\ o = L)
    BY <1>0 DEF Sides, Other, L, R
  <2>. HIDE DEF M
  <2>. QED
    BY <1>10, <2>1 DEF Descends
<1>12. ASSUME NEW n \in M, NEW y \in Sides, NEW x \in Below(E, g.child[y][n])
       PROVE  x # n /\ Towards(x, n) = y
  <2>1. n # v
    BY <1>4, <1>9, <1>12
  <2>2. CASE n = t /\ y = s
    BY <1>0, <1>5, <1>9, <1>12, <2>2
  <2>3. CASE ~ (n = t /\ y = s)
    <3>1. g.child[y][n] = h.child[y][n] /\ n \in N
      BY <1>0, <1>1, <2>1, <2>3
    <3>. DEFINE c == h.child[y][n]
    <3>2. c = NoItem \/ c \in N
      BY <1>7, <3>1
    <3>3. \A z \in Below(D, c) : z # n /\ Towards(z, n) = y
      BY <3>1 DEF Shaped, Sided
    <3>4. x \in Below(E, c)
      BY <1>12, <3>1
    <3>. HIDE DEF c
    <3>5. x \in Below(D, c) \/ (x = v /\ t \in Below(D, c))
      BY <1>6, <3>2, <3>4
    <3>6. ASSUME x = v, t \in Below(D, c) PROVE x # n /\ Towards(x, n) = y
      <4>1. t # n /\ Towards(t, n) = y
        BY <3>3, <3>6
      <4>2. n # v /\ Towards(v, n) = Towards(t, n)
        BY <3>1, <4>1 DEF NextTo
      <4>. QED
        BY <3>6, <4>1, <4>2
    <3>. QED
      BY <3>3, <3>5, <3>6
  <2>. QED
    BY <2>2, <2>3
<1>13. Sided(g, M, E)
  BY <1>12 DEF Sided
<1>14. ChildLinks(g, M)
  <2>1. ASSUME NEW n \in M, NEW y \in Sides, g.child[y][n] # NoItem
        PROVE  g.child[y][n] \in M /\ g.parent[g.child[y][n]] = n
    <3>1. n \in N
      BY <1>4, <2>1
    <3>2. CASE n = t /\ y = s
      BY <1>0, <1>1, <1>5, <3>2
    <3>3. CASE ~ (n = t /\ y = s)
      <4>1. g.child[y][n] = h.child[y][n]
        BY <1>0, <1>1, <3>1, <3>3
      <4>2. h.child[y][n] \in N /\ h.parent[h.child[y][n]] = n
        BY <2>1, <3>1, <4>1, ShapeFacts
      <4>. QED
        BY <1>0, <1>1, <4>1, <4>2
    <3>. QED
      BY <3>2, <3>3
  <2>. QED
    BY <2>1 DEF ChildLinks
<1>15. ParentLinks(g, M)
  <2>1. ASSUME NEW n \in M, g.parent[n] # NoItem
        PROVE  g.parent[n] \in M /\ \E y \in Sides : g.child[y][g.parent[n]] = n
    <3>1. CASE n = v
      BY <1>0, <1>1, <1>5, <3>1
    <3>2. CASE n # v
      <4>1. n \in N /\ g.parent[n] = h.parent[n]
        BY <1>0, <1>1, <3>2
      <4>2. h.parent[n] \in N /\ \E y \in Sides : h.child[y][h.parent[n]] = n
        BY <2>1, <4>1, ShapeApart
      <4>3. PICK y \in Sides : h.child[y][h.parent[n]] = n
        BY <4>2
      <4>4. g.child[y][h.parent[n]] = n
        BY <1>0, <1>1, <1>5, <4>1, <4>2, <4>3
      <4>. QED
        BY <4>1, <4>2, <4>4
    <3>. QED
      BY <3>1, <3>2
  <2>. QED
    BY <2>1 DEF ParentLinks
<1>16. Outside(g, M)
  BY <1>0, <1>1, <1>3 DEF Outside
<1>17. OneRoot(g, M)
  <2>1. \A a, b \in N : h.parent[a] = NoItem /\ h.parent[b] = NoItem => a = b
    BY DEF Shaped, OneRoot
  <2>. QED
    BY <1>0, <1>1, <2>1 DEF OneRoot
<1>. QED
  BY <1>0, <1>2, <1>11, <1>13, <1>14, <1>15, <1>16, <1>17 DEF Shaped

LEMMA AttachedHeights ==
  ASSUME NEW h \in Trees, NEW N, NEW D, Shaped(h, N, D), NEW t \in N, NEW v \in Values \ N,
         NEW s \in Sides, NEW o, o = Other(s), h.child[s][t] = NoItem,
         NEW g, NEW m, NEW k, Attached(h, g, t, v, s, o, m, k), ExactBut(h, N, {})
  PROVE  /\ ExactBut(g, N \cup {v}, {t})
         /\ h.child[o][t] # NoItem => ExactBut(g, N \cup {v}, {})
<1>0. /\ o \in Sides /\ s # o /\ Other(o) = s /\ L \in Sides /\ R \in Sides
      /\ v # t /\ t \in Values /\ v # NoItem /\ N \subseteq Values /\ g \in Trees
  BY TwoSides, HistogramTreeAssumption DEF Shaped, Attached, Sides
<1>1. /\ \A y \in Sides, x \in Values : g.child[y][x] = IF y = s /\ x = t THEN v ELSE h.child[y][x]
      /\ \A x \in Values : g.height[x] = IF x = v THEN 1 ELSE h.height[x]
  BY DEF Attached
<1>2. \A x \in Values \ N : \A y \in Sides : h.child[y][x] = NoItem
  BY DEF Shaped, Outside
<1>3. ASSUME NEW n \in N, NEW y \in Sides, ~ (y = s /\ n = t)
      PROVE  HeightOf(g, g.child[y][n]) = HeightOf(h, h.child[y][n])
  <2>1. g.child[y][n] = h.child[y][n]
    BY <1>0, <1>1, <1>3
  <2>2. h.child[y][n] = NoItem \/ h.child[y][n] \in N
    BY ShapeFacts
  <2>. QED
    BY <1>0, <1>1, <2>1, <2>2 DEF HeightOf
<1>4. ASSUME NEW n \in N, n # t PROVE g.height[n] = HeightHere(g, n)
  <2>1. HeightHere(g, n) = HeightHere(h, n)
    BY <1>0, <1>3, <1>4 DEF HeightHere
  <2>2. h.height[n] = HeightHere(h, n)
    BY DEF ExactBut
  <2>. QED
    BY <1>0, <1>1, <2>1, <2>2
<1>5. g.height[v] = HeightHere(g, v)
  <2>1. \A y \in Sides : g.child[y][v] = NoItem
    BY <1>0, <1>1, <1>2
  <2>2. HeightOf(g, g.child[L][v]) = 0 /\ HeightOf(g, g.child[R][v]) = 0
    BY <1>0, <2>1 DEF HeightOf
  <2>3. HeightHere(g, v) = 1
    BY <2>2 DEF HeightHere
  <2>. QED
    BY <1>1, <2>3
<1>6. ExactBut(g, N \cup {v}, {t})
  BY <1>4, <1>5 DEF ExactBut
<1>7. ASSUME h.child[o][t] # NoItem PROVE g.height[t] = HeightHere(g, t)
  <2>. DEFINE c == h.child[o][t]
              hc == HeightOf(h, c)
  <2>1. c \in N
    BY <1>0, <1>7, ShapeFacts
  <2>2. hc = h.height[c] /\ h.height[c] = HeightHere(h, c) /\ h.height[t] = HeightHere(h, t)
    BY <1>7, <2>1 DEF ExactBut, HeightOf
  <2>3. /\ HeightOf(h, h.child[s][c]) \in Nat /\ HeightOf(h, h.child[o][c]) \in Nat
        /\ HeightHere(h, c) = 1 + IF HeightOf(h, h.child[s][c]) > HeightOf(h, h.child[o][c])
                                  THEN HeightOf(h, h.child[s][c]) ELSE HeightOf(h, h.child[o][c])
    <3>1. c \in Values
      BY <1>0, <2>1
    <3>. HIDE DEF c
    <3>. QED
      BY <1>0, <3>1, HeightSides
  <2>4. hc \in Nat /\ hc >= 1
    BY <2>2, <2>3
  <2>5. HeightHere(h, t) = 1 + IF HeightOf(h, h.child[s][t]) > hc THEN HeightOf(h, h.child[s][t]) ELSE hc
    BY <1>0, HeightSides
  <2>6. HeightHere(g, t) = 1 + IF HeightOf(g, g.child[s][t]) > HeightOf(g, g.child[o][t])
                               THEN HeightOf(g, g.child[s][t]) ELSE HeightOf(g, g.child[o][t])
    BY <1>0, HeightSides
  <2>7. HeightOf(g, g.child[o][t]) = hc
    BY <1>0, <1>3
  <2>8. HeightOf(g, g.child[s][t]) = 1
    BY <1>0, <1>1 DEF HeightOf
  <2>9. HeightOf(h, h.child[s][t]) = 0
    BY DEF HeightOf
  <2>10. g.height[t] = h.height[t]
    BY <1>0, <1>1
  <2>. HIDE DEF hc, c
  <2>. QED
    BY <2>2, <2>4, <2>5, <2>6, <2>7, <2>8, <2>9, <2>10
<1>8. h.child[o][t] # NoItem => ExactBut(g, N \cup {v}, {})
  BY <1>4, <1>5, <1>7 DEF ExactBut
<1>. QED
  BY <1>6, <1>8

(* A new leaf without duplications counts for nothing.                     *)
LEMMA AttachedCounts ==
  ASSUME NEW h \in Trees, NEW N, NEW D, Shaped(h, N, D), NEW t \in N, NEW v \in Values \ N,
         NEW s \in Sides, NEW o, o = Other(s), h.child[s][t] = NoItem,
         NEW g, NEW m, NEW k, Attached(h, g, t, v, s, o, m, k), TreeCounted(h, N),
         NEW g0 \in Trees, g0.child = g.child,
         \A x \in Values : g0.count[x] = IF x = v THEN 0 ELSE g.count[x],
         \A x \in Values : g0.dup[x] = IF x = v THEN 0 ELSE g.dup[x]
  PROVE  TreeCounted(g0, N \cup {v})
<1>0. /\ L \in Sides /\ R \in Sides
      /\ v # t /\ t \in Values /\ v # NoItem /\ N \subseteq Values /\ g \in Trees
  BY HistogramTreeAssumption DEF Shaped, Attached, Sides
<1>1. /\ \A y \in Sides, x \in Values : g0.child[y][x] = IF y = s /\ x = t THEN v ELSE h.child[y][x]
      /\ \A x \in Values : g0.count[x] = IF x = v THEN 0 ELSE h.count[x]
      /\ \A x \in Values : g0.dup[x] = IF x = v THEN 0 ELSE h.dup[x]
  BY DEF Attached
<1>2. \A x \in Values \ N : \A y \in Sides : h.child[y][x] = NoItem
  BY DEF Shaped, Outside
<1>3. ASSUME NEW n \in N, NEW y \in Sides
      PROVE  CountOf(g0, g0.child[y][n]) = CountOf(h, h.child[y][n])
  <2>1. CASE y = s /\ n = t
    BY <1>0, <1>1, <2>1 DEF CountOf
  <2>2. CASE ~ (y = s /\ n = t)
    <3>1. g0.child[y][n] = h.child[y][n]
      BY <1>0, <1>1, <2>2
    <3>2. h.child[y][n] = NoItem \/ h.child[y][n] \in N
      BY ShapeFacts
    <3>. QED
      BY <1>0, <1>1, <3>1, <3>2 DEF CountOf
  <2>. QED
    BY <2>1, <2>2
<1>4. ASSUME NEW n \in N
      PROVE  g0.count[n] = g0.dup[n] + CountOf(g0, g0.child[L][n]) + CountOf(g0, g0.child[R][n])
  <2>1. h.count[n] = h.dup[n] + CountOf(h, h.child[L][n]) + CountOf(h, h.child[R][n])
    BY DEF TreeCounted
  <2>2. g0.count[n] = h.count[n] /\ g0.dup[n] = h.dup[n]
    BY <1>0, <1>1
  <2>. QED
    BY <1>0, <1>3, <2>1, <2>2
<1>5. g0.count[v] = g0.dup[v] + CountOf(g0, g0.child[L][v]) + CountOf(g0, g0.child[R][v])
  <2>1. \A y \in Sides : g0.child[y][v] = NoItem
    BY <1>0, <1>1, <1>2
  <2>2. CountOf(g0, g0.child[L][v]) = 0 /\ CountOf(g0, g0.child[R][v]) = 0
    BY <1>0, <2>1 DEF CountOf
  <2>. QED
    BY <1>1, <2>2
<1>. QED
  BY <1>4, <1>5 DEF TreeCounted

-----------------------------------------------------------------------------
(***************************************************************************)
(* Insertions and deletions keep the search tree.                          *)
(***************************************************************************)
SearchTree(h, N, D) ==
  /\ h \in Trees /\ IsFiniteSet(N) /\ Shaped(h, N, D) /\ Linked(h, N)
  /\ ExactBut(h, N, {}) /\ Rooted(h, N)
  /\ \A x \in Values : h.dup[x] > 0 <=> x \in N

(* The same tree with another number of duplications of t.                 *)
LEMMA ReweighedKeeps ==
  ASSUME NEW h \in Trees, NEW N, NEW D, SearchTree(h, N, D), NEW t \in N, NEW k \in Nat \ {0},
         NEW g, Reweighed(h, g, N, D, t, k)
  PROVE  SearchTree(g, N, D)
<1>1. /\ g \in Trees /\ g.root = h.root /\ g.child = h.child /\ g.parent = h.parent
      /\ g.next = h.next /\ g.height = h.height
      /\ \A x \in Values : g.dup[x] = IF x = t THEN k ELSE h.dup[x]
  BY DEF Reweighed
<1>2. Shaped(g, N, D)
  BY <1>1, SameShape DEF SearchTree
<1>3. Linked(g, N)
  BY <1>1 DEF SearchTree, Linked
<1>4. ExactBut(g, N, {})
  <2>1. \A n \in N : HeightHere(g, n) = HeightHere(h, n)
    BY <1>1 DEF HeightHere, HeightOf
  <2>. QED
    BY <1>1, <2>1 DEF SearchTree, ExactBut
<1>5. Rooted(g, N)
  BY <1>1 DEF SearchTree, Rooted
<1>6. \A x \in Values : g.dup[x] > 0 <=> x \in N
  BY <1>1 DEF SearchTree
<1>. QED
  BY <1>1, <1>2, <1>3, <1>4, <1>5, <1>6 DEF SearchTree

LEMMA PathAncestors ==
  ASSUME NEW h \in Trees, NEW N, NEW D, Shaped(h, N, D), IsFiniteSet(N), NEW t \in N
  PROVE  \A x \in N : x \in ToSet(Path(h, t)) <=> t \in D[x]
<1>1. Climb(h, N, D, Path(h, t), t)
  BY PathFacts
<1>2. ToSet(Path(h, t)) = Anc(N, D, t)
  BY <1>1 DEF Climb
<1>. QED
  BY <1>2 DEF Anc

(* A value that is there already, or a duplication less.                   *)
LEMMA SameNodes ==
  ASSUME NEW h \in Trees, NEW N, NEW D, SearchTree(h, N, D), NEW t \in N, NEW d \in Int,
         NEW k, k = h.dup[t] + d, k \in Nat \ {0},
         NEW g, g = AddCount(SetDup(h, t, k), ToSet(Path(h, t)), d)
  PROVE  /\ SearchTree(g, N, D) /\ (TreeCounted(h, N) => TreeCounted(g, N))
         /\ \A x \in Values : g.dup[x] = IF x = t THEN k ELSE h.dup[x]
<1>. DEFINE h1 == SetDup(h, t, k)
            a == ToSet(Path(h, t))
<1>1. N \subseteq Values /\ Shaped(h, N, D) /\ IsFiniteSet(N) /\ t \in Values
  BY DEF SearchTree, Shaped
<1>2. h1 \in Trees /\ DupSet(h, h1, t, k)
  BY <1>1, SetDupFacts
<1>3. \A x \in N : x \in a <=> t \in D[x]
  BY <1>1, PathAncestors
<1>4. g = AddCount(h1, a, d)
  OBVIOUS
<1>. HIDE DEF h1, a
<1>5. g \in Trees /\ CountsAdded(h1, g, a, d)
  BY <1>2, <1>4, AddCountFacts
<1>6. k - h.dup[t] = d
  BY <1>1, TreeFields
<1>7. Reweighed(h, g, N, D, t, k)
  BY <1>1, <1>2, <1>3, <1>5, <1>6 DEF Reweighed, DupSet, OnlyDup, CountsAdded, OnlyCount
<1>8. SearchTree(g, N, D)
  BY <1>7, ReweighedKeeps
<1>9. TreeCounted(h, N) => TreeCounted(g, N)
  BY <1>1, <1>7, ReweighedCounts
<1>10. \A x \in Values : g.dup[x] = IF x = t THEN k ELSE h.dup[x]
  BY <1>7 DEF Reweighed
<1>. QED
  BY <1>8, <1>9, <1>10

(* UpdateHeight from a node whose height and whose parent's are not exact. *)
Rebuilt(h, f, N, E) ==
  /\ SearchTree(f, N, E) /\ (TreeCounted(h, N) => TreeCounted(f, N))
  /\ f.dup = h.dup /\ f.next = h.next

LEMMA UpdatedTree ==
  ASSUME NEW h \in Trees, NEW N, NEW D, Shaped(h, N, D), IsFiniteSet(N), Linked(h, N),
         NEW t \in N, ExactBut(h, N, {t, h.parent[t]}),
         \A x \in Values : h.dup[x] > 0 <=> x \in N,
         NEW ins, NEW f, f = UpdateHeight(h, t, ins)
  PROVE  \E E : Rebuilt(h, f, N, E)
<1>1. PICK E : Updated(h, f, N, t, E)
  BY UpdateHeightKeeps
<1>2. /\ f \in Trees /\ Shaped(f, N, E) /\ f.next = h.next /\ f.dup = h.dup
      /\ TreeCounted(h, N) => TreeCounted(f, N)
      /\ ExactBut(f, N, {}) /\ f.root \in N /\ f.parent[f.root] = NoItem
  BY <1>1 DEF Updated
<1>3. SearchTree(f, N, E)
  BY <1>2 DEF SearchTree, Linked, Rooted
<1>4. Rebuilt(h, f, N, E)
  BY <1>2, <1>3 DEF Rebuilt
<1>. QED
  BY <1>4

Inserted(h, f, N, v, k, E) ==
  /\ SearchTree(f, N \cup {v}, E)
  /\ \A x \in Values : f.dup[x] = IF x = v THEN h.dup[v] + k ELSE h.dup[x]
  /\ TreeCounted(h, N) /\ (k = 1 \/ v \in N) => TreeCounted(f, N \cup {v})

LEMMA InsertKeeps ==
  ASSUME NEW h, NEW N, NEW D, SearchTree(h, N, D), NEW v \in Values, NEW k \in Nat \ {0},
         NEW f, f = Insert(h, v, k)
  PROVE  \E E : Inserted(h, f, N, v, k, E)
<1>. DEFINE t == PlaceOf(h, v)
<1>1. /\ h \in Trees /\ N \subseteq Values /\ Shaped(h, N, D) /\ IsFiniteSet(N) /\ Rooted(h, N)
      /\ Linked(h, N) /\ ExactBut(h, N, {}) /\ \A x \in Values : h.dup[x] > 0 <=> x \in N
  BY DEF SearchTree, Shaped
<1>0. \A x \in Values : h.dup[x] \in Nat
  BY <1>1, TreeFields
<1>2. CASE v \in N
  <2>1. t = v
    BY <1>1, <1>2, PlaceOfNode
  <2>2. f = AddCount(SetDup(h, v, h.dup[v] + k), ToSet(Path(h, v)), k)
    BY <2>1 DEF Insert
  <2>3. h.dup[v] + k \in Nat \ {0} /\ k \in Int
    BY <1>0
  <2>4. /\ SearchTree(f, N, D) /\ (TreeCounted(h, N) => TreeCounted(f, N))
        /\ \A x \in Values : f.dup[x] = IF x = v THEN h.dup[v] + k ELSE h.dup[x]
    <3>. DEFINE d == h.dup[v] + k
    <3>1. d = h.dup[v] + k
      OBVIOUS
    <3>. HIDE DEF d
    <3>2. SearchTree(f, N, D) /\ (TreeCounted(h, N) => TreeCounted(f, N))
          /\ \A x \in Values : f.dup[x] = IF x = v THEN d ELSE h.dup[x]
      BY <1>1, <1>2, <2>2, <2>3, <3>1, SameNodes
    <3>. QED
      BY <3>1, <3>2
  <2>5. N \cup {v} = N
    BY <1>2
  <2>. QED
    BY <2>4, <2>5 DEF Inserted
<1>3. CASE v \notin N
  <2>. DEFINE s == Towards(v, t)
              o == Other(s)
              m == h.next[s][t]
              g == NewNode(h, t, v, k)
              a == ToSet(Path(h, t))
              f2 == AddCount(g, a, k)
              M == N \cup {v}
              E == WithBelow(D, t, v)
  <2>1. PlaceFound(h, N, D, t, v)
    BY <1>1, PlaceFacts
  <2>2. t \in N /\ t \in Values /\ v # t /\ h.child[s][t] = NoItem
    BY <1>1, <1>3, <2>1 DEF PlaceFound
  <2>3. f = IF h.child[o][t] # NoItem THEN f2 ELSE UpdateHeight(SetHeight(f2, t, f2.height[t] + 1), t, TRUE)
    BY <2>2 DEF Insert
  <2>4. Attached(h, g, t, v, s, o, m, k)
    BY <1>1, <2>2, NewNodeFacts
  <2>5. \A x \in N : x \in a <=> t \in D[x]
    BY <1>1, <2>2, PathAncestors
  <2>20. v \notin a
    <3>1. Climb(h, N, D, Path(h, t), t)
      BY <1>1, <2>2, PathFacts
    <3>. QED
      BY <1>3, <3>1 DEF Climb, Anc
  <2>6. /\ s = Towards(v, t) /\ o = Other(s) /\ E = WithBelow(D, t, v) /\ m = h.next[s][t]
        /\ f2 = AddCount(g, a, k)
    OBVIOUS
  <2>7. s \in Sides /\ o \in Sides
    <3>1. s \in Sides
      BY DEF Towards, Sides
    <3>. HIDE DEF s
    <3>. QED
      BY <3>1, TwoSides
  <2>8. m \in Values \cup {NoItem}
    BY <1>1, <2>2, <2>7, TreeFields
  <2>21. \A x \in N : E[x] = IF t \in D[x] THEN D[x] \cup {v} ELSE D[x]
    BY <1>1, <1>3 DEF WithBelow
  <2>22. E[v] = {v}
    BY DEF WithBelow
  <2>. HIDE DEF t, s, o, m, g, a, f2, E
  <2>9. NextTo(N, t, v)
    BY <1>1, <2>1, <2>2, PlaceNextTo
  <2>10. Shaped(g, M, E)
    BY <1>1, <1>3, <2>2, <2>4, <2>6, <2>9, AttachedShape
  <2>11. g \in Trees
    BY <2>4 DEF Attached
  <2>12. f2 \in Trees /\ CountsAdded(g, f2, a, k)
    BY <2>6, <2>11, AddCountFacts
  <2>13. /\ f2.root = h.root /\ f2.child = g.child /\ f2.parent = g.parent /\ f2.next = g.next
         /\ f2.height = g.height /\ f2.dup = g.dup
         /\ \A x \in Values : f2.count[x] = g.count[x] + IF x \in a THEN k ELSE 0
    BY <2>4, <2>12 DEF CountsAdded, OnlyCount, Attached
  <2>14. Shaped(f2, M, E)
    BY <2>10, <2>13, SameShape
  <2>15. IsFiniteSet(M)
    BY <1>1, FS_AddElement
  <2>16. Linked(f2, M)
    <3>1. m = NoItem \/ m \in N
      BY <1>1, <2>2, <2>6, <2>7 DEF Linked, Neighbor
    <3>2. v # NoItem /\ NoItem \notin N /\ t # NoItem /\ s # o
      BY <1>1, <2>2, <2>6, <2>7, TwoSides, HistogramTreeAssumption
    <3>3. \A y \in Sides, x \in Values :
            f2.next[y][x] = IF y = o /\ x = m THEN v ELSE IF y = s /\ x = t THEN v
                            ELSE IF y = o /\ x = v THEN t ELSE IF y = s /\ x = v THEN m ELSE h.next[y][x]
      BY <2>4, <2>13 DEF Attached
    <3>4. /\ f2.next[s][v] = m /\ f2.next[o][v] = t /\ f2.next[s][t] = v
          /\ m # NoItem => f2.next[o][m] = v
      BY <1>1, <1>3, <2>2, <2>7, <3>1, <3>2, <3>3
    <3>5. \A y \in Sides, x \in N : ~ (y = s /\ x = t) /\ ~ (y = o /\ x = m) => f2.next[y][x] = h.next[y][x]
      BY <1>1, <1>3, <3>3
    <3>6. /\ N \subseteq Values /\ Linked(h, N) /\ t \in N /\ v \in Values \ N /\ f2 \in Trees
          /\ s = Towards(v, t) /\ o = Other(s) /\ m = h.next[s][t]
      BY <1>1, <1>3, <2>2, <2>6, <2>12
    <3>. HIDE DEF M
    <3>8. PutBetween(h, f2, N, t, v, s, o, m)
      BY <3>4, <3>5 DEF PutBetween
    <3>7. Linked(f2, N \cup {v})
      BY <1>1, <2>9, <3>6, <3>8, LinkedWith
    <3>. QED
      BY <3>7 DEF M
  <2>17. /\ ExactBut(f2, M, {t})
         /\ h.child[o][t] # NoItem => ExactBut(f2, M, {})
    <3>1. /\ ExactBut(g, M, {t})
          /\ h.child[o][t] # NoItem => ExactBut(g, M, {})
      BY <1>1, <1>3, <2>2, <2>4, <2>6, <2>7, AttachedHeights
    <3>2. \A n \in M : HeightHere(f2, n) = HeightHere(g, n)
      BY <2>13 DEF HeightHere, HeightOf
    <3>. QED
      BY <2>13, <3>1, <3>2 DEF ExactBut
  <2>18. ASSUME NEW x \in Values
         PROVE  /\ f2.dup[x] = IF x = v THEN h.dup[v] + k ELSE h.dup[x]
                /\ f2.dup[x] > 0 <=> x \in M
    <3>1. f2.dup[x] = IF x = v THEN k ELSE h.dup[x]
      BY <2>4, <2>13 DEF Attached
    <3>2. h.dup[v] = 0
      BY <1>0, <1>1, <1>3
    <3>. QED
      BY <1>0, <1>1, <1>3, <3>1, <3>2
  <2>19. ASSUME TreeCounted(h, N), k = 1 PROVE TreeCounted(f2, M)
    <3>. DEFINE g1 == SetCount(g, v, 0)
                g0 == SetDup(g1, v, 0)
    <3>0. g1 = SetCount(g, v, 0) /\ g0 = SetDup(g1, v, 0)
      OBVIOUS
    <3>. HIDE DEF g1, g0
    <3>1. g1 \in Trees /\ CountSet(g, g1, v, 0)
      BY <2>11, <3>0, SetCountFacts
    <3>2. g0 \in Trees /\ DupSet(g1, g0, v, 0)
      BY <3>0, <3>1, SetDupFacts
    <3>3. /\ g0.root = g.root /\ g0.child = g.child /\ g0.parent = g.parent /\ g0.next = g.next
          /\ g0.height = g.height
          /\ \A x \in Values : g0.count[x] = IF x = v THEN 0 ELSE g.count[x]
          /\ \A x \in Values : g0.dup[x] = IF x = v THEN 0 ELSE g.dup[x]
      BY <3>1, <3>2 DEF CountSet, DupSet, OnlyCount, OnlyDup
    <3>4. TreeCounted(g0, M)
      BY <1>1, <1>3, <2>2, <2>4, <2>6, <2>7, <2>19, <3>2, <3>3, AttachedCounts
    <3>5. Shaped(g0, M, E)
      BY <2>10, <3>3, SameShape
    <3>6. \A x \in Values : f2.dup[x] = IF x = v THEN 1 ELSE g0.dup[x]
      BY <2>4, <2>13, <2>19, <3>3 DEF Attached
    <3>7. \A x \in M : f2.count[x] = g0.count[x] + IF v \in E[x] THEN 1 - g0.dup[v] ELSE 0
      <4>1. ASSUME NEW x \in N PROVE f2.count[x] = g0.count[x] + IF v \in E[x] THEN 1 - g0.dup[v] ELSE 0
        <5>1. v \in E[x] <=> x \in a
          BY <1>1, <1>3, <2>5, <2>21 DEF Shaped
        <5>2. g0.dup[v] = 0 /\ x \in Values /\ x # v
          BY <1>1, <1>3, <3>3
        <5>. QED
          BY <2>13, <2>19, <3>3, <5>1, <5>2
      <4>2. f2.count[v] = g0.count[v] + IF v \in E[v] THEN 1 - g0.dup[v] ELSE 0
        <5>1. f2.count[v] = 1 /\ g0.count[v] = 0 /\ g0.dup[v] = 0
          BY <2>4, <2>13, <2>20, <3>3 DEF Attached
        <5>. QED
          BY <2>22, <5>1
      <4>. QED
        BY <4>1, <4>2
    <3>8. Reweighed(g0, f2, M, E, v, 1)
      BY <2>4, <2>12, <2>13, <3>3, <3>6, <3>7 DEF Reweighed, Attached
    <3>9. v \in M /\ 1 \in Nat
      OBVIOUS
    <3>. HIDE DEF M
    <3>. QED
      BY <3>2, <3>4, <3>5, <3>8, <3>9, ReweighedCounts
  <2>23. CASE h.child[o][t] # NoItem
    <3>1. f = f2
      BY <2>3, <2>23
    <3>2. Rooted(f2, M)
      <4>1. h.root \in N /\ h.parent[h.root] = NoItem
        BY <1>1 DEF Rooted
      <4>2. f2.parent[h.root] = h.parent[h.root]
        BY <1>1, <1>3, <2>4, <2>13, <4>1 DEF Attached
      <4>. QED
        BY <2>13, <4>1, <4>2 DEF Rooted
    <3>3. SearchTree(f2, M, E)
      BY <2>12, <2>14, <2>15, <2>16, <2>17, <2>18, <2>23, <3>2 DEF SearchTree
    <3>4. Inserted(h, f, N, v, k, E)
      BY <1>3, <2>18, <2>19, <3>1, <3>3 DEF Inserted
    <3>. QED
      BY <3>4
  <2>24. CASE h.child[o][t] = NoItem
    <3>. DEFINE f3 == SetHeight(f2, t, f2.height[t] + 1)
    <3>1. f = UpdateHeight(f3, t, TRUE)
      BY <2>3, <2>24
    <3>2. f2.height[t] + 1 \in Nat
      BY <2>2, <2>12, TreeFields
    <3>3. f3 \in Trees /\ HeightPut(f2, f3, t, f2.height[t] + 1)
      BY <2>2, <2>12, <3>2, SetHeightFacts
    <3>. HIDE DEF f3
    <3>4. /\ f3.root = f2.root /\ f3.child = f2.child /\ f3.parent = f2.parent /\ f3.next = f2.next
          /\ f3.count = f2.count /\ f3.dup = f2.dup
          /\ \A x \in Values : x # t => f3.height[x] = f2.height[x]
      BY <3>3 DEF HeightPut, OnlyHeight
    <3>5. Shaped(f3, M, E) /\ Linked(f3, M)
      BY <2>14, <2>16, <3>4, SameShape DEF Linked
    <3>6. ExactBut(f3, M, {t, f3.parent[t]})
      <4>1. ASSUME NEW n \in M, n # t, n # f3.parent[t] PROVE f3.height[n] = HeightHere(f3, n)
        <5>1. ASSUME NEW y \in Sides PROVE HeightOf(f3, f3.child[y][n]) = HeightOf(f2, f2.child[y][n])
          <6>. DEFINE c == f2.child[y][n]
          <6>1. c = NoItem \/ (c \in M /\ f2.parent[c] = n)
            BY <2>12, <2>14, ShapeFacts
          <6>2. f3.child[y][n] = c /\ c # t
            BY <2>2, <3>4, <4>1, <6>1, HistogramTreeAssumption
          <6>. HIDE DEF c
          <6>3. c = NoItem \/ c \in Values
            BY <1>1, <6>1
          <6>. QED
            BY <3>4, <6>2, <6>3 DEF HeightOf, c
        <5>2. HeightHere(f3, n) = HeightHere(f2, n)
          BY <5>1 DEF HeightHere, Sides
        <5>3. f2.height[n] = HeightHere(f2, n)
          BY <2>17, <4>1 DEF ExactBut
        <5>. QED
          BY <1>1, <3>4, <4>1, <5>2, <5>3
      <4>. QED
        BY <4>1 DEF ExactBut
    <3>7. \A x \in Values : f3.dup[x] > 0 <=> x \in M
      BY <2>18, <3>4
    <3>8. t \in M
      BY <2>2
    <3>. HIDE DEF M
    <3>9. PICK ins : f = UpdateHeight(f3, t, ins)
      BY <3>1, Zenon
    <3>12. PICK F : Rebuilt(f3, f, M, F)
      BY <2>15, <3>3, <3>5, <3>6, <3>7, <3>8, <3>9, UpdatedTree
    <3>10. TreeCounted(f2, M) => TreeCounted(f3, M)
      BY <3>4 DEF TreeCounted, CountOf
    <3>11. Inserted(h, f, N, v, k, F)
      BY <1>3, <2>18, <2>19, <3>4, <3>10, <3>12 DEF Inserted, Rebuilt, M
    <3>. QED
      BY <3>11
  <2>. QED
    BY <2>23, <2>24
<1>. QED
  BY <1>2, <1>3

(* r, with at most the child c and not the root, leaves its place to c.    *)
Spliced(h, g, N, r, c) ==
  /\ g \in Trees
  /\ \A y \in Sides, x \in Values :
       g.child[y][x] = IF x = r THEN NoItem ELSE IF h.child[y][x] = r THEN c ELSE h.child[y][x]
  /\ \A x \in Values :
       g.parent[x] = IF x = r THEN NoItem ELSE IF x = c THEN h.parent[r] ELSE h.parent[x]
  /\ \A y \in Sides, x \in N \ {r} :
       g.next[y][x] = IF h.next[y][x] = r THEN h.next[y][r] ELSE h.next[y][x]
  /\ \A x \in N \ {r} :
       g.height[x] = h.height[x] /\ g.count[x] = h.count[x] /\ g.dup[x] = h.dup[x]

OnlyChildOf(h, r, c) ==
  \E s \in Sides : h.child[s][r] = c /\ h.child[Other(s)][r] = NoItem

WithoutNode(D, r) == [x \in Values |-> D[x] \ {r}]

LEMMA SplicedShape ==
  ASSUME NEW h \in Trees, NEW N, NEW D, Shaped(h, N, D), NEW r \in N, h.parent[r] # NoItem,
         NEW c, OnlyChildOf(h, r, c), NEW g, Spliced(h, g, N, r, c), NEW E, E = WithoutNode(D, r)
  PROVE  Shaped(g, N \ {r}, E)
<1>. DEFINE M == N \ {r}
            q == h.parent[r]
<1>0. /\ N \subseteq Values /\ M \subseteq Values /\ D \in [Values -> SUBSET N]
      /\ r \in Values /\ r # NoItem /\ NoItem \notin N /\ L \in Sides /\ R \in Sides
  BY HistogramTreeAssumption DEF Shaped, Sides
<1>1. /\ \A y \in Sides, x \in Values :
           g.child[y][x] = IF x = r THEN NoItem ELSE IF h.child[y][x] = r THEN c ELSE h.child[y][x]
      /\ \A x \in Values :
           g.parent[x] = IF x = r THEN NoItem ELSE IF x = c THEN q ELSE h.parent[x]
  BY DEF Spliced
<1>2. q \in N /\ q # r /\ \E y \in Sides : h.child[y][q] = r
  BY ShapeApart
<1>3. PICK s \in Sides : h.child[s][r] = c /\ h.child[Other(s)][r] = NoItem
  BY DEF OnlyChildOf
<1>4. \A y \in Sides : y = s \/ y = Other(s)
  BY TwoSides
<1>5. /\ c # r /\ D[r] = {r} \cup Below(D, c)
      /\ c # NoItem => c \in N /\ h.parent[c] = r /\ r \notin D[c]
  <2>1. D[r] = {r} \cup Below(D, h.child[s][r]) \cup Below(D, h.child[Other(s)][r])
    BY ShapeFacts
  <2>2. Below(D, h.child[Other(s)][r]) = {}
    BY <1>3 DEF Below
  <2>3. h.child[s][r] # r
    BY ShapeFacts
  <2>4. h.child[s][r] # NoItem => h.child[s][r] \in N /\ h.parent[h.child[s][r]] = r /\ r \notin D[h.child[s][r]]
    BY ShapeFacts
  <2>. QED
    BY <1>3, <2>1, <2>2, <2>3, <2>4
<1>6. E \in [Values -> SUBSET M] /\ \A x \in Values : E[x] = D[x] \ {r}
  BY <1>0 DEF WithoutNode
<1>7. ASSUME NEW n \in N, NEW y \in Sides
      PROVE  h.child[y][n] = NoItem \/ (h.child[y][n] \in N /\ h.parent[h.child[y][n]] = n)
  BY ShapeFacts
<1>. HIDE DEF q
<1>8. ASSUME NEW n \in M, NEW y \in Sides
      PROVE  Below(E, g.child[y][n]) = Below(D, h.child[y][n]) \ {r}
  <2>1. CASE h.child[y][n] = r
    <3>1. g.child[y][n] = c
      BY <1>0, <1>1, <2>1
    <3>2. Below(D, r) = D[r]
      BY <1>0 DEF Below
    <3>3. Below(E, c) = Below(D, c)
      <4>1. CASE c = NoItem
        BY <4>1 DEF Below
      <4>2. CASE c # NoItem
        <5>1. c \in N /\ r \notin D[c]
          BY <1>5, <4>2
        <5>2. c \in Values
          BY <1>0, <5>1
        <5>3. E[c] = D[c] \ {r}
          BY <1>6, <5>2
        <5>4. E[c] = D[c]
          BY <5>1, <5>3
        <5>. QED
          BY <4>2, <5>4 DEF Below
      <4>. QED
        BY <4>1, <4>2
    <3>4. r \notin Below(D, c)
      BY <1>5 DEF Below
    <3>. QED
      BY <1>5, <2>1, <3>1, <3>2, <3>3, <3>4
  <2>2. CASE h.child[y][n] # r
    <3>1. g.child[y][n] = h.child[y][n]
      BY <1>0, <1>1, <2>2
    <3>. QED
      BY <1>0, <1>6, <1>7, <3>1 DEF Below
  <2>. QED
    BY <2>1, <2>2
<1>9. Descends(g, M, E)
  <2>1. ASSUME NEW n \in M PROVE E[n] = {n} \cup Below(E, g.child[L][n]) \cup Below(E, g.child[R][n])
    <3>1. D[n] = {n} \cup Below(D, h.child[L][n]) \cup Below(D, h.child[R][n])
      BY DEF Shaped, Descends
    <3>2. E[n] = D[n] \ {r}
      BY <1>0, <1>6
    <3>3. /\ Below(E, g.child[L][n]) = Below(D, h.child[L][n]) \ {r}
          /\ Below(E, g.child[R][n]) = Below(D, h.child[R][n]) \ {r}
      BY <1>0, <1>8
    <3>. QED
      BY <3>1, <3>2, <3>3
  <2>. QED
    BY <2>1 DEF Descends
<1>10. Sided(g, M, E)
  BY <1>8 DEF Sided, Shaped
<1>11. ChildLinks(g, M)
  <2>1. ASSUME NEW n \in M, NEW y \in Sides, g.child[y][n] # NoItem
        PROVE  g.child[y][n] \in M /\ g.parent[g.child[y][n]] = n
    <3>1. CASE h.child[y][n] = r
      <4>1. g.child[y][n] = c /\ q = n
        BY <1>0, <1>1, <1>7, <3>1 DEF q
      <4>. QED
        BY <1>0, <1>1, <1>5, <2>1, <4>1
    <3>2. CASE h.child[y][n] # r
      <4>1. g.child[y][n] = h.child[y][n]
        BY <1>0, <1>1, <3>2
      <4>2. h.child[y][n] \in N /\ h.parent[h.child[y][n]] = n
        BY <1>7, <2>1, <4>1
      <4>3. h.child[y][n] # c
        BY <1>0, <1>5, <4>2
      <4>. QED
        BY <1>0, <1>1, <3>2, <4>1, <4>2, <4>3
    <3>. QED
      BY <3>1, <3>2
  <2>. QED
    BY <2>1 DEF ChildLinks
<1>12. ParentLinks(g, M)
  <2>1. ASSUME NEW n \in M, g.parent[n] # NoItem
        PROVE  g.parent[n] \in M /\ \E y \in Sides : g.child[y][g.parent[n]] = n
    <3>1. CASE n = c
      <4>1. g.parent[n] = q
        BY <1>0, <1>1, <3>1
      <4>2. PICK y \in Sides : h.child[y][q] = r
        BY <1>2
      <4>3. g.child[y][q] = c
        BY <1>0, <1>1, <1>2, <4>2
      <4>. QED
        BY <1>2, <3>1, <4>1, <4>3
    <3>2. CASE n # c
      <4>1. g.parent[n] = h.parent[n]
        BY <1>0, <1>1, <3>2
      <4>2. h.parent[n] \in N /\ \E y \in Sides : h.child[y][h.parent[n]] = n
        BY <2>1, <4>1, ShapeApart
      <4>3. PICK y \in Sides : h.child[y][h.parent[n]] = n
        BY <4>2
      <4>4. h.parent[n] # r
        BY <1>0, <1>3, <1>4, <3>2, <4>3
      <4>5. g.child[y][h.parent[n]] = n
        BY <1>0, <1>1, <4>2, <4>3, <4>4
      <4>. QED
        BY <4>1, <4>2, <4>4, <4>5
    <3>. QED
      BY <3>1, <3>2
  <2>. QED
    BY <2>1 DEF ParentLinks
<1>13. Outside(g, M)
  <2>1. ASSUME NEW v \in Values \ M PROVE g.parent[v] = NoItem /\ \A y \in Sides : g.child[y][v] = NoItem
    <3>1. CASE v = r
      BY <1>0, <1>1, <3>1
    <3>2. CASE v # r
      <4>1. v \notin N /\ h.parent[v] = NoItem /\ \A y \in Sides : h.child[y][v] = NoItem
        BY <3>2 DEF Shaped, Outside
      <4>2. v # c
        BY <1>0, <1>5, <4>1, HistogramTreeAssumption
      <4>. QED
        BY <1>0, <1>1, <3>2, <4>1, <4>2
    <3>. QED
      BY <3>1, <3>2
  <2>. QED
    BY <2>1 DEF Outside
<1>14. OneRoot(g, M)
  <2>1. \A a, b \in N : h.parent[a] = NoItem /\ h.parent[b] = NoItem => a = b
    BY DEF Shaped, OneRoot
  <2>2. q # NoItem
    BY DEF q
  <2>. QED
    BY <1>0, <1>1, <2>1, <2>2 DEF OneRoot
<1>. QED
  BY <1>0, <1>6, <1>9, <1>10, <1>11, <1>12, <1>13, <1>14 DEF Shaped

(* Heights but the parent's are exact, and counts if r counted for nothing *)
(* but its child.                                                          *)
LEMMA SplicedSums ==
  ASSUME NEW h \in Trees, NEW N, NEW D, Shaped(h, N, D), NEW r \in N, h.parent[r] # NoItem,
         NEW c, OnlyChildOf(h, r, c), NEW g, Spliced(h, g, N, r, c)
  PROVE  /\ ExactBut(h, N, {}) => ExactBut(g, N \ {r}, {h.parent[r]})
         /\ TreeCounted(h, N) /\ h.dup[r] = 0 => TreeCounted(g, N \ {r})
<1>0. /\ N \subseteq Values /\ r \in Values /\ r # NoItem /\ NoItem \notin N /\ L \in Sides /\ R \in Sides
      /\ g \in Trees
  BY HistogramTreeAssumption DEF Shaped, Sides, Spliced
<1>1. /\ \A y \in Sides, x \in Values :
           g.child[y][x] = IF x = r THEN NoItem ELSE IF h.child[y][x] = r THEN c ELSE h.child[y][x]
      /\ \A x \in N \ {r} :
           g.height[x] = h.height[x] /\ g.count[x] = h.count[x] /\ g.dup[x] = h.dup[x]
  BY DEF Spliced
<1>2. PICK s \in Sides : h.child[s][r] = c /\ h.child[Other(s)][r] = NoItem
  BY DEF OnlyChildOf
<1>3. c # r /\ (c = NoItem \/ c \in N)
  <2>1. h.child[s][r] # r /\ (h.child[s][r] # NoItem => h.child[s][r] \in N)
    BY ShapeFacts
  <2>. QED
    BY <1>2, <2>1
<1>4. ASSUME NEW n \in N, NEW y \in Sides
      PROVE  h.child[y][n] = NoItem \/ (h.child[y][n] \in N /\ h.parent[h.child[y][n]] = n)
  BY ShapeFacts
<1>5. ASSUME ExactBut(h, N, {}) PROVE ExactBut(g, N \ {r}, {h.parent[r]})
  <2>1. ASSUME NEW n \in N \ {r}, n # h.parent[r] PROVE g.height[n] = HeightHere(g, n)
    <3>1. ASSUME NEW y \in Sides PROVE HeightOf(g, g.child[y][n]) = HeightOf(h, h.child[y][n])
      <4>1. h.child[y][n] # r
        BY <1>0, <1>4, <2>1
      <4>2. g.child[y][n] = h.child[y][n]
        BY <1>0, <1>1, <4>1
      <4>. QED
        BY <1>1, <1>4, <4>1, <4>2 DEF HeightOf
    <3>2. HeightHere(g, n) = HeightHere(h, n)
      BY <1>0, <3>1 DEF HeightHere
    <3>3. h.height[n] = HeightHere(h, n)
      BY <1>5 DEF ExactBut
    <3>. QED
      BY <1>1, <3>2, <3>3
  <2>. QED
    BY <2>1 DEF ExactBut
<1>6. ASSUME TreeCounted(h, N), h.dup[r] = 0 PROVE TreeCounted(g, N \ {r})
  <2>1. h.count[r] = CountOf(h, c)
    <3>1. h.count[r] = h.dup[r] + CountOf(h, h.child[s][r]) + CountOf(h, h.child[Other(s)][r])
      BY <1>0, <1>6, CountedSides
    <3>2. CountOf(h, h.child[Other(s)][r]) = 0
      BY <1>2 DEF CountOf
    <3>3. CountOf(h, c) \in Int
      BY <1>0, <1>3, TreeFields DEF CountOf
    <3>. QED
      BY <1>2, <1>6, <3>1, <3>2, <3>3
  <2>2. ASSUME NEW n \in N \ {r}, NEW y \in Sides
        PROVE  CountOf(g, g.child[y][n]) = CountOf(h, h.child[y][n])
    <3>1. CASE h.child[y][n] = r
      <4>1. g.child[y][n] = c
        BY <1>0, <1>1, <3>1
      <4>2. CountOf(g, c) = CountOf(h, c)
        BY <1>1, <1>3 DEF CountOf
      <4>3. CountOf(h, r) = h.count[r]
        BY <1>0 DEF CountOf
      <4>. QED
        BY <2>1, <3>1, <4>1, <4>2, <4>3
    <3>2. CASE h.child[y][n] # r
      <4>1. g.child[y][n] = h.child[y][n]
        BY <1>0, <1>1, <3>2
      <4>. QED
        BY <1>1, <1>4, <3>2, <4>1 DEF CountOf
    <3>. QED
      BY <3>1, <3>2
  <2>3. ASSUME NEW n \in N \ {r}
        PROVE  g.count[n] = g.dup[n] + CountOf(g, g.child[L][n]) + CountOf(g, g.child[R][n])
    <3>1. h.count[n] = h.dup[n] + CountOf(h, h.child[L][n]) + CountOf(h, h.child[R][n])
      BY <1>6 DEF TreeCounted
    <3>. QED
      BY <1>0, <1>1, <2>2, <3>1
  <2>. QED
    BY <2>3 DEF TreeCounted
<1>. QED
  BY <1>5, <1>6

(* r, which is no node, gets the place of t: t's neighbors, children,      *)
(* parent and numbers.                                                     *)
Stands(t, r, x) == IF x = t THEN r ELSE x
Renamed(h, f, N, t, r) ==
  /\ f \in Trees
  /\ \A x \in Values \ Swap(N, t, r) : f.parent[x] = NoItem /\ \A y \in Sides : f.child[y][x] = NoItem
  /\ \A x \in Swap(N, t, r) :
       /\ f.parent[x] = Stands(t, r, h.parent[Stands(r, t, x)])
       /\ f.height[x] = h.height[Stands(r, t, x)]
       /\ f.count[x] = h.count[Stands(r, t, x)]
       /\ f.dup[x] = h.dup[Stands(r, t, x)]
       /\ \A y \in Sides :
            /\ f.child[y][x] = Stands(t, r, h.child[y][Stands(r, t, x)])
            /\ f.next[y][x] = Stands(t, r, h.next[y][Stands(r, t, x)])

MovesBack(N, t, r) ==
  /\ \A x \in N : Stands(t, r, x) \in Swap(N, t, r) /\ Stands(r, t, Stands(t, r, x)) = x
  /\ \A x \in Swap(N, t, r) : Stands(r, t, x) \in N /\ Stands(t, r, Stands(r, t, x)) = x
  /\ Stands(t, r, NoItem) = NoItem

LEMMA MovedFacts ==
  ASSUME NEW N, N \subseteq Values, NEW t \in N, NEW r \in Values \ N
  PROVE  MovesBack(N, t, r)
  BY HistogramTreeAssumption DEF Stands, Swap, MovesBack

WithMoved(N, D, t, r) ==
  [x \in Values |-> {m \in Swap(N, t, r) : Stands(r, t, m) \in D[Stands(r, t, x)]}]

(* r is on the same side of the other nodes as t.                          *)
LEMMA MovedSides ==
  ASSUME NEW N, N \subseteq Values, NEW t \in N, NEW r \in Values \ N, NextTo(N, t, r),
         NEW m \in Swap(N, t, r), NEW n \in Swap(N, t, r), m # n
  PROVE  Towards(m, n) = Towards(Stands(r, t, m), Stands(r, t, n))
<1>1. \A x \in N \ {t} : x # r /\ x # t /\ Towards(r, x) = Towards(t, x)
  BY DEF NextTo
<1>2. t \in Values /\ r \in Values /\ m \in Values /\ n \in Values
  BY DEF Swap
<1>3. CASE m = r
  <2>1. n \in N \ {t}
    BY <1>3 DEF Swap
  <2>. QED
    BY <1>1, <1>3, <2>1 DEF Stands
<1>4. CASE n = r
  <2>1. m \in N \ {t}
    BY <1>4 DEF Swap
  <2>2. m # r /\ m # t /\ Towards(r, m) = Towards(t, m)
    BY <1>1, <2>1
  <2>3. Towards(m, r) = Other(Towards(r, m)) /\ Towards(m, t) = Other(Towards(t, m))
    BY <1>2, <2>2, OtherSide
  <2>. QED
    BY <1>4, <2>2, <2>3 DEF Stands
<1>5. CASE m # r /\ n # r
  BY <1>5 DEF Stands
<1>. QED
  BY <1>3, <1>4, <1>5

LEMMA RenamedShape ==
  ASSUME NEW h \in Trees, NEW N, NEW D, Shaped(h, N, D), NEW t \in N, NEW r \in Values \ N,
         NextTo(N, t, r), NEW f, Renamed(h, f, N, t, r), NEW E, E = WithMoved(N, D, t, r)
  PROVE  Shaped(f, Swap(N, t, r), E)
<1>a. N \subseteq Values
  BY DEF Shaped
<1>b. MovesBack(N, t, r)
  BY <1>a, MovedFacts
<1>. DEFINE M == Swap(N, t, r)
            B(x) == Stands(r, t, x)
            F(x) == Stands(t, r, x)
<1>0. /\ N \subseteq Values /\ M \subseteq Values /\ D \in [Values -> SUBSET N]
      /\ t \in Values /\ r \in Values /\ NoItem \notin N /\ NoItem \notin M /\ L \in Sides /\ R \in Sides
  BY HistogramTreeAssumption DEF Shaped, Sides, Swap
<1>1. /\ \A x \in N : F(x) \in M /\ B(F(x)) = x
      /\ \A x \in M : B(x) \in N /\ F(B(x)) = x
      /\ F(NoItem) = NoItem
  BY <1>b DEF MovesBack
<1>2. /\ \A x \in Values \ M : f.parent[x] = NoItem /\ \A y \in Sides : f.child[y][x] = NoItem
      /\ \A x \in M : f.parent[x] = F(h.parent[B(x)])
      /\ \A x \in M, y \in Sides : f.child[y][x] = F(h.child[y][B(x)])
  BY DEF Renamed
<1>3. E \in [Values -> SUBSET M] /\ \A x \in Values : E[x] = {m \in M : B(m) \in D[B(x)]}
  BY DEF WithMoved
<1>4. \A m, n \in M : m # n => Towards(m, n) = Towards(B(m), B(n))
  BY <1>0, MovedSides
<1>. HIDE DEF M, B, F
<1>5. ASSUME NEW n \in N, NEW y \in Sides
      PROVE  h.child[y][n] = NoItem \/ (h.child[y][n] \in N /\ h.parent[h.child[y][n]] = n)
  BY ShapeFacts
<1>6. ASSUME NEW n \in M, NEW y \in Sides
      PROVE  \A m \in M : m \in Below(E, f.child[y][n]) <=> B(m) \in Below(D, h.child[y][B(n)])
  <2>0. B(n) \in N /\ f.child[y][n] = F(h.child[y][B(n)])
    BY <1>1, <1>2
  <2>1. CASE h.child[y][B(n)] = NoItem
    <3>1. f.child[y][n] = NoItem
      BY <1>1, <2>0, <2>1
    <3>. QED
      BY <2>1, <3>1 DEF Below
  <2>2. CASE h.child[y][B(n)] # NoItem
    <3>1. h.child[y][B(n)] \in N
      BY <1>5, <2>0, <2>2
    <3>2. f.child[y][n] \in M /\ B(f.child[y][n]) = h.child[y][B(n)]
      BY <1>1, <2>0, <3>1
    <3>3. f.child[y][n] # NoItem /\ f.child[y][n] \in Values
      BY <1>0, <3>2
    <3>4. E[f.child[y][n]] = {m \in M : B(m) \in D[h.child[y][B(n)]]}
      BY <1>3, <3>2, <3>3
    <3>. QED
      BY <2>2, <3>3, <3>4 DEF Below
  <2>. QED
    BY <2>1, <2>2
<1>7. Below(E, NoItem) = {} /\ \A n \in M : Below(E, n) \subseteq M
  BY <1>0, <1>3 DEF Below
<1>8. \A n \in M, y \in Sides : f.child[y][n] = NoItem \/ f.child[y][n] \in M
  BY <1>1, <1>2, <1>5
<1>9. Descends(f, M, E)
  <2>1. ASSUME NEW n \in M PROVE E[n] = {n} \cup Below(E, f.child[L][n]) \cup Below(E, f.child[R][n])
    <3>1. D[B(n)] = {B(n)} \cup Below(D, h.child[L][B(n)]) \cup Below(D, h.child[R][B(n)])
      BY <1>1 DEF Shaped, Descends
    <3>2. E[n] = {m \in M : B(m) \in D[B(n)]}
      BY <1>0, <1>3
    <3>3. \A m \in M : B(m) = B(n) <=> m = n
      BY <1>1
    <3>4. Below(E, f.child[L][n]) \subseteq M /\ Below(E, f.child[R][n]) \subseteq M
      BY <1>0, <1>7, <1>8
    <3>5. \A m \in M : m \in Below(E, f.child[L][n]) <=> B(m) \in Below(D, h.child[L][B(n)])
      BY <1>0, <1>6
    <3>6. \A m \in M : m \in Below(E, f.child[R][n]) <=> B(m) \in Below(D, h.child[R][B(n)])
      BY <1>0, <1>6
    <3>. QED
      BY <3>1, <3>2, <3>3, <3>4, <3>5, <3>6
  <2>. QED
    BY <2>1 DEF Descends
<1>10. Sided(f, M, E)
  <2>1. ASSUME NEW n \in M, NEW y \in Sides, NEW m \in Below(E, f.child[y][n])
        PROVE  m # n /\ Towards(m, n) = y
    <3>1. m \in M
      BY <1>7, <1>8
    <3>2. B(n) \in N /\ B(m) \in Below(D, h.child[y][B(n)])
      BY <1>1, <1>6, <3>1
    <3>3. B(m) # B(n) /\ Towards(B(m), B(n)) = y
      BY <3>2 DEF Shaped, Sided
    <3>. QED
      BY <1>4, <3>1, <3>3
  <2>. QED
    BY <2>1 DEF Sided
<1>11. ChildLinks(f, M)
  <2>1. ASSUME NEW n \in M, NEW y \in Sides, f.child[y][n] # NoItem
        PROVE  f.child[y][n] \in M /\ f.parent[f.child[y][n]] = n
    <3>1. B(n) \in N /\ f.child[y][n] = F(h.child[y][B(n)])
      BY <1>1, <1>2
    <3>2. h.child[y][B(n)] \in N /\ h.parent[h.child[y][B(n)]] = B(n)
      BY <1>1, <1>5, <2>1, <3>1
    <3>. QED
      BY <1>1, <1>2, <3>1, <3>2
  <2>. QED
    BY <2>1 DEF ChildLinks
<1>12. ParentLinks(f, M)
  <2>1. ASSUME NEW n \in M, f.parent[n] # NoItem
        PROVE  f.parent[n] \in M /\ \E y \in Sides : f.child[y][f.parent[n]] = n
    <3>1. B(n) \in N /\ f.parent[n] = F(h.parent[B(n)])
      BY <1>1, <1>2
    <3>2. h.parent[B(n)] # NoItem
      BY <1>1, <2>1, <3>1
    <3>3. h.parent[B(n)] \in N /\ \E y \in Sides : h.child[y][h.parent[B(n)]] = B(n)
      BY <3>1, <3>2, ShapeApart
    <3>4. PICK y \in Sides : h.child[y][h.parent[B(n)]] = B(n)
      BY <3>3
    <3>5. f.parent[n] \in M /\ B(f.parent[n]) = h.parent[B(n)]
      BY <1>1, <3>1, <3>3
    <3>6. f.child[y][f.parent[n]] = F(B(n))
      BY <1>2, <3>4, <3>5
    <3>7. F(B(n)) = n
      BY <1>1
    <3>. QED
      BY <3>5, <3>6, <3>7
  <2>. QED
    BY <2>1 DEF ParentLinks
<1>13. Outside(f, M)
  BY <1>2 DEF Outside
<1>14. OneRoot(f, M)
  <2>1. ASSUME NEW a \in M, NEW b \in M, f.parent[a] = NoItem, f.parent[b] = NoItem PROVE a = b
    <3>0. B(a) \in N /\ B(b) \in N /\ F(B(a)) = a /\ F(B(b)) = b
      BY <1>1
    <3>1. ASSUME NEW n \in M, f.parent[n] = NoItem PROVE h.parent[B(n)] = NoItem
      <4>1. B(n) \in N /\ f.parent[n] = F(h.parent[B(n)])
        BY <1>1, <1>2
      <4>2. h.parent[B(n)] = NoItem \/ h.parent[B(n)] \in N
        BY <4>1, ShapeApart
      <4>. QED
        BY <1>0, <1>1, <3>1, <4>1, <4>2
    <3>2. h.parent[B(a)] = NoItem /\ h.parent[B(b)] = NoItem
      BY <2>1, <3>1
    <3>3. B(a) = B(b)
      BY <3>0, <3>2 DEF Shaped, OneRoot
    <3>. QED
      BY <3>0, <3>3
  <2>. QED
    BY <2>1 DEF OneRoot
<1>15. M \subseteq Values /\ E \in [Values -> SUBSET M]
  BY <1>0, <1>3
<1>16. Shaped(f, M, E)
  BY <1>9, <1>10, <1>11, <1>12, <1>13, <1>14, <1>15 DEF Shaped
<1>. QED
  BY <1>16 DEF M

LEMMA RenamedSums ==
  ASSUME NEW h \in Trees, NEW N, NEW D, Shaped(h, N, D), NEW t \in N, NEW r \in Values \ N,
         NEW f, Renamed(h, f, N, t, r)
  PROVE  /\ \A q \in N : ExactBut(h, N, {q}) => ExactBut(f, Swap(N, t, r), {Stands(t, r, q)})
         /\ TreeCounted(h, N) => TreeCounted(f, Swap(N, t, r))
<1>a. N \subseteq Values
  BY DEF Shaped
<1>b. MovesBack(N, t, r)
  BY <1>a, MovedFacts
<1>. DEFINE M == Swap(N, t, r)
            B(x) == Stands(r, t, x)
            F(x) == Stands(t, r, x)
<1>0. /\ N \subseteq Values /\ NoItem \notin N /\ NoItem \notin M /\ L \in Sides /\ R \in Sides /\ f \in Trees
  BY HistogramTreeAssumption DEF Shaped, Sides, Swap, Renamed
<1>1. /\ \A x \in N : F(x) \in M /\ B(F(x)) = x
      /\ \A x \in M : B(x) \in N /\ F(B(x)) = x
      /\ F(NoItem) = NoItem
  BY <1>b DEF MovesBack
<1>2. /\ \A x \in M : f.height[x] = h.height[B(x)] /\ f.count[x] = h.count[B(x)] /\ f.dup[x] = h.dup[B(x)]
      /\ \A x \in M, y \in Sides : f.child[y][x] = F(h.child[y][B(x)])
  BY DEF Renamed
<1>. HIDE DEF M, B, F
<1>3. ASSUME NEW n \in M, NEW y \in Sides
      PROVE  /\ HeightOf(f, f.child[y][n]) = HeightOf(h, h.child[y][B(n)])
             /\ CountOf(f, f.child[y][n]) = CountOf(h, h.child[y][B(n)])
  <2>0. B(n) \in N /\ f.child[y][n] = F(h.child[y][B(n)])
    BY <1>1, <1>2
  <2>1. CASE h.child[y][B(n)] = NoItem
    BY <1>1, <2>0, <2>1 DEF HeightOf, CountOf
  <2>2. CASE h.child[y][B(n)] # NoItem
    <3>1. h.child[y][B(n)] \in N
      BY <2>0, <2>2, ShapeFacts
    <3>2. f.child[y][n] \in M /\ B(f.child[y][n]) = h.child[y][B(n)]
      BY <1>1, <2>0, <3>1
    <3>. QED
      BY <1>0, <1>2, <2>2, <3>2 DEF HeightOf, CountOf
  <2>. QED
    BY <2>1, <2>2
<1>4. ASSUME NEW q \in N, ExactBut(h, N, {q}) PROVE ExactBut(f, M, {F(q)})
  <2>1. ASSUME NEW n \in M, n # F(q) PROVE f.height[n] = HeightHere(f, n)
    <3>1. B(n) \in N /\ B(n) # q
      BY <1>1, <2>1
    <3>2. h.height[B(n)] = HeightHere(h, B(n))
      BY <1>4, <3>1 DEF ExactBut
    <3>3. HeightHere(f, n) = HeightHere(h, B(n))
      BY <1>0, <1>3 DEF HeightHere
    <3>. QED
      BY <1>2, <3>2, <3>3
  <2>. QED
    BY <2>1 DEF ExactBut
<1>5. ASSUME TreeCounted(h, N) PROVE TreeCounted(f, M)
  <2>1. ASSUME NEW n \in M
        PROVE  f.count[n] = f.dup[n] + CountOf(f, f.child[L][n]) + CountOf(f, f.child[R][n])
    <3>1. B(n) \in N
      BY <1>1
    <3>2. h.count[B(n)] = h.dup[B(n)] + CountOf(h, h.child[L][B(n)]) + CountOf(h, h.child[R][B(n)])
      BY <1>5, <3>1 DEF TreeCounted
    <3>. QED
      BY <1>0, <1>2, <1>3, <3>2
  <2>. QED
    BY <2>1 DEF TreeCounted
<1>. QED
  BY <1>4, <1>5 DEF M, F

(* The last node on side s below c.                                        *)
FarDown(h, D, c, s, z) ==
  /\ z \in D[c] /\ h.child[s][z] = NoItem
  /\ \A x \in D[c] \ {z} : Towards(z, x) = s

LEMMA FarDownStep ==
  ASSUME NEW h \in Trees, NEW N, NEW D, Shaped(h, N, D), NEW n \in N, NEW s \in Sides,
         NEW c, c = h.child[s][n], c # NoItem, NEW z, FarDown(h, D, c, s, z)
  PROVE  FarDown(h, D, n, s, z)
<1>1. /\ N \subseteq Values /\ n \in Values /\ c \in N /\ z \in D[c] /\ D[c] \subseteq D[n]
      /\ D[n] \subseteq N
  <2>1. h.child[s][n] \in N /\ D[h.child[s][n]] \subseteq D[n] /\ n \in Values /\ D[n] \subseteq N
    BY ShapeFacts
  <2>. QED
    BY <2>1 DEF FarDown, Shaped
<1>2. Other(s) \in Sides /\ Other(Other(s)) = s
  BY TwoSides
<1>3. Below(D, c) = D[c] /\ z \in Values
  BY <1>1 DEF Below
<1>4. D[n] = {n} \cup D[c] \cup Below(D, h.child[Other(s)][n])
  BY <1>3, ShapeFacts
<1>5. z # n /\ Towards(z, n) = s
  BY <1>1, <1>3, ShapeApart
<1>6. ASSUME NEW x \in D[n], x # z PROVE Towards(z, x) = s
  <2>0. x \in Values
    BY <1>1
  <2>1. CASE x = n
    BY <1>5, <2>1
  <2>2. CASE x \in D[c]
    BY <1>6, <2>2 DEF FarDown
  <2>3. CASE x \in Below(D, h.child[Other(s)][n])
    <3>1. x # n /\ Towards(x, n) = Other(s)
      BY <1>2, <2>3, ShapeApart
    <3>2. Towards(n, x) = s
      BY <1>1, <1>2, <2>0, <3>1, OtherSide
    <3>. QED
      BY <1>1, <1>3, <1>5, <2>0, <3>1, <3>2, SameSide
  <2>. QED
    BY <1>4, <2>1, <2>2, <2>3
<1>. QED
  BY <1>1, <1>6 DEF FarDown

LEMMA ExtremeFacts ==
  ASSUME NEW h \in Trees, NEW N, NEW D, Shaped(h, N, D), IsFiniteSet(N), NEW t \in N, NEW s \in Sides
  PROVE  FarDown(h, D, t, s, Extreme(h, t, s))
<1>. DEFINE K == Cardinality(N)
            mu == [n \in Values |-> IF n \in N THEN Cardinality(D[n]) ELSE 0]
            Ends(n) == h.child[s][n] = NoItem
            G == [f \in [Values -> Values] |->
                    [n \in Values |-> IF Ends(n) THEN n ELSE f[h.child[s][n]]]]
            Solution(f) == f = [c \in Values |-> IF h.child[s][c] = NoItem THEN c ELSE f[h.child[s][c]]]
            far == CHOOSE f : Solution(f)
<1>1. K \in Nat /\ N \subseteq Values /\ NoItem \notin Values
  BY FS_CardinalityType, HistogramTreeAssumption DEF Shaped
<1>3. ASSUME NEW n \in Values, ~ Ends(n)
      PROVE  n \in N /\ h.child[s][n] \in N /\ Cardinality(D[h.child[s][n]]) < Cardinality(D[n])
  <2>1. n \in N
    BY <1>3 DEF Shaped, Outside
  <2>2. h.child[s][n] \in N
    BY <1>3, <2>1, ShapeFacts
  <2>3. Cardinality(D[h.child[s][n]]) < Cardinality(D[n])
    BY <1>3, <2>1, SmallerBelow
  <2>. QED
    BY <2>1, <2>2, <2>3
<1>4. \A n \in N : Cardinality(D[n]) \in 0 .. K
  BY SmallerBelow
<1>5. \E f : Solution(f)
  <2>1. mu \in [Values -> 0 .. K]
    BY <1>1, <1>4
  <2>2. G \in [[Values -> Values] -> [Values -> Values]]
    <3>1. ASSUME NEW f \in [Values -> Values], NEW n \in Values
          PROVE  (IF Ends(n) THEN n ELSE f[h.child[s][n]]) \in Values
      BY <1>1, <1>3
    <3>. HIDE DEF Ends
    <3>. QED
      BY <3>1
  <2>3. \A f, g \in [Values -> Values], x \in Values :
          (\A y \in Values : mu[y] < mu[x] => f[y] = g[y]) => G[f][x] = G[g][x]
    <3>. SUFFICES ASSUME NEW f \in [Values -> Values], NEW g \in [Values -> Values], NEW x \in Values,
                         \A y \in Values : mu[y] < mu[x] => f[y] = g[y]
                  PROVE  G[f][x] = G[g][x]
      OBVIOUS
    <3>1. CASE Ends(x)
      <4>. HIDE DEF Ends
      <4>. QED
        BY <3>1
    <3>2. CASE ~ Ends(x)
      <4>. DEFINE c == h.child[s][x]
      <4>1. c \in Values /\ mu[c] < mu[x]
        BY <1>1, <1>3, <3>2
      <4>2. f[c] = g[c]
        BY <4>1
      <4>. HIDE DEF Ends
      <4>. QED
        BY <3>2, <4>2
    <3>. QED
      BY <3>1, <3>2
  <2>4. Unfolds(G, mu, Values, Values, K)
    <3>. HIDE DEF G, mu, K
    <3>. QED
      BY <2>1, <2>2, <2>3 DEF Unfolds
  <2>. HIDE DEF mu, K
  <2>5. \E f : FixedBy(f, G, Values, Values)
    <3>. HIDE DEF G
    <3>0. t \in Values
      BY <1>1
    <3>. QED
      BY <1>1, <2>4, <3>0, FixedPoint
  <2>6. PICK f : FixedBy(f, G, Values, Values)
    BY <2>5
  <2>7. f \in [Values -> Values] /\ f = G[f]
    <3>. HIDE DEF G
    <3>. QED
      BY <2>6 DEF FixedBy
  <2>. QED
    BY <2>7
<1>6. Solution(far)
  <2>. HIDE DEF Solution
  <2>. QED
    BY <1>5, Zenon
<1>7. Extreme(h, t, s) = far[t]
  BY Zenon DEF Extreme
<1>. HIDE DEF far, G, mu, K
<1>8. \A n \in Values : far[n] = IF Ends(n) THEN n ELSE far[h.child[s][n]]
  BY <1>6
<1>. HIDE DEF Solution
<1>. DEFINE T == {k \in 0 .. K : \A n \in N : Cardinality(D[n]) <= k => FarDown(h, D, n, s, far[n])}
<1>9. ASSUME NEW n \in N, Ends(n) PROVE FarDown(h, D, n, s, far[n])
  <2>1. far[n] = n
    BY <1>1, <1>8, <1>9
  <2>2. n \in D[n] /\ D[n] \subseteq Values
    BY <1>1, ShapeFacts
  <2>3. D[n] = {n} \cup Below(D, h.child[Other(s)][n])
    <3>1. D[n] = {n} \cup Below(D, h.child[s][n]) \cup Below(D, h.child[Other(s)][n])
      BY ShapeFacts
    <3>2. Below(D, h.child[s][n]) = {}
      BY <1>9 DEF Below
    <3>. QED
      BY <3>1, <3>2
  <2>4. ASSUME NEW x \in D[n], x # n PROVE Towards(n, x) = s
    <3>1. Other(s) \in Sides /\ Other(Other(s)) = s
      BY TwoSides
    <3>2. x \in Below(D, h.child[Other(s)][n])
      BY <2>3, <2>4
    <3>3. Towards(x, n) = Other(s)
      BY <3>1, <3>2, ShapeApart
    <3>. QED
      BY <1>1, <2>2, <2>4, <3>1, <3>3, OtherSide
  <2>. QED
    BY <1>9, <2>1, <2>2, <2>4 DEF FarDown
<1>10. 0 \in T
  <2>1. \A n \in N : Cardinality(D[n]) # 0
    <3>1. \A n \in N : IsFiniteSet(D[n]) /\ n \in D[n]
      BY ShapeFacts, FS_Subset
    <3>. QED
      BY <3>1, FS_EmptySet
  <2>. QED
    BY <1>1, <1>4, <2>1
<1>11. ASSUME NEW k \in 0 .. K - 1, k \in T PROVE k + 1 \in T
  <2>1. ASSUME NEW n \in N, Cardinality(D[n]) <= k + 1
        PROVE  FarDown(h, D, n, s, far[n])
    <3>1. CASE Ends(n)
      BY <1>9, <2>1, <3>1
    <3>2. CASE ~ Ends(n)
      <4>. DEFINE c == h.child[s][n]
      <4>1. n \in Values /\ c \in N /\ Cardinality(D[c]) < Cardinality(D[n])
        BY <1>1, <1>3, <3>2
      <4>2. far[n] = far[c]
        BY <1>8, <3>2, <4>1
      <4>3. c # NoItem
        BY <3>2
      <4>4. c = h.child[s][n]
        OBVIOUS
      <4>. HIDE DEF c
      <4>6. Cardinality(D[c]) <= k
        BY <1>1, <1>4, <2>1, <4>1
      <4>7. FarDown(h, D, c, s, far[c])
        BY <1>11, <4>1, <4>6
      <4>8. FarDown(h, D, n, s, far[c])
        BY <4>3, <4>4, <4>7, FarDownStep
      <4>. QED
        BY <4>2, <4>8
    <3>. QED
      BY <3>1, <3>2
  <2>. HIDE DEF Ends
  <2>. QED
    BY <1>1, <2>1
<1>12. 0 .. K \subseteq T
  <2>. HIDE DEF T
  <2>. QED
    BY <1>1, <1>10, <1>11, InductionUpTo
<1>14. K \in T /\ Cardinality(D[t]) <= K
  BY <1>1, <1>4, <1>12
<1>. QED
  BY <1>7, <1>14

(* A neighbor is next to the node.                                         *)
LEMMA NeighborNextTo ==
  ASSUME NEW N, N \subseteq Values, NEW t \in N, NEW s \in Sides, NEW r, r # NoItem, Neighbor(N, t, s, r)
  PROVE  NextTo(N \ {r}, t, r)
<1>1. /\ r \in N /\ r # t /\ Towards(r, t) = s
      /\ \A x \in N : x # t /\ x # r /\ Towards(x, t) = s => Towards(x, r) = s
  BY DEF Neighbor
<1>2. ASSUME NEW x \in N, x # t, x # r PROVE Towards(r, x) = Towards(t, x)
  <2>0. x \in Values /\ t \in Values /\ r \in Values
    BY <1>1
  <2>1. Sides = {s, Other(s)} /\ Other(Other(s)) = s
    BY TwoSides
  <2>2. Towards(x, t) \in Sides /\ Towards(t, x) = Other(Towards(x, t))
    BY <1>2, <2>0, OtherSide
  <2>3. CASE Towards(x, t) = s
    <3>1. Towards(x, r) = s
      BY <1>1, <1>2, <2>3
    <3>2. Towards(r, x) = Other(s)
      BY <1>2, <2>0, <3>1, OtherSide
    <3>. QED
      BY <2>2, <2>3, <3>2
  <2>4. CASE Towards(x, t) = Other(s)
    <3>1. Towards(t, x) = s
      BY <2>1, <2>2, <2>4
    <3>2. Towards(r, x) = s
      BY <1>1, <1>2, <2>0, <3>1, SameSide
    <3>. QED
      BY <3>1, <3>2
  <2>. QED
    BY <2>1, <2>2, <2>3, <2>4
<1>. QED
  BY <1>1, <1>2 DEF NextTo

(* The last node on the other side below a child is the node's neighbor.   *)
Nearest(h, N, D, t, s, r) ==
  /\ r \in N /\ r # t /\ r \in D[h.child[s][t]] /\ h.child[Other(s)][r] = NoItem
  /\ h.next[s][t] = r /\ NextTo(N \ {r}, t, r)

LEMMA NearestFacts ==
  ASSUME NEW h \in Trees, NEW N, NEW D, SearchTree(h, N, D), NEW t \in N, NEW s \in Sides,
         h.child[s][t] # NoItem
  PROVE  Nearest(h, N, D, t, s, Extreme(h, h.child[s][t], Other(s)))
<1>. DEFINE o == Other(s)
            c == h.child[s][t]
            r == Extreme(h, c, o)
<1>0. /\ Shaped(h, N, D) /\ IsFiniteSet(N) /\ Rooted(h, N) /\ Linked(h, N) /\ N \subseteq Values
      /\ NoItem \notin Values
  BY HistogramTreeAssumption DEF SearchTree, Shaped
<1>1. o \in Sides /\ o # s /\ Other(o) = s /\ Sides = {s, o}
  BY TwoSides
<1>2. c \in N /\ D[c] \subseteq N /\ D[c] \subseteq D[t] /\ t \notin D[c] /\ Below(D, c) = D[c]
  <2>1. c \in N /\ D[c] \subseteq D[t] /\ t \notin D[c] /\ D[t] \subseteq N
    BY <1>0, ShapeFacts
  <2>. QED
    BY <2>1, <1>0 DEF Below
<1>3. FarDown(h, D, c, o, r)
  <2>1. r = Extreme(h, c, o)
    OBVIOUS
  <2>. HIDE DEF c, o, r
  <2>2. FarDown(h, D, c, o, Extreme(h, c, o))
    BY <1>0, <1>1, <1>2, ExtremeFacts
  <2>. QED
    BY <2>1, <2>2
<1>. HIDE DEF r
<1>4. /\ r \in D[c] /\ r \in N /\ r # t /\ r # NoItem /\ h.child[o][r] = NoItem
      /\ \A x \in D[c] \ {r} : Towards(r, x) = o
  BY <1>0, <1>2, <1>3 DEF FarDown
<1>5. Towards(r, t) = s
  BY <1>0, <1>2, <1>4, ShapeApart
<1>6. InRange(N, D, t, t)
  BY <1>0, PlaceOfNode
<1>7. D[t] = {t} \cup D[c] \cup Below(D, h.child[o][t])
  <2>1. D[t] = {t} \cup Below(D, h.child[s][t]) \cup Below(D, h.child[o][t])
    BY <1>0, ShapeFacts
  <2>. QED
    BY <1>2, <2>1
<1>8. ASSUME NEW x \in N, x # t, x # r, Towards(x, t) = s PROVE Towards(x, r) = s
  <2>0. x \in Values /\ t \in Values /\ r \in Values
    BY <1>0, <1>4
  <2>1. Towards(r, x) = o
    <3>1. CASE x \notin D[t]
      <4>1. r \in D[t] /\ t \in D[t]
        BY <1>2, <1>4, <1>7
      <4>2. Towards(r, x) = Towards(t, x)
        BY <1>6, <3>1, <4>1 DEF InRange
      <4>3. Towards(t, x) = Other(Towards(x, t))
        BY <1>8, <2>0, OtherSide
      <4>. QED
        BY <1>8, <4>2, <4>3
    <3>2. CASE x \in D[t]
      <4>1. x \notin Below(D, h.child[o][t])
        BY <1>0, <1>1, <1>8, ShapeApart
      <4>2. x \in D[c]
        BY <1>7, <1>8, <3>2, <4>1
      <4>. QED
        BY <1>4, <1>8, <4>2
    <3>. QED
      BY <3>1, <3>2
  <2>2. Towards(x, r) = Other(Towards(r, x))
    BY <1>8, <2>0, OtherSide
  <2>. QED
    BY <1>1, <2>1, <2>2
<1>9. Neighbor(N, t, s, r)
  BY <1>4, <1>5, <1>8 DEF Neighbor
<1>10. NextTo(N \ {r}, t, r)
  BY <1>0, <1>4, <1>9, NeighborNextTo
<1>11. Neighbor(N, t, s, h.next[s][t])
  BY <1>0 DEF Linked
<1>12. h.next[s][t] = r
  BY <1>0, <1>9, <1>11, OneNeighbor
<1>. QED
  BY <1>4, <1>10, <1>12 DEF Nearest, r

-----------------------------------------------------------------------------
(* A removed node keeps no pointers and no numbers.                        *)
Cleared(h, g, t) ==
  /\ g \in Trees /\ g.root = h.root
  /\ \A y \in Sides, x \in Values : g.child[y][x] = IF x = t THEN NoItem ELSE h.child[y][x]
  /\ \A y \in Sides, x \in Values : g.next[y][x] = IF x = t THEN NoItem ELSE h.next[y][x]
  /\ \A x \in Values : /\ g.parent[x] = IF x = t THEN NoItem ELSE h.parent[x]
                       /\ g.height[x] = IF x = t THEN 0 ELSE h.height[x]
                       /\ g.count[x] = IF x = t THEN 0 ELSE h.count[x]
                       /\ g.dup[x] = IF x = t THEN 0 ELSE h.dup[x]

LEMMA UnlinkedFacts ==
  ASSUME NEW h \in Trees, NEW t \in Values, NEW g, g = Unlinked(h, t)
  PROVE  Cleared(h, g, t)
<1>. DEFINE ga == SetChild(h, L, t, NoItem)
            gb == SetChild(ga, R, t, NoItem)
            gc == SetNext(gb, L, t, NoItem)
            gd == SetNext(gc, R, t, NoItem)
            ge == SetParent(gd, t, NoItem)
            gf == SetHeight(ge, t, 0)
            gg == SetCount(gf, t, 0)
<1>1. g = SetDup(gg, t, 0)
  BY DEF Unlinked
<1>2. L \in Sides /\ R \in Sides /\ L # R /\ Sides = {L, R} /\ 0 \in Nat /\ 0 \in Int
  BY DEF Sides, L, R
<1>d. /\ ga = SetChild(h, L, t, NoItem) /\ gb = SetChild(ga, R, t, NoItem)
      /\ gc = SetNext(gb, L, t, NoItem) /\ gd = SetNext(gc, R, t, NoItem)
      /\ ge = SetParent(gd, t, NoItem) /\ gf = SetHeight(ge, t, 0) /\ gg = SetCount(gf, t, 0)
  OBVIOUS
<1>. HIDE DEF ga, gb, gc, gd, ge, gf, gg
<1>3. ga \in Trees /\ ChildSet(h, ga, L, t, NoItem)
  BY <1>d, <1>2, SetChildFacts
<1>4. gb \in Trees /\ ChildSet(ga, gb, R, t, NoItem)
  BY <1>d, <1>2, <1>3, SetChildFacts
<1>5. gc \in Trees /\ NextSet(gb, gc, L, t, NoItem)
  BY <1>d, <1>2, <1>4, SetNextFacts
<1>6. gd \in Trees /\ NextSet(gc, gd, R, t, NoItem)
  BY <1>d, <1>2, <1>5, SetNextFacts
<1>7. ge \in Trees /\ ParentSet(gd, ge, t, NoItem)
  BY <1>d, <1>6, SetParentFacts
<1>8. gf \in Trees /\ HeightPut(ge, gf, t, 0)
  BY <1>d, <1>2, <1>7, SetHeightFacts
<1>9. gg \in Trees /\ CountSet(gf, gg, t, 0)
  BY <1>d, <1>2, <1>8, SetCountFacts
<1>10. g \in Trees /\ DupSet(gg, g, t, 0)
  BY <1>1, <1>2, <1>9, SetDupFacts
<1>11. /\ g.root = ge.root /\ g.child = ge.child /\ g.parent = ge.parent /\ g.next = ge.next
       /\ \A x \in Values : g.height[x] = IF x = t THEN 0 ELSE ge.height[x]
       /\ \A x \in Values : g.count[x] = IF x = t THEN 0 ELSE ge.count[x]
       /\ \A x \in Values : g.dup[x] = IF x = t THEN 0 ELSE ge.dup[x]
  BY <1>8, <1>9, <1>10 DEF HeightPut, CountSet, DupSet, OnlyHeight, OnlyCount, OnlyDup
<1>12. /\ ge.root = gb.root /\ ge.child = gb.child /\ gd.parent = gb.parent /\ ge.next = gd.next
       /\ ge.height = gb.height /\ ge.count = gb.count /\ ge.dup = gb.dup
  BY <1>5, <1>6, <1>7 DEF NextSet, OnlyNext, ParentSet, OnlyParent
<1>13. /\ gb.root = h.root /\ gb.parent = h.parent /\ gb.next = h.next
       /\ gb.height = h.height /\ gb.count = h.count /\ gb.dup = h.dup
  BY <1>3, <1>4 DEF ChildSet, OnlyChild
<1>14. \A y \in Sides, x \in Values : g.child[y][x] = IF x = t THEN NoItem ELSE h.child[y][x]
  BY <1>2, <1>3, <1>4, <1>11, <1>12 DEF ChildSet
<1>15. \A y \in Sides, x \in Values : g.next[y][x] = IF x = t THEN NoItem ELSE h.next[y][x]
  BY <1>2, <1>5, <1>6, <1>11, <1>12, <1>13 DEF NextSet
<1>16. \A x \in Values : g.parent[x] = IF x = t THEN NoItem ELSE h.parent[x]
  BY <1>7, <1>11, <1>12, <1>13 DEF ParentSet
<1>. QED
  BY <1>10, <1>11, <1>12, <1>13, <1>14, <1>15, <1>16 DEF Cleared

(* The tree with other duplications of t, as a step.                       *)
LEMMA ReweighedStep ==
  ASSUME NEW h \in Trees, NEW N, NEW D, Shaped(h, N, D), IsFiniteSet(N), NEW t \in N, NEW k \in Nat
  PROVE  \E g : Reweighed(h, g, N, D, t, k)
<1>. DEFINE d == k - h.dup[t]
            h1 == SetDup(h, t, k)
            a == ToSet(Path(h, t))
            g == AddCount(h1, a, d)
<1>1. t \in Values
  BY DEF Shaped
<1>2. d \in Int /\ d = k - h.dup[t]
  BY <1>1, TreeFields
<1>3. h1 = SetDup(h, t, k) /\ a = ToSet(Path(h, t)) /\ g = AddCount(h1, a, d)
  OBVIOUS
<1>. HIDE DEF d, h1, a, g
<1>4. h1 \in Trees /\ DupSet(h, h1, t, k)
  BY <1>1, <1>3, SetDupFacts
<1>5. \A x \in N : x \in a <=> t \in D[x]
  BY <1>3, PathAncestors
<1>6. g \in Trees /\ CountsAdded(h1, g, a, d)
  BY <1>2, <1>3, <1>4, AddCountFacts
<1>7. N \subseteq Values
  BY DEF Shaped
<1>8. Reweighed(h, g, N, D, t, k)
  BY <1>2, <1>4, <1>5, <1>6, <1>7 DEF Reweighed, DupSet, OnlyDup, CountsAdded, OnlyCount
<1>. QED
  BY <1>8

(* The ancestors of t are t and the nodes on its parent's path.            *)
LEMMA ParentPath ==
  ASSUME NEW h \in Trees, NEW N, NEW D, Shaped(h, N, D), IsFiniteSet(N), NEW t \in N
  PROVE  \A x \in N : x \in ToSet(Path(h, h.parent[t])) <=> x # t /\ t \in D[x]
<1>0. t \in D[t]
  BY ShapeFacts
<1>1. CASE h.parent[t] = NoItem
  <2>1. Path(h, h.parent[t]) = <<>>
    BY <1>1, PathStep
  <2>2. ToSet(<<>>) = {}
    BY DEF ToSet
  <2>3. Anc(N, D, t) = {t}
    BY <1>1, Ancestors
  <2>. QED
    BY <1>0, <2>1, <2>2, <2>3 DEF Anc
<1>2. CASE h.parent[t] # NoItem
  <2>1. h.parent[t] \in N
    BY <1>2, ShapeApart
  <2>2. \A x \in N : x \in ToSet(Path(h, h.parent[t])) <=> h.parent[t] \in D[x]
    BY <2>1, PathAncestors
  <2>3. /\ Anc(N, D, t) = {t} \cup Anc(N, D, h.parent[t])
        /\ \A m \in Anc(N, D, h.parent[t]) : m \notin D[t]
    BY <1>2, Ancestors
  <2>4. \A x \in N : h.parent[t] \in D[x] <=> x # t /\ t \in D[x]
    BY <1>0, <2>3 DEF Anc
  <2>. QED
    BY <2>2, <2>4
<1>. QED
  BY <1>1, <1>2

(* A node with one sample leaves the tree.                                 *)
Deleted(h, f, N, t, E) ==
  /\ SearchTree(f, N \ {t}, E) /\ (TreeCounted(h, N) => TreeCounted(f, N \ {t}))
  /\ \A x \in Values : f.dup[x] = IF x = t THEN 0 ELSE h.dup[x]

(* What DeleteLeaf does before the heights are updated; a are the nodes    *)
(* whose counts change.                                                    *)
LeafOut(h, u, t, a) ==
  /\ u \in Trees
  /\ \A y \in Sides, x \in Values :
       /\ u.child[y][x] = IF x = t THEN NoItem
                          ELSE IF x = h.parent[t] /\ h.child[y][x] = t THEN NoItem ELSE h.child[y][x]
       /\ u.next[y][x] = IF x = t THEN NoItem
                         ELSE IF y = R /\ x = h.next[L][t] THEN h.next[R][t]
                         ELSE IF y = L /\ x = h.next[R][t] THEN h.next[L][t] ELSE h.next[y][x]
  /\ \A x \in Values :
       /\ u.parent[x] = IF x = t THEN NoItem ELSE h.parent[x]
       /\ u.height[x] = IF x = t THEN 0 ELSE h.height[x]
       /\ u.count[x] = IF x = t THEN 0 ELSE h.count[x] + IF x \in a THEN -h.dup[t] ELSE 0
       /\ u.dup[x] = IF x = t THEN 0 ELSE h.dup[x]

LEMMA LeafCombined ==
  ASSUME NEW h, NEW t, NEW a, NEW ga, NEW h1, NEW gb, NEW h2, NEW u,
         NextSet(h, ga, L, h.next[R][t], h.next[L][t]),
         NextSet(ga, h1, R, h.next[L][t], h.next[R][t]),
         ChildReplaced(h1, gb, t, NoItem), CountsAdded(gb, h2, a, -h.dup[t]), Cleared(h2, u, t)
  PROVE  LeafOut(h, u, t, a)
<1>0. L \in Sides /\ R \in Sides /\ L # R /\ Sides = {L, R}
  BY DEF Sides, L, R
<1>10. /\ u \in Trees
       /\ \A y \in Sides, x \in Values : u.child[y][x] = IF x = t THEN NoItem ELSE h2.child[y][x]
       /\ \A y \in Sides, x \in Values : u.next[y][x] = IF x = t THEN NoItem ELSE h2.next[y][x]
       /\ \A x \in Values : /\ u.parent[x] = IF x = t THEN NoItem ELSE h2.parent[x]
                            /\ u.height[x] = IF x = t THEN 0 ELSE h2.height[x]
                            /\ u.count[x] = IF x = t THEN 0 ELSE h2.count[x]
                            /\ u.dup[x] = IF x = t THEN 0 ELSE h2.dup[x]
  BY DEF Cleared
<1>11. /\ h2.child = gb.child /\ h2.next = h1.next /\ h2.parent = h1.parent
       /\ h2.height = h1.height /\ h2.dup = h1.dup /\ gb.count = h1.count
       /\ \A x \in Values : h2.count[x] = gb.count[x] + IF x \in a THEN -h.dup[t] ELSE 0
  BY DEF CountsAdded, OnlyCount, ChildReplaced, OnlyChild
<1>12. /\ h1.child = h.child /\ h1.parent = h.parent /\ h1.height = h.height /\ h1.count = h.count
       /\ h1.dup = h.dup
  BY DEF NextSet, OnlyNext
<1>13. \A y \in Sides, x \in Values :
         u.child[y][x] = IF x = t THEN NoItem
                         ELSE IF x = h.parent[t] /\ h.child[y][x] = t THEN NoItem ELSE h.child[y][x]
  BY <1>10, <1>11, <1>12 DEF ChildReplaced
<1>14. \A y \in Sides, x \in Values :
         /\ h1.next[y][x] = IF y = R /\ x = h.next[L][t] THEN h.next[R][t] ELSE ga.next[y][x]
         /\ ga.next[y][x] = IF y = L /\ x = h.next[R][t] THEN h.next[L][t] ELSE h.next[y][x]
  BY DEF NextSet
<1>15. \A y \in Sides, x \in Values :
         u.next[y][x] = IF x = t THEN NoItem
                        ELSE IF y = R /\ x = h.next[L][t] THEN h.next[R][t]
                        ELSE IF y = L /\ x = h.next[R][t] THEN h.next[L][t] ELSE h.next[y][x]
  BY <1>10, <1>11, <1>14
<1>16. \A x \in Values :
         u.count[x] = IF x = t THEN 0 ELSE h.count[x] + IF x \in a THEN -h.dup[t] ELSE 0
  BY <1>10, <1>11, <1>12
<1>. QED
  BY <1>10, <1>11, <1>12, <1>13, <1>15, <1>16 DEF LeafOut

LEMMA LeafFields ==
  ASSUME NEW h \in Trees, NEW t \in Values, NEW a,
         NEW ga, ga = SetNext(h, L, h.next[R][t], h.next[L][t]),
         NEW h1, h1 = SetNext(ga, R, h.next[L][t], h.next[R][t]),
         NEW gb, gb = ReplaceChild(h1, t, NoItem),
         NEW h2, h2 = AddCount(gb, a, -h.dup[t]),
         NEW u, u = Unlinked(h2, t)
  PROVE  LeafOut(h, u, t, a)
<1>0. L \in Sides /\ R \in Sides /\ L # R /\ Sides = {L, R}
  BY DEF Sides, L, R
<1>1. h.next[L][t] \in Values \cup {NoItem} /\ h.next[R][t] \in Values \cup {NoItem} /\ -h.dup[t] \in Int
  BY <1>0, TreeFields
<1>2. ga \in Trees /\ NextSet(h, ga, L, h.next[R][t], h.next[L][t])
  BY <1>0, <1>1, SetNextFacts
<1>5. h1 \in Trees /\ NextSet(ga, h1, R, h.next[L][t], h.next[R][t])
  BY <1>0, <1>1, <1>2, SetNextFacts
<1>6. gb \in Trees /\ ChildReplaced(h1, gb, t, NoItem)
  BY <1>5, ReplaceChildFacts
<1>8. h2 \in Trees /\ CountsAdded(gb, h2, a, -h.dup[t])
  BY <1>1, <1>6, AddCountFacts
<1>9. Cleared(h2, u, t)
  BY <1>8, UnlinkedFacts
<1>. QED
  BY <1>0, <1>1, <1>2, <1>5, <1>6, <1>8, <1>9, LeafCombined

(* A leaf that is unlinked was spliced out.                                *)
LEMMA LeafSpliced ==
  ASSUME NEW h, NEW N, NEW D, SearchTree(h, N, D), NEW t \in N,
         NEW h0, Reweighed(h, h0, N, D, t, 0),
         NEW u, LeafOut(h, u, t, ToSet(Path(h, h.parent[t])))
  PROVE  /\ Spliced(h0, u, N, t, NoItem)
         /\ \A x \in Values : u.dup[x] = IF x = t THEN 0 ELSE h.dup[x]
<1>. DEFINE a == ToSet(Path(h, h.parent[t]))
<1>0. /\ h \in Trees /\ N \subseteq Values /\ Shaped(h, N, D) /\ IsFiniteSet(N) /\ Linked(h, N)
      /\ t \in Values /\ t # NoItem /\ NoItem \notin Values
      /\ L \in Sides /\ R \in Sides /\ L # R /\ Sides = {L, R} /\ Other(L) = R /\ Other(R) = L
  BY HistogramTreeAssumption DEF SearchTree, Shaped, Sides, L, R, Other
<1>1. h.dup[t] \in Nat
  BY <1>0, TreeFields
<1>4. \A x \in N : x \in a <=> x # t /\ t \in D[x]
  BY <1>0, ParentPath
<1>. HIDE DEF a
<1>10. /\ u \in Trees
       /\ \A y \in Sides, x \in Values :
            u.child[y][x] = IF x = t THEN NoItem
                            ELSE IF x = h.parent[t] /\ h.child[y][x] = t THEN NoItem ELSE h.child[y][x]
       /\ \A y \in Sides, x \in Values :
            u.next[y][x] = IF x = t THEN NoItem
                           ELSE IF y = R /\ x = h.next[L][t] THEN h.next[R][t]
                           ELSE IF y = L /\ x = h.next[R][t] THEN h.next[L][t] ELSE h.next[y][x]
       /\ \A x \in Values :
            /\ u.parent[x] = IF x = t THEN NoItem ELSE h.parent[x]
            /\ u.height[x] = IF x = t THEN 0 ELSE h.height[x]
            /\ u.count[x] = IF x = t THEN 0 ELSE h.count[x] + IF x \in a THEN -h.dup[t] ELSE 0
            /\ u.dup[x] = IF x = t THEN 0 ELSE h.dup[x]
  BY DEF LeafOut, a
<1>13. /\ h0.child = h.child /\ h0.parent = h.parent /\ h0.next = h.next /\ h0.height = h.height
       /\ \A x \in Values : h0.dup[x] = IF x = t THEN 0 ELSE h.dup[x]
       /\ \A x \in N : h0.count[x] = h.count[x] + IF t \in D[x] THEN 0 - h.dup[t] ELSE 0
  BY DEF Reweighed
<1>14. \A y \in Sides, x \in Values :
         u.child[y][x] = IF x = t THEN NoItem ELSE IF h0.child[y][x] = t THEN NoItem ELSE h0.child[y][x]
  <2>2. ASSUME NEW y \in Sides, NEW x \in Values, h.child[y][x] = t PROVE x = h.parent[t]
    <3>1. x \in N
      BY <1>0, <2>2 DEF Shaped, Outside
    <3>. QED
      BY <1>0, <2>2, <3>1, ShapeFacts
  <2>. QED
    BY <1>10, <1>13, <2>2
<1>15. \A x \in Values :
         u.parent[x] = IF x = t THEN NoItem ELSE IF x = NoItem THEN h0.parent[t] ELSE h0.parent[x]
  BY <1>0, <1>10, <1>13
<1>16. ASSUME NEW y \in Sides, NEW x \in N \ {t}
       PROVE  u.next[y][x] = IF h0.next[y][x] = t THEN h0.next[y][t] ELSE h0.next[y][x]
  <2>1. x \in Values /\ x # t
    BY <1>0
  <2>3. h.next[y][x] = t <=> h.next[Other(y)][t] = x
    BY <1>0, LinkBack
  <2>4. CASE y = L
    BY <1>0, <1>10, <1>13, <2>1, <2>3, <2>4
  <2>5. CASE y = R
    BY <1>0, <1>10, <1>13, <2>1, <2>3, <2>5
  <2>. QED
    BY <1>0, <2>4, <2>5
<1>17. ASSUME NEW x \in N \ {t}
       PROVE  u.height[x] = h0.height[x] /\ u.count[x] = h0.count[x] /\ u.dup[x] = h0.dup[x]
  <2>1. x \in Values
    BY <1>0
  <2>2. u.height[x] = h0.height[x] /\ u.dup[x] = h0.dup[x]
    BY <1>10, <1>13, <2>1
  <2>3. u.count[x] = h.count[x] + IF x \in a THEN -h.dup[t] ELSE 0
    BY <1>10, <2>1
  <2>4. h.count[x] \in Int
    BY <1>0, <2>1, TreeFields
  <2>5. u.count[x] = h0.count[x]
    BY <1>1, <1>4, <1>13, <2>3, <2>4
  <2>. QED
    BY <2>2, <2>5
<1>18. Spliced(h0, u, N, t, NoItem)
  BY <1>10, <1>14, <1>15, <1>16, <1>17 DEF Spliced
<1>. QED
  BY <1>10, <1>18

LEMMA DeleteLeafKeeps ==
  ASSUME NEW h, NEW N, NEW D, SearchTree(h, N, D), NEW t \in N, h.child[L][t] = NoItem, h.child[R][t] = NoItem,
         h.parent[t] # NoItem, NEW f, f = DeleteLeaf(h, t)
  PROVE  \E E : Deleted(h, f, N, t, E)
<1>. DEFINE a == ToSet(Path(h, h.parent[t]))
            ga == SetNext(h, L, h.next[R][t], h.next[L][t])
            h1 == SetNext(ga, R, h.next[L][t], h.next[R][t])
            gb == ReplaceChild(h1, t, NoItem)
            h2 == AddCount(gb, a, -h.dup[t])
            u == Unlinked(h2, t)
            q == h.parent[t]
            M == N \ {t}
            F == WithoutNode(D, t)
<1>0. /\ h \in Trees /\ N \subseteq Values /\ Shaped(h, N, D) /\ IsFiniteSet(N) /\ Linked(h, N)
      /\ ExactBut(h, N, {}) /\ \A x \in Values : h.dup[x] > 0 <=> x \in N
  BY DEF SearchTree, Shaped
<1>1. f = UpdateHeight(u, q, FALSE)
  BY Zenon DEF DeleteLeaf
<1>2. PICK h0 : Reweighed(h, h0, N, D, t, 0)
  BY <1>0, ReweighedStep
<1>3. /\ Spliced(h0, u, N, t, NoItem)
      /\ \A x \in Values : u.dup[x] = IF x = t THEN 0 ELSE h.dup[x]
  <2>1. /\ ga = SetNext(h, L, h.next[R][t], h.next[L][t])
        /\ h1 = SetNext(ga, R, h.next[L][t], h.next[R][t])
        /\ gb = ReplaceChild(h1, t, NoItem) /\ h2 = AddCount(gb, a, -h.dup[t]) /\ u = Unlinked(h2, t)
        /\ a = ToSet(Path(h, h.parent[t])) /\ t \in Values
    BY <1>0
  <2>. HIDE DEF ga, h1, gb, h2, u, a
  <2>2. LeafOut(h, u, t, a)
    BY <1>0, <2>1, LeafFields
  <2>3. LeafOut(h, u, t, ToSet(Path(h, h.parent[t])))
    BY <2>1, <2>2
  <2>. QED
    BY <1>2, <2>3, LeafSpliced
<1>4. q \in M
  BY <1>0, ShapeApart
<1>5. q = h.parent[t] /\ F = WithoutNode(D, t) /\ IsFiniteSet(M)
  BY <1>0, FS_Subset
<1>. HIDE DEF ga, h1, gb, h2, a, u, q, F
<1>6. /\ h0 \in Trees /\ h0.child = h.child /\ h0.parent = h.parent /\ h0.next = h.next
      /\ h0.height = h.height /\ h0.dup[t] = 0
  BY <1>0, <1>2 DEF Reweighed
<1>7. Shaped(h0, N, D)
  BY <1>0, <1>6, SameShape
<1>8. OnlyChildOf(h0, t, NoItem)
  BY <1>6 DEF OnlyChildOf, Sides, L, R, Other
<1>9. h0.parent[t] = q /\ q # NoItem
  BY <1>5, <1>6
<1>10. Shaped(u, M, F)
  BY <1>3, <1>5, <1>6, <1>7, <1>8, <1>9, SplicedShape
<1>11. ExactBut(h0, N, {})
  BY <1>0, <1>6 DEF ExactBut, HeightHere, HeightOf
<1>12. TreeCounted(h, N) => TreeCounted(h0, N)
  BY <1>0, <1>2, ReweighedCounts
<1>13. /\ ExactBut(h0, N, {}) => ExactBut(u, M, {h0.parent[t]})
       /\ TreeCounted(h0, N) /\ h0.dup[t] = 0 => TreeCounted(u, M)
  BY <1>3, <1>6, <1>7, <1>8, <1>9, SplicedSums
<1>14. ExactBut(u, M, {q, u.parent[q]})
  BY <1>9, <1>11, <1>13 DEF ExactBut
<1>15. TreeCounted(h, N) => TreeCounted(u, M)
  BY <1>6, <1>12, <1>13
<1>16. Linked(u, M)
  <2>1. Linked(h0, N)
    BY <1>0, <1>6 DEF Linked
  <2>2. \A y \in Sides, x \in N \ {t} :
          u.next[y][x] = IF h0.next[y][x] = t THEN h0.next[y][t] ELSE h0.next[y][x]
    BY <1>3 DEF Spliced
  <2>. QED
    BY <1>0, <2>1, <2>2, LinkedWithout
<1>17. u \in Trees
  BY <1>3 DEF Spliced
<1>18. \A x \in Values : u.dup[x] > 0 <=> x \in M
  BY <1>0, <1>3
<1>19. PICK ins : ins = FALSE
  OBVIOUS
<1>20. f = UpdateHeight(u, q, ins)
  BY <1>1, <1>19, Zenon
<1>. HIDE DEF M
<1>21. PICK E : Rebuilt(u, f, M, E)
  BY <1>4, <1>5, <1>10, <1>14, <1>16, <1>17, <1>18, <1>20, UpdatedTree
<1>22. SearchTree(f, M, E) /\ (TreeCounted(u, M) => TreeCounted(f, M)) /\ f.dup = u.dup
  BY <1>21 DEF Rebuilt
<1>23. Deleted(h, f, N, t, E)
  BY <1>3, <1>15, <1>22 DEF Deleted, M
<1>. QED
  BY <1>23

(* c becomes n's child on side y.                                          *)
Hung(h, g, y, n, c) ==
  /\ g \in Trees /\ g.root = h.root /\ g.next = h.next
  /\ g.height = h.height /\ g.count = h.count /\ g.dup = h.dup
  /\ \A z \in Sides, x \in Values : g.child[z][x] = IF z = y /\ x = n THEN c ELSE h.child[z][x]
  /\ \A x \in Values : g.parent[x] = IF x = c THEN n ELSE h.parent[x]

LEMMA HungFacts ==
  ASSUME NEW h \in Trees, NEW y \in Sides, NEW n \in Values, NEW c \in Values \cup {NoItem},
         NEW g, g = SetParent(SetChild(h, y, n, c), c, n)
  PROVE  g \in Trees /\ Hung(h, g, y, n, c)
<1>. DEFINE k == SetChild(h, y, n, c)
<1>1. k = SetChild(h, y, n, c) /\ g = SetParent(k, c, n)
  OBVIOUS
<1>. HIDE DEF k
<1>2. k \in Trees /\ ChildSet(h, k, y, n, c)
  BY <1>1, SetChildFacts
<1>3. g \in Trees /\ ParentSet(k, g, c, n)
  BY <1>1, <1>2, SetParentFacts
<1>. QED
  BY <1>2, <1>3 DEF Hung, ChildSet, ParentSet, OnlyChild, OnlyParent

(* The same, unless q is t.                                                *)
HangUnless(h, q, t, y, n, c) == IF q # t THEN SetParent(SetChild(h, y, n, c), c, n) ELSE h
HungUnless(h, g, q, t, y, n, c) ==
  /\ g \in Trees /\ g.root = h.root /\ g.next = h.next
  /\ g.height = h.height /\ g.count = h.count /\ g.dup = h.dup
  /\ \A z \in Sides, x \in Values :
       g.child[z][x] = IF q # t /\ z = y /\ x = n THEN c ELSE h.child[z][x]
  /\ \A x \in Values : g.parent[x] = IF q # t /\ x = c THEN n ELSE h.parent[x]

LEMMA HungUnlessFacts ==
  ASSUME NEW h \in Trees, NEW y \in Sides, NEW n \in Values, NEW c \in Values \cup {NoItem},
         NEW q, NEW t, NEW g, g = HangUnless(h, q, t, y, n, c)
  PROVE  g \in Trees /\ HungUnless(h, g, q, t, y, n, c)
<1>1. CASE q = t
  <2>1. g = h
    BY <1>1, Zenon DEF HangUnless
  <2>. QED
    BY <1>1, <2>1 DEF HungUnless
<1>2. CASE q # t
  <2>1. g = SetParent(SetChild(h, y, n, c), c, n)
    BY <1>2, Zenon DEF HangUnless
  <2>2. g \in Trees /\ Hung(h, g, y, n, c)
    BY <2>1, HungFacts
  <2>. QED
    BY <1>2, <2>2 DEF Hung, HungUnless
<1>. QED
  BY <1>1, <1>2

(* What DeleteInner does before the heights are updated.                   *)
InnerOut(h, u, t, s, o, r, q, c, a, b, p, far, between, above) ==
  /\ u \in Trees
  /\ \A y \in Sides, x \in Values :
       /\ u.child[y][x] = IF x = t THEN NoItem
                          ELSE IF q # t /\ y = s /\ x = r THEN a
                          ELSE IF y = o /\ x = r THEN b
                          ELSE IF q # t /\ y = o /\ x = q THEN IF x = p /\ c = t THEN r ELSE c
                          ELSE IF x = p /\ h.child[y][x] = t THEN r ELSE h.child[y][x]
       /\ u.next[y][x] = IF x = t THEN NoItem
                         ELSE IF y = s /\ x = far THEN r
                         ELSE IF y = o /\ x = r THEN far ELSE h.next[y][x]
  /\ \A x \in Values :
       /\ u.parent[x] = IF x = t THEN NoItem
                        ELSE IF q # t /\ x = a THEN r
                        ELSE IF x = b THEN r
                        ELSE IF x = r THEN p
                        ELSE IF q # t /\ x = c THEN q ELSE h.parent[x]
       /\ u.height[x] = IF x = t THEN 0 ELSE IF x = r THEN h.height[t] ELSE h.height[x]
       /\ u.count[x] = IF x = t THEN 0
                       ELSE (IF x = r THEN h.count[t] - h.dup[t]
                             ELSE h.count[x] + IF x \in between THEN -h.dup[r] ELSE 0)
                            + IF x \in above THEN -h.dup[t] ELSE 0
       /\ u.dup[x] = IF x = t THEN 0 ELSE h.dup[x]

UnlinkedInner(h, t, s, o, r, q, c, a, b, p, far, between, above) ==
  LET h1 == HangUnless(h, q, t, o, q, c)
      h2 == SetCount(AddCount(h1, between, -h.dup[r]), r, h.count[t] - h.dup[t])
      h3 == ReplaceChild(SetParent(SetHeight(h2, r, h.height[t]), r, p), t, r)
      h4 == SetParent(SetChild(h3, o, r, b), b, r)
      h5 == HangUnless(h4, q, t, s, r, a)
      h6 == SetNext(SetNext(h5, o, r, far), s, far, r)
      h7 == AddCount(h6, above, -h.dup[t])
  IN  Unlinked(h7, t)

LEMMA InnerFields ==
  ASSUME NEW h \in Trees, NEW t \in Values, NEW s \in Sides, NEW o \in Sides, NEW r \in Values,
         NEW q \in Values, NEW c \in Values \cup {NoItem}, NEW a \in Values \cup {NoItem},
         NEW b \in Values \cup {NoItem}, NEW p \in Values \cup {NoItem}, NEW far \in Values \cup {NoItem},
         NEW between, NEW above, r # t, c # t, p = h.parent[t],
         NEW u, u = UnlinkedInner(h, t, s, o, r, q, c, a, b, p, far, between, above)
  PROVE  InnerOut(h, u, t, s, o, r, q, c, a, b, p, far, between, above)
<1>. DEFINE h1 == HangUnless(h, q, t, o, q, c)
            ha == AddCount(h1, between, -h.dup[r])
            h2 == SetCount(ha, r, h.count[t] - h.dup[t])
            hb == SetHeight(h2, r, h.height[t])
            hc == SetParent(hb, r, p)
            h3 == ReplaceChild(hc, t, r)
            h4 == SetParent(SetChild(h3, o, r, b), b, r)
            h5 == HangUnless(h4, q, t, s, r, a)
            hd == SetNext(h5, o, r, far)
            h6 == SetNext(hd, s, far, r)
            h7 == AddCount(h6, above, -h.dup[t])
<1>d. /\ h1 = HangUnless(h, q, t, o, q, c) /\ ha = AddCount(h1, between, -h.dup[r])
      /\ h2 = SetCount(ha, r, h.count[t] - h.dup[t]) /\ hb = SetHeight(h2, r, h.height[t])
      /\ hc = SetParent(hb, r, p) /\ h3 = ReplaceChild(hc, t, r)
      /\ h4 = SetParent(SetChild(h3, o, r, b), b, r) /\ h5 = HangUnless(h4, q, t, s, r, a)
      /\ hd = SetNext(h5, o, r, far) /\ h6 = SetNext(hd, s, far, r)
      /\ h7 = AddCount(h6, above, -h.dup[t])
  OBVIOUS
<1>e. u = Unlinked(h7, t)
  BY Zenon DEF UnlinkedInner
<1>. HIDE DEF h1, ha, h2, hb, hc, h3, h4, h5, hd, h6, h7
<1>20. /\ -h.dup[r] \in Int /\ -h.dup[t] \in Int /\ h.count[t] - h.dup[t] \in Int
      /\ h.height[t] \in Nat
  BY TreeFields
<1>21. h1 \in Trees /\ HungUnless(h, h1, q, t, o, q, c)
  BY <1>d, HungUnlessFacts
<1>22. ha \in Trees /\ CountsAdded(h1, ha, between, -h.dup[r])
  BY <1>20, <1>21, <1>d, AddCountFacts
<1>23. h2 \in Trees /\ CountSet(ha, h2, r, h.count[t] - h.dup[t])
  BY <1>20, <1>22, <1>d, SetCountFacts
<1>24. hb \in Trees /\ HeightPut(h2, hb, r, h.height[t])
  BY <1>20, <1>23, <1>d, SetHeightFacts
<1>25. hc \in Trees /\ ParentSet(hb, hc, r, p)
  BY <1>24, <1>d, SetParentFacts
<1>26. h3 \in Trees /\ ChildReplaced(hc, h3, t, r)
  BY <1>25, <1>d, ReplaceChildFacts
<1>27. h4 \in Trees /\ Hung(h3, h4, o, r, b)
  BY <1>26, <1>d, HungFacts
<1>28. h5 \in Trees /\ HungUnless(h4, h5, q, t, s, r, a)
  BY <1>27, <1>d, HungUnlessFacts
<1>29. hd \in Trees /\ NextSet(h5, hd, o, r, far)
  BY <1>28, <1>d, SetNextFacts
<1>30. h6 \in Trees /\ NextSet(hd, h6, s, far, r)
  BY <1>29, <1>d, SetNextFacts
<1>31. h7 \in Trees /\ CountsAdded(h6, h7, above, -h.dup[t])
  BY <1>20, <1>30, <1>d, AddCountFacts
<1>32. Cleared(h7, u, t)
  BY <1>31, <1>e, UnlinkedFacts
<1>1. /\ u \in Trees
      /\ \A y \in Sides, x \in Values : u.child[y][x] = IF x = t THEN NoItem ELSE h7.child[y][x]
      /\ \A y \in Sides, x \in Values : u.next[y][x] = IF x = t THEN NoItem ELSE h7.next[y][x]
      /\ \A x \in Values : u.parent[x] = IF x = t THEN NoItem ELSE h7.parent[x]
      /\ \A x \in Values : u.height[x] = IF x = t THEN 0 ELSE h7.height[x]
      /\ \A x \in Values : u.count[x] = IF x = t THEN 0 ELSE h7.count[x]
      /\ \A x \in Values : u.dup[x] = IF x = t THEN 0 ELSE h7.dup[x]
  BY <1>32 DEF Cleared
<1>2. /\ h7.child = h5.child /\ h7.parent = h5.parent /\ h7.height = h5.height /\ h7.dup = h5.dup
      /\ h7.next = h6.next /\ h6.count = h5.count
      /\ \A x \in Values : h7.count[x] = h6.count[x] + IF x \in above THEN -h.dup[t] ELSE 0
      /\ \A y \in Sides, x \in Values :
           h6.next[y][x] = IF y = s /\ x = far THEN r ELSE hd.next[y][x]
      /\ \A y \in Sides, x \in Values :
           hd.next[y][x] = IF y = o /\ x = r THEN far ELSE h5.next[y][x]
  BY <1>29, <1>30, <1>31 DEF CountsAdded, OnlyCount, NextSet, OnlyNext
<1>3. /\ h5.next = h3.next /\ h5.height = h3.height /\ h5.count = h3.count /\ h5.dup = h3.dup
      /\ \A z \in Sides, x \in Values :
           h5.child[z][x] = IF q # t /\ z = s /\ x = r THEN a ELSE h4.child[z][x]
      /\ \A z \in Sides, x \in Values : h4.child[z][x] = IF z = o /\ x = r THEN b ELSE h3.child[z][x]
      /\ \A x \in Values : h5.parent[x] = IF q # t /\ x = a THEN r ELSE h4.parent[x]
      /\ \A x \in Values : h4.parent[x] = IF x = b THEN r ELSE h3.parent[x]
  BY <1>27, <1>28 DEF Hung, HungUnless
<1>4. /\ h3.next = h2.next /\ h3.height = hb.height /\ h3.count = h2.count /\ h3.dup = h2.dup
      /\ h3.parent = hc.parent /\ hc.child = h2.child /\ hb.parent = h2.parent
      /\ \A z \in Sides, x \in Values :
           h3.child[z][x] = IF x = hc.parent[t] /\ hc.child[z][x] = t THEN r ELSE hc.child[z][x]
      /\ \A x \in Values : hc.parent[x] = IF x = r THEN p ELSE hb.parent[x]
      /\ \A x \in Values : hb.height[x] = IF x = r THEN h.height[t] ELSE h2.height[x]
  BY <1>24, <1>25, <1>26 DEF ChildReplaced, OnlyChild, ParentSet, OnlyParent, HeightPut, OnlyHeight
<1>5. /\ h2.next = h1.next /\ h2.height = h1.height /\ h2.dup = h1.dup
      /\ h2.child = h1.child /\ h2.parent = h1.parent
      /\ \A x \in Values : h2.count[x] = IF x = r THEN h.count[t] - h.dup[t] ELSE ha.count[x]
      /\ \A x \in Values : ha.count[x] = h1.count[x] + IF x \in between THEN -h.dup[r] ELSE 0
  BY <1>22, <1>23 DEF CountsAdded, OnlyCount, CountSet
<1>6. /\ h1.next = h.next /\ h1.height = h.height /\ h1.dup = h.dup /\ h1.count = h.count
      /\ \A z \in Sides, x \in Values :
           h1.child[z][x] = IF q # t /\ z = o /\ x = q THEN c ELSE h.child[z][x]
      /\ \A x \in Values : h1.parent[x] = IF q # t /\ x = c THEN q ELSE h.parent[x]
  BY <1>21 DEF HungUnless
<1>7. hc.parent[t] = p
  BY <1>4, <1>5, <1>6
<1>8. ASSUME NEW y \in Sides, NEW x \in Values
      PROVE  u.child[y][x] = IF x = t THEN NoItem
                          ELSE IF q # t /\ y = s /\ x = r THEN a
                          ELSE IF y = o /\ x = r THEN b
                          ELSE IF q # t /\ y = o /\ x = q THEN IF x = p /\ c = t THEN r ELSE c
                          ELSE IF x = p /\ h.child[y][x] = t THEN r ELSE h.child[y][x]
  <2>1. h3.child[y][x] = IF q # t /\ y = o /\ x = q THEN IF x = p /\ c = t THEN r ELSE c
                         ELSE IF x = p /\ h.child[y][x] = t THEN r ELSE h.child[y][x]
    BY <1>4, <1>5, <1>6, <1>7
  <2>2. u.child[y][x] = IF x = t THEN NoItem
                        ELSE IF q # t /\ y = s /\ x = r THEN a
                        ELSE IF y = o /\ x = r THEN b ELSE h3.child[y][x]
    BY <1>1, <1>2, <1>3
  <2>. QED
    BY <2>1, <2>2
<1>9. ASSUME NEW y \in Sides, NEW x \in Values
      PROVE  u.next[y][x] = IF x = t THEN NoItem
                         ELSE IF y = s /\ x = far THEN r
                         ELSE IF y = o /\ x = r THEN far ELSE h.next[y][x]
  BY <1>1, <1>2, <1>3, <1>4, <1>5, <1>6
<1>10. ASSUME NEW x \in Values
       PROVE  u.parent[x] = IF x = t THEN NoItem
                        ELSE IF q # t /\ x = a THEN r
                        ELSE IF x = b THEN r
                        ELSE IF x = r THEN p
                        ELSE IF q # t /\ x = c THEN q ELSE h.parent[x]
  BY <1>1, <1>2, <1>3, <1>4, <1>5, <1>6
<1>11. ASSUME NEW x \in Values
       PROVE  u.height[x] = IF x = t THEN 0 ELSE IF x = r THEN h.height[t] ELSE h.height[x]
  BY <1>1, <1>2, <1>3, <1>4, <1>5, <1>6
<1>12. ASSUME NEW x \in Values
       PROVE  u.count[x] = IF x = t THEN 0
                       ELSE (IF x = r THEN h.count[t] - h.dup[t]
                             ELSE h.count[x] + IF x \in between THEN -h.dup[r] ELSE 0)
                            + IF x \in above THEN -h.dup[t] ELSE 0
  <2>1. h6.count[x] = IF x = r THEN h.count[t] - h.dup[t]
                      ELSE h.count[x] + IF x \in between THEN -h.dup[r] ELSE 0
    BY <1>2, <1>3, <1>4, <1>5, <1>6
  <2>. QED
    BY <1>1, <1>2, <2>1
<1>13. ASSUME NEW x \in Values PROVE u.dup[x] = IF x = t THEN 0 ELSE h.dup[x]
  BY <1>1, <1>2, <1>3, <1>4, <1>5, <1>6
<1>. QED
  BY <1>1, <1>8, <1>9, <1>10, <1>11, <1>12, <1>13 DEF InnerOut

(* The names that the proofs about the deletion of an inner node share: t  *)
(* has the children a and b, r is its neighbor, with the parent q and the  *)
(* only child c.                                                           *)
InnerNames(h, N, D, t, s, o, r, q, c, a, b, p, far) ==
  /\ s \in Sides /\ o = Other(s) /\ t \in N /\ a # NoItem
  /\ a = h.child[s][t] /\ b = h.child[o][t] /\ p = h.parent[t] /\ far = h.next[o][t]
  /\ q = h.parent[r] /\ c = h.child[s][r] /\ h.child[o][r] = NoItem
  /\ r \in N /\ r # t /\ r \in D[a] /\ h.next[s][t] = r

(* Where the deletion touches pointers.                                    *)
InnerPointers(h, N, D, t, s, o, r, q, c, a, b, p) ==
  /\ a \in N /\ q \in D[t] /\ q \in N /\ q # r
  /\ q = t <=> a = r
  /\ \A y \in Sides, x \in N \ {t} : h.child[y][x] = r <=> q # t /\ x = q /\ y = o
  /\ b # r /\ b # t /\ a # t /\ c # t /\ c # r
  /\ c # NoItem => c # b /\ h.parent[c] = r /\ (q # t => c # a)
  /\ \A y \in Sides, x \in N : h.child[y][x] = t => x = p
  /\ \A x \in N : h.parent[x] = t <=> x = a \/ x = b
  /\ p # t /\ p # r /\ p # q

LEMMA InnerPointersFacts ==
  ASSUME NEW h, NEW N, NEW D, SearchTree(h, N, D), NEW t, NEW s, NEW o, NEW r, NEW q, NEW c,
         NEW a, NEW b, NEW p, NEW far, InnerNames(h, N, D, t, s, o, r, q, c, a, b, p, far),
         NextTo(N \ {r}, t, r)
  PROVE  InnerPointers(h, N, D, t, s, o, r, q, c, a, b, p)
<1>0. /\ h \in Trees /\ N \subseteq Values /\ Shaped(h, N, D) /\ IsFiniteSet(N) /\ NoItem \notin Values
      /\ NoItem \notin N
  BY HistogramTreeAssumption DEF SearchTree, Shaped
<1>n. /\ s \in Sides /\ o = Other(s) /\ t \in N /\ a # NoItem
      /\ a = h.child[s][t] /\ b = h.child[o][t] /\ p = h.parent[t]
      /\ q = h.parent[r] /\ c = h.child[s][r] /\ h.child[o][r] = NoItem
      /\ r \in N /\ r # t /\ r \in D[a]
  BY DEF InnerNames
<1>1. o \in Sides /\ o # s /\ Other(o) = s /\ Sides = {s, o}
  BY <1>n, TwoSides
<1>2. ASSUME NEW n \in N, NEW y \in Sides, h.child[y][n] # NoItem
      PROVE  /\ h.child[y][n] \in N /\ h.parent[h.child[y][n]] = n /\ h.child[y][n] # n
             /\ h.child[y][n] \in D[n] /\ D[h.child[y][n]] \subseteq D[n] /\ n \notin D[h.child[y][n]]
             /\ h.child[Other(y)][n] # h.child[y][n] /\ Towards(h.child[y][n], n) = y
  BY <1>0, <1>2, ShapeFacts
<1>3. /\ a \in N /\ h.parent[a] = t /\ a # t /\ a \in D[t] /\ D[a] \subseteq D[t] /\ t \notin D[a]
      /\ b # a
  BY <1>1, <1>2, <1>n
<1>4. b # t /\ (b # NoItem => b \in N /\ h.parent[b] = t)
  BY <1>0, <1>1, <1>2, <1>n
<1>5. c # r /\ (c # NoItem => c \in N /\ h.parent[c] = r /\ c \in D[r])
  BY <1>0, <1>1, <1>2, <1>n
<1>6. Nested(h, N, D)
  BY <1>0, ShapeNested
<1>7. r # a => q \in D[a]
  BY <1>3, <1>6, <1>n DEF Nested
<1>8. t \in D[t] /\ D[t] \subseteq N
  BY <1>0, <1>n, ShapeFacts
<1>9. q = t <=> a = r
  <2>1. a = r => q = t
    BY <1>3, <1>n
  <2>2. r # a => q # t
    BY <1>3, <1>7
  <2>. QED
    BY <2>1, <2>2
<1>10. q \in D[t] /\ q \in N
  BY <1>3, <1>7, <1>8, <1>9
<1>11. q # r
  BY <1>0, <1>n, ShapeApart
<1>12. D[r] \subseteq D[a]
  BY <1>3, <1>6, <1>n DEF Nested
<1>13. c # t /\ (c # NoItem => c # b) /\ (c # NoItem /\ q # t => c # a)
  <2>1. c # NoItem => c \in D[a]
    BY <1>5, <1>12
  <2>2. c # NoItem => h.parent[c] = r
    BY <1>5
  <2>3. t # NoItem
    BY <1>0, <1>n
  <2>. QED
    BY <1>3, <1>4, <1>n, <2>1, <2>2, <2>3
<1>14. b # r
  <2>1. /\ \A m \in Below(D, h.child[s][t]) : m \notin Below(D, h.child[Other(s)][t])
    BY <1>0, <1>n, ShapeApart
  <2>2. Below(D, a) = D[a]
    BY <1>n DEF Below
  <2>3. r \notin Below(D, b)
    BY <1>n, <2>1, <2>2
  <2>4. r \in D[r] /\ r # NoItem
    BY <1>0, <1>n, ShapeFacts
  <2>. QED
    BY <2>3, <2>4 DEF Below
<1>15. ASSUME NEW y \in Sides, NEW x \in N \ {t}, h.child[y][x] = r PROVE q # t /\ x = q /\ y = o
  <2>1. r # NoItem
    BY <1>0, <1>n
  <2>2. x = q /\ Towards(r, x) = y
    BY <1>2, <1>15, <1>n, <2>1
  <2>3. q # t /\ q \in D[a]
    BY <1>7, <1>9, <2>2
  <2>4. Towards(r, q) = Towards(t, q)
    BY <1>10, <1>11, <2>3 DEF NextTo
  <2>5. Below(D, h.child[s][t]) = D[a]
    BY <1>n DEF Below
  <2>6. q # t /\ Towards(q, t) = s
    BY <1>0, <1>n, <2>3, <2>5, ShapeApart
  <2>7. Towards(t, q) = o
    BY <1>0, <1>10, <1>n, <2>6, OtherSide
  <2>. QED
    BY <2>2, <2>3, <2>4, <2>7
<1>16. ASSUME q # t PROVE h.child[o][q] = r
  <2>0. q # NoItem
    BY <1>0, <1>10
  <2>1. \E y \in Sides : h.child[y][q] = r
    BY <1>0, <1>n, <2>0, ShapeApart
  <2>. QED
    BY <1>10, <1>15, <1>16, <2>1
<1>17. \A y \in Sides, x \in N \ {t} : h.child[y][x] = r <=> q # t /\ x = q /\ y = o
  BY <1>15, <1>16
<1>18. \A y \in Sides, x \in N : h.child[y][x] = t => x = p
  BY <1>0, <1>2, <1>n
<1>19. \A x \in N : h.parent[x] = t <=> x = a \/ x = b
  <2>1. ASSUME NEW x \in N, h.parent[x] = t PROVE x = a \/ x = b
    <3>1. t # NoItem
      BY <1>0, <1>n
    <3>2. \E y \in Sides : h.child[y][h.parent[x]] = x
      BY <1>0, <2>1, <3>1, ShapeApart
    <3>. QED
      BY <1>1, <1>n, <2>1, <3>2
  <2>. QED
    BY <1>0, <1>3, <1>4, <2>1
<1>20. p # t /\ p \notin D[t]
  <2>1. D[t] \subseteq Values
    BY <1>0, <1>8
  <2>2. h.parent[t] # t /\ (h.parent[t] # NoItem => h.parent[t] \notin D[t])
    BY <1>0, <1>n, ShapeApart
  <2>. QED
    BY <1>0, <1>n, <2>1, <2>2
<1>21. p # r /\ p # q
  BY <1>3, <1>10, <1>20, <1>n
<1>. QED
  BY <1>3, <1>4, <1>5, <1>9, <1>10, <1>11, <1>13, <1>14, <1>17, <1>18, <1>19, <1>20, <1>21
     DEF InnerPointers

(* Where the deletion touches the order and the counts.                    *)
InnerOrder(h, N, t, s, o, r, far) ==
  /\ far # r /\ far # t /\ h.next[s][r] # t /\ h.next[o][r] = t
  /\ \A x \in N : /\ h.next[s][x] = t <=> x = far
                  /\ h.next[s][x] = r <=> x = t
                  /\ h.next[o][x] = t <=> x = r

LEMMA InnerOrderFacts ==
  ASSUME NEW h, NEW N, NEW D, SearchTree(h, N, D), NEW t, NEW s, NEW o, NEW r, NEW q, NEW c,
         NEW a, NEW b, NEW p, NEW far, InnerNames(h, N, D, t, s, o, r, q, c, a, b, p, far)
  PROVE  InnerOrder(h, N, t, s, o, r, far)
<1>0. /\ N \subseteq Values /\ Linked(h, N) /\ NoItem \notin N /\ h \in Trees
  BY HistogramTreeAssumption DEF SearchTree, Shaped
<1>n. /\ s \in Sides /\ o = Other(s) /\ t \in N /\ far = h.next[o][t]
      /\ r \in N /\ r # t /\ h.next[s][t] = r
  BY DEF InnerNames
<1>1. o \in Sides /\ o # s /\ Other(o) = s
  BY <1>n, TwoSides
<1>2. ASSUME NEW n \in N, NEW y \in Sides, h.next[y][n] # NoItem
      PROVE  h.next[y][n] \in N /\ h.next[y][n] # n /\ Towards(h.next[y][n], n) = y
  <2>1. Neighbor(N, n, y, h.next[y][n])
    BY <1>0 DEF Linked
  <2>. QED
    BY <1>2, <2>1 DEF Neighbor
<1>3. Towards(r, t) = s
  BY <1>0, <1>2, <1>n
<1>4. far # r /\ far # t
  <2>1. r # NoItem /\ t # NoItem
    BY <1>0, <1>n
  <2>2. far = NoItem \/ (far # t /\ Towards(far, t) = o)
    BY <1>1, <1>2, <1>n
  <2>. QED
    BY <1>1, <1>3, <2>1, <2>2
<1>5. \A x \in N : /\ h.next[s][x] = t <=> x = far
                   /\ h.next[s][x] = r <=> h.next[o][r] = x
                   /\ h.next[o][x] = t <=> x = r
  <2>1. ASSUME NEW x \in N PROVE h.next[s][x] = t <=> h.next[Other(s)][t] = x
    BY <1>0, <1>n, LinkBack
  <2>2. ASSUME NEW x \in N PROVE h.next[s][x] = r <=> h.next[Other(s)][r] = x
    BY <1>0, <1>n, LinkBack
  <2>3. ASSUME NEW x \in N PROVE h.next[o][x] = t <=> h.next[Other(o)][t] = x
    BY <1>0, <1>1, <1>n, LinkBack
  <2>. QED
    BY <1>1, <1>n, <2>1, <2>2, <2>3
<1>6. h.next[o][r] = t
  BY <1>5, <1>n
<1>7. h.next[s][r] # t
  BY <1>4, <1>5, <1>n
<1>. QED
  BY <1>4, <1>5, <1>6, <1>7 DEF InnerOrder

InnerAncestors(h, N, D, t, r, q, p) ==
  LET between == ToSet(Path(h, q)) \ ToSet(Path(h, t))
      above == ToSet(Path(h, p))
  IN  \A x \in N :
        /\ x \in between <=> x # r /\ r \in D[x] /\ t \notin D[x]
        /\ x \in above <=> x # t /\ t \in D[x]
        /\ t \in D[x] => x # r /\ r \in D[x]

LEMMA InnerAncestorsFacts ==
  ASSUME NEW h, NEW N, NEW D, SearchTree(h, N, D), NEW t, NEW s, NEW o, NEW r, NEW q, NEW c,
         NEW a, NEW b, NEW p, NEW far, InnerNames(h, N, D, t, s, o, r, q, c, a, b, p, far)
  PROVE  InnerAncestors(h, N, D, t, r, q, p)
<1>. DEFINE onto == ToSet(Path(h, q))
            through == ToSet(Path(h, t))
            above == ToSet(Path(h, p))
<1>0. h \in Trees /\ N \subseteq Values /\ Shaped(h, N, D) /\ IsFiniteSet(N) /\ NoItem \notin N
  BY HistogramTreeAssumption DEF SearchTree, Shaped
<1>n. /\ s \in Sides /\ t \in N /\ p = h.parent[t] /\ q = h.parent[r] /\ r \in N /\ r # t
      /\ a = h.child[s][t] /\ a # NoItem /\ r \in D[a]
  BY DEF InnerNames
<1>1. \A x \in N : x \in onto <=> x # r /\ r \in D[x]
  BY <1>0, <1>n, ParentPath
<1>2. \A x \in N : x \in above <=> x # t /\ t \in D[x]
  BY <1>0, <1>n, ParentPath
<1>3. \A x \in N : x \in through <=> t \in D[x]
  BY <1>0, <1>n, PathAncestors
<1>4. a \in N /\ D[a] \subseteq D[t] /\ t \notin D[a]
  BY <1>0, <1>n, ShapeFacts
<1>5. Nested(h, N, D)
  BY <1>0, ShapeNested
<1>6. ASSUME NEW x \in N, t \in D[x] PROVE x # r /\ r \in D[x]
  <2>1. D[t] \subseteq D[x] /\ D[r] \subseteq D[a]
    BY <1>4, <1>5, <1>6, <1>n DEF Nested
  <2>. QED
    BY <1>4, <1>6, <1>n, <2>1
<1>. HIDE DEF onto, through, above
<1>7. \A x \in N :
        /\ x \in onto \ through <=> x # r /\ r \in D[x] /\ t \notin D[x]
        /\ x \in above <=> x # t /\ t \in D[x]
        /\ t \in D[x] => x # r /\ r \in D[x]
  BY <1>1, <1>2, <1>3, <1>6
<1>. QED
  BY <1>7 DEF InnerAncestors, onto, through, above

(* Without r, and with r's duplications counted for t: the fields.         *)
Prepared(h, g, N, D, t, r, q, c) ==
  /\ g \in Trees
  /\ \A y \in Sides, x \in Values :
       g.child[y][x] = IF x = r THEN NoItem ELSE IF h.child[y][x] = r THEN c ELSE h.child[y][x]
  /\ \A x \in Values : g.parent[x] = IF x = r THEN NoItem ELSE IF x = c THEN q ELSE h.parent[x]
  /\ \A y \in Sides, x \in N \ {r} :
       g.next[y][x] = IF h.next[y][x] = r THEN h.next[y][r] ELSE h.next[y][x]
  /\ \A x \in N \ {r} :
       /\ g.height[x] = h.height[x]
       /\ g.dup[x] = IF x = t THEN h.dup[r] ELSE h.dup[x]
       /\ g.count[x] = h.count[x] - (IF r \in D[x] THEN h.dup[r] ELSE 0)
                       + IF t \in D[x] THEN h.dup[r] - h.dup[t] ELSE 0

LEMMA PreparedFacts ==
  ASSUME NEW h \in Trees, NEW N, NEW D, Shaped(h, N, D), NEW r \in N, NEW t \in N, t # r,
         NEW q, q = h.parent[r], NEW c, NEW h0, Reweighed(h, h0, N, D, r, 0),
         NEW g0, Spliced(h0, g0, N, r, c),
         NEW g, Reweighed(g0, g, N \ {r}, WithoutNode(D, r), t, h.dup[r])
  PROVE  Prepared(h, g, N, D, t, r, q, c)
<1>0. N \subseteq Values /\ t \in Values /\ r \in Values
  BY DEF Shaped
<1>1. /\ h0.child = h.child /\ h0.parent = h.parent /\ h0.next = h.next /\ h0.height = h.height
      /\ \A x \in Values : h0.dup[x] = IF x = r THEN 0 ELSE h.dup[x]
      /\ \A x \in N : h0.count[x] = h.count[x] + IF r \in D[x] THEN 0 - h.dup[r] ELSE 0
  BY DEF Reweighed
<1>2. /\ \A y \in Sides, x \in Values :
           g0.child[y][x] = IF x = r THEN NoItem ELSE IF h0.child[y][x] = r THEN c ELSE h0.child[y][x]
      /\ \A x \in Values :
           g0.parent[x] = IF x = r THEN NoItem ELSE IF x = c THEN h0.parent[r] ELSE h0.parent[x]
      /\ \A y \in Sides, x \in N \ {r} :
           g0.next[y][x] = IF h0.next[y][x] = r THEN h0.next[y][r] ELSE h0.next[y][x]
      /\ \A x \in N \ {r} :
           g0.height[x] = h0.height[x] /\ g0.count[x] = h0.count[x] /\ g0.dup[x] = h0.dup[x]
  BY DEF Spliced
<1>3. /\ g \in Trees /\ g.child = g0.child /\ g.parent = g0.parent /\ g.next = g0.next /\ g.height = g0.height
      /\ \A x \in Values : g.dup[x] = IF x = t THEN h.dup[r] ELSE g0.dup[x]
      /\ \A x \in N \ {r} :
           g.count[x] = g0.count[x] + IF t \in WithoutNode(D, r)[x] THEN h.dup[r] - g0.dup[t] ELSE 0
  BY DEF Reweighed
<1>4. \A y \in Sides, x \in Values :
        g.child[y][x] = IF x = r THEN NoItem ELSE IF h.child[y][x] = r THEN c ELSE h.child[y][x]
  BY <1>1, <1>2, <1>3
<1>5. \A x \in Values : g.parent[x] = IF x = r THEN NoItem ELSE IF x = c THEN q ELSE h.parent[x]
  BY <1>1, <1>2, <1>3
<1>6. \A y \in Sides, x \in N \ {r} :
        g.next[y][x] = IF h.next[y][x] = r THEN h.next[y][r] ELSE h.next[y][x]
  BY <1>1, <1>2, <1>3
<1>7. ASSUME NEW x \in N \ {r}
      PROVE  /\ g.height[x] = h.height[x]
             /\ g.dup[x] = IF x = t THEN h.dup[r] ELSE h.dup[x]
  BY <1>0, <1>1, <1>2, <1>3
<1>8. ASSUME NEW x \in N \ {r}
      PROVE  g.count[x] = h.count[x] - (IF r \in D[x] THEN h.dup[r] ELSE 0)
                          + IF t \in D[x] THEN h.dup[r] - h.dup[t] ELSE 0
  <2>1. t \in WithoutNode(D, r)[x] <=> t \in D[x]
    BY <1>0 DEF WithoutNode
  <2>2. g0.dup[t] = h.dup[t]
    BY <1>0, <1>1, <1>2
  <2>3. g0.count[x] = h.count[x] + IF r \in D[x] THEN 0 - h.dup[r] ELSE 0
    BY <1>1, <1>2
  <2>4. h.count[x] \in Int /\ h.dup[r] \in Int /\ h.dup[t] \in Int
    BY <1>0, TreeFields
  <2>5. g.count[x] = g0.count[x] + IF t \in D[x] THEN h.dup[r] - h.dup[t] ELSE 0
    BY <1>3, <2>1, <2>2
  <2>. QED
    BY <2>3, <2>4, <2>5
<1>. QED
  BY <1>3, <1>4, <1>5, <1>6, <1>7, <1>8 DEF Prepared

(* The deletion of an inner node t: r is spliced out and then gets t's     *)
(* place.                                                                  *)
LEMMA InnerRenamed ==
  ASSUME NEW h, NEW N, NEW D, SearchTree(h, N, D), NEW t, NEW s, NEW o, NEW r, NEW q, NEW c,
         NEW a, NEW b, NEW p, NEW far, InnerNames(h, N, D, t, s, o, r, q, c, a, b, p, far),
         InnerPointers(h, N, D, t, s, o, r, q, c, a, b, p), InnerOrder(h, N, t, s, o, r, far),
         InnerAncestors(h, N, D, t, r, q, p), NEW g, Prepared(h, g, N, D, t, r, q, c),
         NEW u, InnerOut(h, u, t, s, o, r, q, c, a, b, p, far,
                         ToSet(Path(h, q)) \ ToSet(Path(h, t)), ToSet(Path(h, p)))
  PROVE  Renamed(g, u, N \ {r}, t, r)
<1>. DEFINE M == N \ {t}
            between == ToSet(Path(h, q)) \ ToSet(Path(h, t))
            above == ToSet(Path(h, p))
            B(x) == IF x = r THEN t ELSE x
            F(x) == IF x = t THEN r ELSE x
<1>0. /\ h \in Trees /\ N \subseteq Values /\ Shaped(h, N, D) /\ NoItem \notin Values
      /\ \A x \in Values \ N : h.parent[x] = NoItem /\ \A y \in Sides : h.child[y][x] = NoItem
  BY HistogramTreeAssumption DEF SearchTree, Shaped, Outside
<1>n. /\ s \in Sides /\ o = Other(s) /\ t \in N /\ a # NoItem
      /\ a = h.child[s][t] /\ b = h.child[o][t] /\ p = h.parent[t] /\ far = h.next[o][t]
      /\ q = h.parent[r] /\ r \in N /\ r # t /\ h.next[s][t] = r /\ h.child[o][r] = NoItem /\ c = h.child[s][r]
  BY DEF InnerNames
<1>1. /\ o \in Sides /\ o # s /\ Sides = {s, o} /\ t \in Values /\ r \in Values /\ t # NoItem /\ r # NoItem
      /\ t \in D[t] /\ \A y \in Sides : y = s \/ y = o
  <2>1. o \in Sides /\ o # s /\ Sides = {s, o}
    BY <1>n, TwoSides
  <2>2. t \in Values /\ r \in Values /\ t # NoItem /\ r # NoItem
    BY <1>0, <1>n
  <2>3. t \in D[t]
    BY <1>0, <1>n, OwnFacts
  <2>. QED
    BY <2>1, <2>2, <2>3
<1>2. /\ a \in N /\ q \in N /\ q # r
      /\ q = t <=> a = r
      /\ \A y \in Sides, x \in N \ {t} : h.child[y][x] = r <=> q # t /\ x = q /\ y = o
      /\ b # r /\ b # t /\ a # t /\ c # t /\ c # r
      /\ c # NoItem => c # b /\ h.parent[c] = r /\ (q # t => c # a)
      /\ \A y \in Sides, x \in N : h.child[y][x] = t => x = p
      /\ \A x \in N : h.parent[x] = t <=> x = a \/ x = b
      /\ p # t /\ p # r /\ p # q
  BY DEF InnerPointers
<1>3. /\ far # r /\ far # t /\ h.next[s][r] # t /\ h.next[o][r] = t
      /\ \A x \in N : /\ h.next[s][x] = t <=> x = far
                      /\ h.next[s][x] = r <=> x = t
                      /\ h.next[o][x] = t <=> x = r
  BY DEF InnerOrder
<1>4. \A x \in N :
        /\ x \in between <=> x # r /\ r \in D[x] /\ t \notin D[x]
        /\ x \in above <=> x # t /\ t \in D[x]
        /\ t \in D[x] => x # r /\ r \in D[x]
  BY DEF InnerAncestors
<1>5. InnerOut(h, u, t, s, o, r, q, c, a, b, p, far, between, above)
  OBVIOUS
<1>. HIDE DEF between, above
<1>6. /\ u \in Trees
      /\ \A y \in Sides, x \in Values :
           u.child[y][x] = IF x = t THEN NoItem
                          ELSE IF q # t /\ y = s /\ x = r THEN a
                          ELSE IF y = o /\ x = r THEN b
                          ELSE IF q # t /\ y = o /\ x = q THEN IF x = p /\ c = t THEN r ELSE c
                          ELSE IF x = p /\ h.child[y][x] = t THEN r ELSE h.child[y][x]
      /\ \A y \in Sides, x \in Values :
           u.next[y][x] = IF x = t THEN NoItem
                         ELSE IF y = s /\ x = far THEN r
                         ELSE IF y = o /\ x = r THEN far ELSE h.next[y][x]
      /\ \A x \in Values :
           u.parent[x] = IF x = t THEN NoItem
                        ELSE IF q # t /\ x = a THEN r
                        ELSE IF x = b THEN r
                        ELSE IF x = r THEN p
                        ELSE IF q # t /\ x = c THEN q ELSE h.parent[x]
      /\ \A x \in Values :
           u.height[x] = IF x = t THEN 0 ELSE IF x = r THEN h.height[t] ELSE h.height[x]
      /\ \A x \in Values :
           u.count[x] = IF x = t THEN 0
                       ELSE (IF x = r THEN h.count[t] - h.dup[t]
                             ELSE h.count[x] + IF x \in between THEN -h.dup[r] ELSE 0)
                            + IF x \in above THEN -h.dup[t] ELSE 0
      /\ \A x \in Values : u.dup[x] = IF x = t THEN 0 ELSE h.dup[x]
  BY <1>5 DEF InnerOut
<1>r. r \in Values /\ r # t /\ t \in Values /\ t \in N \ {r}
  BY <1>0, <1>n
<1>c. \A y \in Sides : u.child[y][r] = IF q # t /\ y = s THEN a ELSE IF y = o THEN b
                                       ELSE IF q # t /\ y = o /\ r = q THEN IF r = p /\ c = t THEN r ELSE c
                                       ELSE IF r = p /\ h.child[y][r] = t THEN r ELSE h.child[y][r]
  BY <1>6, <1>r
<1>x. \A y \in Sides : u.next[y][r] = IF y = s /\ r = far THEN r ELSE IF y = o THEN far ELSE h.next[y][r]
  BY <1>6, <1>r
<1>7. /\ \A y \in Sides, x \in Values :
           g.child[y][x] = IF x = r THEN NoItem ELSE IF h.child[y][x] = r THEN c ELSE h.child[y][x]
      /\ \A x \in Values : g.parent[x] = IF x = r THEN NoItem ELSE IF x = c THEN q ELSE h.parent[x]
      /\ \A y \in Sides, x \in N \ {r} :
           g.next[y][x] = IF h.next[y][x] = r THEN h.next[y][r] ELSE h.next[y][x]
      /\ \A x \in N \ {r} :
           /\ g.height[x] = h.height[x]
           /\ g.dup[x] = IF x = t THEN h.dup[r] ELSE h.dup[x]
           /\ g.count[x] = h.count[x] - (IF r \in D[x] THEN h.dup[r] ELSE 0)
                           + IF t \in D[x] THEN h.dup[r] - h.dup[t] ELSE 0
  BY DEF Prepared
<1>8. M = Swap(N \ {r}, t, r) /\ M \subseteq Values /\ r \in M
  BY <1>0, <1>n DEF Swap
<1>9. ASSUME NEW x \in Values \ M PROVE u.parent[x] = NoItem /\ \A y \in Sides : u.child[y][x] = NoItem
  <2>1. CASE x = t
    BY <1>1, <1>6, <2>1
  <2>2. CASE x # t
    <3>1. x \notin N /\ x # r /\ x # q /\ x # a
      BY <1>2, <1>n, <2>2
    <3>2. h.parent[x] = NoItem /\ \A y \in Sides : h.child[y][x] = NoItem
      BY <1>0, <3>1
    <3>3. x # b /\ x # c
      <4>1. \A y \in Sides, n \in N : h.child[y][n] = NoItem \/ h.child[y][n] \in N
        BY <1>0, ShapeFacts
      <4>. QED
        BY <1>0, <1>1, <1>n, <3>1, <4>1
    <3>. QED
      BY <1>1, <1>6, <2>2, <3>1, <3>2, <3>3
  <2>. QED
    BY <2>1, <2>2
<1>10. ASSUME NEW x \in M, NEW y \in Sides PROVE u.child[y][x] = F(g.child[y][B(x)])
  <2>0. x \in Values /\ x # t /\ x \in N
    BY <1>0
  <2>1. CASE x = r
    <3>0. h.child[s][t] = a /\ h.child[o][t] = b
      BY <1>n
    <3>1. h.child[y][t] # t /\ g.child[y][t] = IF h.child[y][t] = r THEN c ELSE h.child[y][t]
      <4>1. h.child[y][t] # t
        BY <1>1, <1>2, <3>0
      <4>2. g.child[y][t] = IF h.child[y][t] = r THEN c ELSE h.child[y][t]
        BY <1>7, <1>r
      <4>. QED
        BY <4>1, <4>2
    <3>2. CASE y = s
      <4>1. u.child[s][r] = IF q # t THEN a ELSE IF r = p /\ h.child[s][r] = t THEN r ELSE h.child[s][r]
        BY <1>1, <1>2, <1>c, <1>n
      <4>2. h.child[s][r] = c /\ c # t /\ a # t /\ (q = t <=> a = r) /\ r # p
        BY <1>2, <1>n
      <4>3. u.child[s][r] = IF q # t THEN a ELSE c
        BY <4>1, <4>2
      <4>4. g.child[s][t] = IF a = r THEN c ELSE a
        BY <3>0, <3>1, <3>2
      <4>. QED
        BY <1>n, <2>1, <3>2, <4>2, <4>3, <4>4
    <3>3. CASE y = o
      <4>1. u.child[o][r] = b
        BY <1>1, <1>c
      <4>2. g.child[o][t] = b /\ b # t
        BY <1>2, <3>0, <3>1, <3>3
      <4>. QED
        BY <1>n, <2>1, <3>3, <4>1, <4>2
    <3>. QED
      BY <1>1, <3>2, <3>3
  <2>2. CASE x # r
    <3>1. g.child[y][x] = IF h.child[y][x] = r THEN c ELSE h.child[y][x]
      BY <1>7, <2>0, <2>2
    <3>2. h.child[y][x] = r <=> q # t /\ x = q /\ y = o
      BY <1>2, <2>0
    <3>3. h.child[y][x] = t => x = p
      BY <1>2, <2>0
    <3>4. u.child[y][x] = IF q # t /\ y = o /\ x = q THEN IF x = p /\ c = t THEN r ELSE c
                          ELSE IF x = p /\ h.child[y][x] = t THEN r ELSE h.child[y][x]
      BY <1>6, <2>0, <2>2
    <3>. QED
      BY <1>2, <2>2, <3>1, <3>2, <3>3, <3>4
  <2>. QED
    BY <2>1, <2>2
<1>11. ASSUME NEW x \in M PROVE u.parent[x] = F(g.parent[B(x)])
  <2>0. x \in Values /\ x # t /\ x \in N /\ x # NoItem
    BY <1>0
  <2>1. CASE x = r
    <3>1. g.parent[t] = p
      BY <1>1, <1>2, <1>7, <1>n
    <3>2. u.parent[r] = p
      BY <1>1, <1>2, <1>6, <1>n
    <3>. QED
      BY <1>2, <2>1, <3>1, <3>2
  <2>2. CASE x # r
    <3>1. g.parent[x] = IF x = c THEN q ELSE h.parent[x]
      BY <1>7, <2>0, <2>2
    <3>2. u.parent[x] = IF q # t /\ x = a THEN r ELSE IF x = b THEN r
                        ELSE IF q # t /\ x = c THEN q ELSE h.parent[x]
      BY <1>6, <2>0, <2>2
    <3>3. h.parent[x] = t <=> x = a \/ x = b
      BY <1>2, <2>0
    <3>4. CASE x = c
      BY <1>2, <2>0, <2>2, <3>1, <3>2, <3>4
    <3>5. CASE x # c
      BY <1>2, <2>0, <2>2, <3>1, <3>2, <3>3, <3>5
    <3>. QED
      BY <3>4, <3>5
  <2>. QED
    BY <2>1, <2>2
<1>12. ASSUME NEW x \in M, NEW y \in Sides PROVE u.next[y][x] = F(g.next[y][B(x)])
  <2>0. x \in Values /\ x # t /\ x \in N
    BY <1>0
  <2>1. CASE x = r
    <3>1. g.next[y][t] = IF h.next[y][t] = r THEN h.next[y][r] ELSE h.next[y][t]
      BY <1>7, <1>n
    <3>2. CASE y = s
      <4>1. u.next[s][r] = h.next[s][r]
        BY <1>1, <1>3, <1>n, <1>x
      <4>. QED
        BY <1>3, <1>n, <2>1, <3>1, <3>2, <4>1
    <3>3. CASE y = o
      <4>1. u.next[o][r] = far
        BY <1>1, <1>3, <1>n, <1>x
      <4>. QED
        BY <1>3, <1>n, <2>1, <3>1, <3>3, <4>1
    <3>. QED
      BY <1>1, <3>2, <3>3
  <2>2. CASE x # r
    <3>1. g.next[y][x] = IF h.next[y][x] = r THEN h.next[y][r] ELSE h.next[y][x]
      BY <1>7, <2>0, <2>2
    <3>2. u.next[y][x] = IF y = s /\ x = far THEN r ELSE h.next[y][x]
      BY <1>6, <2>0, <2>2
    <3>3. CASE y = s
      BY <1>3, <2>0, <2>2, <3>1, <3>2, <3>3
    <3>4. CASE y = o
      <4>1. h.next[o][x] # t
        BY <1>3, <2>0, <2>2
      <4>. QED
        BY <1>1, <1>3, <2>2, <3>1, <3>2, <3>4, <4>1
    <3>. QED
      BY <1>1, <3>3, <3>4
  <2>. QED
    BY <2>1, <2>2
<1>13. ASSUME NEW x \in M PROVE u.height[x] = g.height[B(x)] /\ u.dup[x] = g.dup[B(x)]
  <2>0. x \in Values /\ x # t /\ x \in N /\ B(x) \in N \ {r}
    BY <1>0, <1>n
  <2>1. g.height[B(x)] = h.height[B(x)] /\ g.dup[B(x)] = IF B(x) = t THEN h.dup[r] ELSE h.dup[B(x)]
    BY <1>7, <2>0
  <2>2. /\ u.height[x] = IF x = r THEN h.height[t] ELSE h.height[x]
        /\ u.dup[x] = h.dup[x]
    BY <1>6, <2>0
  <2>. QED
    BY <2>0, <2>1, <2>2
<1>14. ASSUME NEW x \in M PROVE u.count[x] = g.count[B(x)]
  <2>0. x \in Values /\ x # t /\ x \in N /\ B(x) \in N \ {r}
    BY <1>0, <1>n
  <2>1. h.count[x] \in Int /\ h.count[t] \in Int /\ h.dup[r] \in Int /\ h.dup[t] \in Int
    BY <1>0, <1>1, <2>0, TreeFields
  <2>2. u.count[x] = (IF x = r THEN h.count[t] - h.dup[t]
                      ELSE h.count[x] + IF x \in between THEN -h.dup[r] ELSE 0)
                     + IF x \in above THEN -h.dup[t] ELSE 0
    BY <1>6, <2>0
  <2>3. CASE x = r
    <3>1. r \notin above /\ r \in D[t]
      BY <1>1, <1>4, <1>n
    <3>2. g.count[t] = h.count[t] - h.dup[r] + (h.dup[r] - h.dup[t])
      BY <1>1, <1>7, <1>n, <3>1
    <3>3. u.count[x] = h.count[t] - h.dup[t]
      BY <2>1, <2>2, <2>3, <3>1
    <3>. QED
      BY <2>1, <2>3, <3>2, <3>3
  <2>4. CASE x # r
    <3>1. g.count[x] = h.count[x] - (IF r \in D[x] THEN h.dup[r] ELSE 0)
                       + IF t \in D[x] THEN h.dup[r] - h.dup[t] ELSE 0
      BY <1>7, <2>0, <2>4
    <3>2. /\ x \in between <=> r \in D[x] /\ t \notin D[x]
          /\ x \in above <=> t \in D[x]
          /\ t \in D[x] => r \in D[x]
      BY <1>4, <2>0, <2>4
    <3>3. u.count[x] = h.count[x] + (IF x \in between THEN -h.dup[r] ELSE 0)
                       + IF x \in above THEN -h.dup[t] ELSE 0
      BY <2>2, <2>4
    <3>. QED
      BY <2>1, <2>4, <3>1, <3>2, <3>3
  <2>. QED
    BY <2>3, <2>4
<1>15. \A x : Stands(r, t, x) = B(x) /\ Stands(t, r, x) = F(x)
  BY DEF Stands
<1>. HIDE DEF B, F, M
<1>16. ASSUME NEW x \in M
       PROVE  /\ u.parent[x] = Stands(t, r, g.parent[Stands(r, t, x)])
              /\ u.height[x] = g.height[Stands(r, t, x)]
              /\ u.count[x] = g.count[Stands(r, t, x)]
              /\ u.dup[x] = g.dup[Stands(r, t, x)]
              /\ \A y \in Sides :
                   /\ u.child[y][x] = Stands(t, r, g.child[y][Stands(r, t, x)])
                   /\ u.next[y][x] = Stands(t, r, g.next[y][Stands(r, t, x)])
  <2>1. Stands(r, t, x) = B(x) /\ \A z : Stands(t, r, z) = F(z)
    BY <1>15
  <2>2. u.parent[x] = F(g.parent[B(x)])
    BY <1>11
  <2>3. u.height[x] = g.height[B(x)] /\ u.dup[x] = g.dup[B(x)]
    BY <1>13
  <2>4. u.count[x] = g.count[B(x)]
    BY <1>14
  <2>5. ASSUME NEW y \in Sides
        PROVE  u.child[y][x] = F(g.child[y][B(x)]) /\ u.next[y][x] = F(g.next[y][B(x)])
    BY <1>10, <1>12
  <2>. QED
    BY <2>1, <2>2, <2>3, <2>4, <2>5
<1>17. \A x \in Values \ Swap(N \ {r}, t, r) : u.parent[x] = NoItem /\ \A y \in Sides : u.child[y][x] = NoItem
  BY <1>8, <1>9
<1>18. u \in Trees
  BY <1>6
<1>. QED
  BY <1>8, <1>16, <1>17, <1>18 DEF Renamed

LEMMA SplicedStep ==
  ASSUME NEW h \in Trees, NEW N, N \subseteq Values, NEW r \in Values, NEW c \in Values \cup {NoItem}
  PROVE  \E g : Spliced(h, g, N, r, c)
<1>. DEFINE C == [y \in Sides |-> [x \in Values |->
                    IF x = r THEN NoItem ELSE IF h.child[y][x] = r THEN c ELSE h.child[y][x]]]
            P == [x \in Values |-> IF x = r THEN NoItem ELSE IF x = c THEN h.parent[r] ELSE h.parent[x]]
            X == [y \in Sides |-> [x \in Values |->
                    IF h.next[y][x] = r THEN h.next[y][r] ELSE h.next[y][x]]]
            g == [root |-> h.root, child |-> C, next |-> X, parent |-> P,
                  height |-> h.height, count |-> h.count, dup |-> h.dup]
<1>1. C \in [Sides -> Pointers] /\ P \in Pointers /\ X \in [Sides -> Pointers]
  BY TreeFields DEF Pointers
<1>2. /\ \A y \in Sides, x \in Values :
           C[y][x] = IF x = r THEN NoItem ELSE IF h.child[y][x] = r THEN c ELSE h.child[y][x]
      /\ \A x \in Values : P[x] = IF x = r THEN NoItem ELSE IF x = c THEN h.parent[r] ELSE h.parent[x]
      /\ \A y \in Sides, x \in Values : X[y][x] = IF h.next[y][x] = r THEN h.next[y][r] ELSE h.next[y][x]
  OBVIOUS
<1>. HIDE DEF C, P, X
<1>3. g \in Trees
  BY <1>1, TreeFields DEF Trees
<1>4. /\ g.child = C /\ g.parent = P /\ g.next = X
      /\ g.height = h.height /\ g.count = h.count /\ g.dup = h.dup
  OBVIOUS
<1>. HIDE DEF g
<1>5. Spliced(h, g, N, r, c)
  BY <1>2, <1>3, <1>4 DEF Spliced
<1>. QED
  BY <1>5

LEMMA DeleteInnerKeeps ==
  ASSUME NEW h, NEW N, NEW D, SearchTree(h, N, D), NEW t \in N, NEW s \in Sides, h.child[s][t] # NoItem,
         NEW f, f = DeleteInner(h, t, s)
  PROVE  \E E : Deleted(h, f, N, t, E)
<1>. DEFINE o == Other(s)
            a == h.child[s][t]
            b == h.child[o][t]
            r == Extreme(h, a, o)
            q == h.parent[r]
            c == h.child[s][r]
            p == h.parent[t]
            far == h.next[o][t]
            between == ToSet(Path(h, q)) \ ToSet(Path(h, t))
            above == ToSet(Path(h, p))
            u == UnlinkedInner(h, t, s, o, r, q, c, a, b, p, far, between, above)
            z == IF q # t THEN q ELSE r
            M == N \ {t}
            M0 == N \ {r}
            D0 == WithoutNode(D, r)
            F == WithMoved(M0, D0, t, r)
<1>0. /\ h \in Trees /\ N \subseteq Values /\ Shaped(h, N, D) /\ IsFiniteSet(N) /\ Linked(h, N)
      /\ ExactBut(h, N, {}) /\ \A x \in Values : h.dup[x] > 0 <=> x \in N
      /\ NoItem \notin Values
  BY HistogramTreeAssumption DEF SearchTree, Shaped
<1>1. f = UpdateHeight(u, z, FALSE)
  BY Zenon DEF DeleteInner, UnlinkedInner, HangUnless
<1>d. /\ o = Other(s) /\ a = h.child[s][t] /\ b = h.child[o][t] /\ p = h.parent[t] /\ far = h.next[o][t]
      /\ q = h.parent[r] /\ c = h.child[s][r] /\ z = IF q # t THEN q ELSE r
      /\ D0 = WithoutNode(D, r) /\ F = WithMoved(M0, D0, t, r) /\ a # NoItem
  OBVIOUS
<1>u. u = UnlinkedInner(h, t, s, o, r, q, c, a, b, p, far, between, above)
  OBVIOUS
<1>v. between = ToSet(Path(h, q)) \ ToSet(Path(h, t)) /\ above = ToSet(Path(h, p))
  OBVIOUS
<1>r. r = Extreme(h, h.child[s][t], Other(s))
  OBVIOUS
<1>. HIDE DEF o, a, b, r, q, c, p, far, u, z, D0, F, between, above
<1>2. Nearest(h, N, D, t, s, r)
  <2>1. Nearest(h, N, D, t, s, Extreme(h, h.child[s][t], Other(s)))
    BY <1>0, NearestFacts
  <2>. QED
    BY <1>r, <2>1
<1>3. /\ r \in N /\ r # t /\ r \in D[a] /\ h.child[o][r] = NoItem
      /\ h.next[s][t] = r /\ NextTo(M0, t, r)
  BY <1>2, <1>d DEF Nearest
<1>4. InnerNames(h, N, D, t, s, o, r, q, c, a, b, p, far)
  BY <1>3, <1>d DEF InnerNames
<1>5. InnerPointers(h, N, D, t, s, o, r, q, c, a, b, p)
  BY <1>3, <1>4, InnerPointersFacts
<1>6. InnerOrder(h, N, t, s, o, r, far)
  BY <1>4, InnerOrderFacts
<1>7. InnerAncestors(h, N, D, t, r, q, p)
  BY <1>4, InnerAncestorsFacts
<1>8. q \in N /\ q # r /\ c # t
  BY <1>5 DEF InnerPointers
<1>9. /\ o \in Sides /\ t \in Values /\ r \in Values /\ q \in Values
      /\ c \in Values \cup {NoItem} /\ a \in Values \cup {NoItem} /\ b \in Values \cup {NoItem}
      /\ p \in Values \cup {NoItem} /\ far \in Values \cup {NoItem}
  <2>1. o \in Sides
    BY <1>d, TwoSides
  <2>2. t \in Values /\ r \in Values /\ q \in Values
    BY <1>0, <1>3, <1>8
  <2>. QED
    BY <1>0, <1>d, <2>1, <2>2, TreeFields
<1>10. InnerOut(h, u, t, s, o, r, q, c, a, b, p, far,
                ToSet(Path(h, q)) \ ToSet(Path(h, t)), ToSet(Path(h, p)))
  <2>1. InnerOut(h, u, t, s, o, r, q, c, a, b, p, far, between, above)
    <3>1. h \in Trees /\ r # t /\ c # t /\ p = h.parent[t]
      BY <1>0, <1>3, <1>8, <1>d
    <3>. QED
      BY <1>9, <1>u, <3>1, InnerFields
  <2>. QED
    BY <1>v, <2>1
<1>11. PICK h0 : Reweighed(h, h0, N, D, r, 0)
  BY <1>0, <1>3, ReweighedStep
<1>12. /\ h0 \in Trees /\ h0.child = h.child /\ h0.parent = h.parent /\ h0.next = h.next
       /\ h0.height = h.height /\ h0.dup[r] = 0
  BY <1>9, <1>11 DEF Reweighed
<1>13. PICK g0 : Spliced(h0, g0, N, r, c)
  BY <1>0, <1>9, <1>12, SplicedStep
<1>14. Shaped(h0, N, D)
  BY <1>0, <1>12, SameShape
<1>15. OnlyChildOf(h0, r, c) /\ h0.parent[r] = q /\ q # NoItem
  BY <1>0, <1>3, <1>8, <1>9, <1>12, <1>d DEF OnlyChildOf
<1>16. Shaped(g0, M0, D0)
  BY <1>3, <1>12, <1>13, <1>14, <1>15, <1>d, SplicedShape
<1>17. /\ ExactBut(h0, N, {}) => ExactBut(g0, M0, {q})
       /\ TreeCounted(h0, N) => TreeCounted(g0, M0)
  BY <1>3, <1>12, <1>13, <1>14, <1>15, SplicedSums
<1>18. g0 \in Trees /\ IsFiniteSet(M0) /\ t \in M0 /\ q \in M0 /\ M0 \subseteq Values
  BY <1>0, <1>3, <1>8, <1>13, FS_Subset DEF Spliced
<1>19. h.dup[r] \in Nat
  BY <1>0, <1>9, TreeFields
<1>20. PICK g : Reweighed(g0, g, M0, D0, t, h.dup[r])
  BY <1>16, <1>18, <1>19, ReweighedStep
<1>21. /\ g \in Trees /\ g.child = g0.child /\ g.parent = g0.parent /\ g.next = g0.next
       /\ g.height = g0.height
  BY <1>20 DEF Reweighed
<1>22. Shaped(g, M0, D0)
  BY <1>16, <1>21, SameShape
<1>23. Prepared(h, g, N, D, t, r, q, c)
  <2>1. Reweighed(g0, g, N \ {r}, WithoutNode(D, r), t, h.dup[r])
    BY <1>20, <1>d
  <2>. HIDE DEF M0
  <2>. QED
    BY <1>0, <1>3, <1>11, <1>13, <1>d, <2>1, PreparedFacts
<1>24. Renamed(g, u, N \ {r}, t, r)
  BY <1>4, <1>5, <1>6, <1>7, <1>10, <1>23, InnerRenamed
<1>25. M = Swap(M0, t, r) /\ r \in Values \ M0
  BY <1>3, <1>9 DEF Swap
<1>26. Renamed(g, u, M0, t, r)
  BY <1>24
<1>. HIDE DEF M0
<1>27. Shaped(u, Swap(M0, t, r), F)
  BY <1>3, <1>18, <1>21, <1>22, <1>25, <1>26, <1>d, RenamedShape
<1>28. /\ ExactBut(g, M0, {q}) => ExactBut(u, Swap(M0, t, r), {Stands(t, r, q)})
       /\ TreeCounted(g, M0) => TreeCounted(u, Swap(M0, t, r))
  BY <1>18, <1>21, <1>22, <1>25, <1>26, RenamedSums
<1>29. Shaped(u, M, F)
  BY <1>25, <1>27
<1>30. ExactBut(u, M, {z, u.parent[z]})
  <2>1. ExactBut(h0, N, {})
    BY <1>0, <1>12 DEF ExactBut, HeightHere, HeightOf
  <2>2. ExactBut(g0, M0, {q})
    BY <1>17, <2>1
  <2>3. ExactBut(g, M0, {q})
    BY <1>21, <2>2 DEF ExactBut, HeightHere, HeightOf
  <2>4. Stands(t, r, q) = z
    BY <1>d DEF Stands
  <2>5. ExactBut(u, M, {z})
    BY <1>25, <1>28, <2>3, <2>4
  <2>. QED
    BY <2>5 DEF ExactBut
<1>31. TreeCounted(h, N) => TreeCounted(u, M)
  <2>1. TreeCounted(h, N) => TreeCounted(h0, N)
    BY <1>0, <1>3, <1>11, ReweighedCounts
  <2>2. TreeCounted(g0, M0) => TreeCounted(g, M0)
    BY <1>16, <1>18, <1>19, <1>20, ReweighedCounts
  <2>. QED
    BY <1>17, <1>25, <1>28, <2>1, <2>2
<1>32. Linked(u, M)
  <2>1. Linked(h0, N)
    BY <1>0, <1>12 DEF Linked
  <2>2. \A y \in Sides, x \in N \ {r} :
          g0.next[y][x] = IF h0.next[y][x] = r THEN h0.next[y][r] ELSE h0.next[y][x]
    BY <1>13 DEF Spliced
  <2>3. Linked(g0, N \ {r})
    BY <1>0, <1>3, <2>1, <2>2, LinkedWithout
  <2>4. Linked(g, M0)
    BY <1>21, <2>3 DEF Linked, M0
  <2>5. \A x \in Swap(M0, t, r), y \in Sides : u.next[y][x] = Stands(t, r, g.next[y][Stands(r, t, x)])
    BY <1>26 DEF Renamed
  <2>6. \A y \in Sides, x \in M0 \ {t} : u.next[y][x] = IF g.next[y][x] = t THEN r ELSE g.next[y][x]
    BY <1>25, <2>5 DEF Swap, Stands
  <2>7. \A y \in Sides : u.next[y][r] = g.next[y][t]
    <3>1. \A y \in Sides : g.next[y][t] # t
      BY <1>0, <1>9, <1>18, <2>4 DEF Linked, Neighbor
    <3>2. r \in Swap(M0, t, r)
      BY DEF Swap
    <3>. QED
      BY <2>5, <3>1, <3>2 DEF Stands
  <2>8. Linked(u, Swap(M0, t, r))
    BY <1>3, <1>18, <1>25, <2>4, <2>6, <2>7, LinkedSwapped
  <2>. QED
    BY <1>25, <2>8
<1>33. u \in Trees /\ \A x \in Values : u.dup[x] = IF x = t THEN 0 ELSE h.dup[x]
  BY <1>10 DEF InnerOut
<1>34. \A x \in Values : u.dup[x] > 0 <=> x \in M
  BY <1>0, <1>33
<1>35. z \in M
  BY <1>3, <1>8, <1>d
<1>36. IsFiniteSet(M)
  BY <1>0, FS_Subset
<1>37. PICK ins : ins = FALSE
  OBVIOUS
<1>38. f = UpdateHeight(u, z, ins)
  BY <1>1, <1>37, Zenon
<1>. HIDE DEF M
<1>39. PICK E : Rebuilt(u, f, M, E)
  BY <1>29, <1>30, <1>32, <1>33, <1>34, <1>35, <1>36, <1>38, UpdatedTree
<1>40. SearchTree(f, M, E) /\ (TreeCounted(u, M) => TreeCounted(f, M)) /\ f.dup = u.dup
  BY <1>39 DEF Rebuilt
<1>41. Deleted(h, f, N, t, E)
  BY <1>31, <1>33, <1>40 DEF Deleted, M
<1>. QED
  BY <1>41

(* The tree of a window, which may be empty.                               *)
WindowTree(h, N, D) == (N = {} /\ h = EmptyTree) \/ SearchTree(h, N, D)

(* One sample less.                                                        *)
Left(h, f, N, M, t, E) ==
  /\ WindowTree(f, M, E) /\ (TreeCounted(h, N) => TreeCounted(f, M))
  /\ \A x \in Values : f.dup[x] = IF x = t THEN h.dup[t] - 1 ELSE h.dup[x]

LEMMA EmptyTreeFacts ==
  /\ EmptyTree \in Trees /\ EmptyTree.root = NoItem
  /\ \A x \in Values : EmptyTree.dup[x] = 0
  /\ \A x \in Values, y \in Sides : EmptyTree.child[y][x] = NoItem /\ EmptyTree.next[y][x] = NoItem
  /\ \A x \in Values : EmptyTree.parent[x] = NoItem /\ EmptyTree.height[x] = 0 /\ EmptyTree.count[x] = 0
  BY DEF EmptyTree, Trees, Pointers

LEMMA OnlyNode ==
  ASSUME NEW h, NEW N, NEW D, SearchTree(h, N, D), NEW t \in N, IsLast(h, t)
  PROVE  N = {t}
<1>0. h \in Trees /\ Shaped(h, N, D) /\ IsFiniteSet(N) /\ Rooted(h, N)
  BY DEF SearchTree
<1>1. h.parent[t] = NoItem /\ h.child[L][t] = NoItem /\ h.child[R][t] = NoItem
  BY DEF IsLast, Sides
<1>2. h.root = t
  BY <1>0, <1>1 DEF Rooted, Shaped, OneRoot
<1>3. D[h.root] = N
  BY <1>0, AllBelowRoot
<1>4. D[t] = {t}
  BY <1>0, <1>1 DEF Shaped, Descends, Below
<1>. QED
  BY <1>2, <1>3, <1>4

LEMMA DeleteKeeps ==
  ASSUME NEW h, NEW N, NEW D, SearchTree(h, N, D), NEW t \in N, NEW f, f = Delete(h, t),
         NEW M, M = IF h.dup[t] > 1 THEN N ELSE N \ {t}
  PROVE  \E E : Left(h, f, N, M, t, E)
<1>0. /\ h \in Trees /\ N \subseteq Values /\ Shaped(h, N, D) /\ IsFiniteSet(N) /\ t \in Values
      /\ \A x \in Values : h.dup[x] > 0 <=> x \in N
      /\ L \in Sides /\ R \in Sides /\ Sides = {L, R}
  BY DEF SearchTree, Shaped, Sides
<1>1. h.dup[t] \in Nat \ {0} /\ \A x \in Values : h.dup[x] \in Nat
  BY <1>0, TreeFields
<1>2. CASE h.dup[t] > 1
  <2>. DEFINE k == h.dup[t] - 1
              d == -1
  <2>1. f = AddCount(SetDup(h, t, k), ToSet(Path(h, t)), d)
    BY <1>2, Zenon DEF Delete
  <2>2. k \in Nat \ {0} /\ d \in Int /\ k = h.dup[t] + d /\ k = h.dup[t] - 1
    BY <1>1, <1>2
  <2>. HIDE DEF k, d
  <2>3. /\ SearchTree(f, N, D) /\ (TreeCounted(h, N) => TreeCounted(f, N))
        /\ \A x \in Values : f.dup[x] = IF x = t THEN k ELSE h.dup[x]
    BY <1>0, <2>1, <2>2, SameNodes
  <2>4. M = N
    BY <1>2
  <2>5. Left(h, f, N, M, t, D)
    BY <2>2, <2>3, <2>4 DEF Left, WindowTree
  <2>. QED
    BY <2>5
<1>3. CASE ~ (h.dup[t] > 1)
  <2>1. M = N \ {t} /\ h.dup[t] - 1 = 0
    BY <1>1, <1>3
  <2>2. ASSUME NEW E, Deleted(h, f, N, t, E) PROVE Left(h, f, N, M, t, E)
    BY <2>1, <2>2 DEF Left, Deleted, WindowTree
  <2>3. CASE IsLast(h, t)
    <3>1. N = {t}
      BY <2>3, OnlyNode
    <3>2. f = EmptyTree
      BY <1>3, <2>3, Zenon DEF Delete
    <3>3. M = {}
      BY <2>1, <3>1
    <3>4. \A x \in Values : f.dup[x] = IF x = t THEN h.dup[t] - 1 ELSE h.dup[x]
      BY <1>0, <1>1, <2>1, <3>1, <3>2, EmptyTreeFacts
    <3>5. Left(h, f, N, M, t, D)
      BY <3>2, <3>3, <3>4 DEF Left, WindowTree, TreeCounted
    <3>. QED
      BY <3>5
  <2>4. CASE ~ IsLast(h, t) /\ h.child[L][t] # NoItem
    <3>1. f = DeleteInner(h, t, L)
      BY <1>3, <2>4, Zenon DEF Delete
    <3>. QED
      BY <1>0, <2>2, <2>4, <3>1, DeleteInnerKeeps
  <2>5. CASE ~ IsLast(h, t) /\ h.child[L][t] = NoItem /\ h.child[R][t] # NoItem
    <3>1. f = DeleteInner(h, t, R)
      BY <1>3, <2>5, Zenon DEF Delete
    <3>. QED
      BY <1>0, <2>2, <2>5, <3>1, DeleteInnerKeeps
  <2>6. CASE ~ IsLast(h, t) /\ h.child[L][t] = NoItem /\ h.child[R][t] = NoItem
    <3>1. f = DeleteLeaf(h, t)
      BY <1>3, <2>6, Zenon DEF Delete
    <3>2. h.parent[t] # NoItem
      BY <1>0, <2>6 DEF IsLast
    <3>. QED
      BY <2>2, <2>6, <3>1, <3>2, DeleteLeafKeeps
  <2>. QED
    BY <2>3, <2>4, <2>5, <2>6
<1>. QED
  BY <1>2, <1>3

(* A tree with one node.                                                   *)
Planted(h, v, k, E) ==
  /\ SearchTree(h, {v}, E) /\ (k = 1 => TreeCounted(h, {v}))
  /\ \A x \in Values : h.dup[x] = IF x = v THEN k ELSE 0

LEMMA RootNodeFacts ==
  ASSUME NEW v \in Values, NEW k \in Nat \ {0}, NEW h, h = RootNode(v, k)
  PROVE  /\ h \in Trees /\ h.root = v
         /\ \A x \in Values, y \in Sides : h.child[y][x] = NoItem /\ h.next[y][x] = NoItem
         /\ \A x \in Values : /\ h.parent[x] = NoItem
                              /\ h.height[x] = IF x = v THEN 1 ELSE 0
                              /\ h.count[x] = IF x = v THEN 1 ELSE 0
                              /\ h.dup[x] = IF x = v THEN k ELSE 0
<1>1. h = [EmptyTree EXCEPT !.root = v,
                            !.height = [EmptyTree.height EXCEPT ![v] = 1],
                            !.count = [EmptyTree.count EXCEPT ![v] = 1],
                            !.dup = [EmptyTree.dup EXCEPT ![v] = k]]
  BY DEF RootNode, EmptyTree
<1>. DEFINE ht == [EmptyTree.height EXCEPT ![v] = 1]
            ct == [EmptyTree.count EXCEPT ![v] = 1]
            dt == [EmptyTree.dup EXCEPT ![v] = k]
<1>2. /\ ht \in [Values -> Nat] /\ ct \in [Values -> Int] /\ dt \in [Values -> Nat]
      /\ \A x \in Values : /\ ht[x] = IF x = v THEN 1 ELSE 0
                           /\ ct[x] = IF x = v THEN 1 ELSE 0
                           /\ dt[x] = IF x = v THEN k ELSE 0
  BY DEF EmptyTree
<1>3. h = [EmptyTree EXCEPT !.root = v, !.height = ht, !.count = ct, !.dup = dt]
  BY <1>1
<1>. HIDE DEF ht, ct, dt
<1>4. EmptyTree \in Trees
  BY EmptyTreeFacts
<1>5. /\ h \in Trees /\ h.root = v /\ h.height = ht /\ h.count = ct /\ h.dup = dt
      /\ h.child = EmptyTree.child /\ h.next = EmptyTree.next /\ h.parent = EmptyTree.parent
  BY <1>2, <1>3, <1>4 DEF Trees
<1>. QED
  BY <1>2, <1>5, EmptyTreeFacts

LEMMA RootNodeKeeps ==
  ASSUME NEW v \in Values, NEW k \in Nat \ {0}, NEW h, h = RootNode(v, k)
  PROVE  \E E : Planted(h, v, k, E)
<1>. DEFINE N == {v}
            E == [x \in Values |-> {v}]
<1>0. /\ h \in Trees /\ h.root = v
      /\ \A x \in Values, y \in Sides : h.child[y][x] = NoItem /\ h.next[y][x] = NoItem
      /\ \A x \in Values : /\ h.parent[x] = NoItem
                           /\ h.height[x] = IF x = v THEN 1 ELSE 0
                           /\ h.count[x] = IF x = v THEN 1 ELSE 0
                           /\ h.dup[x] = IF x = v THEN k ELSE 0
  BY RootNodeFacts
<1>1. L \in Sides /\ R \in Sides
  BY DEF Sides
<1>2. Shaped(h, N, E)
  BY <1>0, <1>1 DEF Shaped, Descends, Sided, ChildLinks, ParentLinks, Outside, OneRoot, Below
<1>3. Linked(h, N)
  BY <1>0 DEF Linked, Neighbor
<1>4. ExactBut(h, N, {})
  BY <1>0, <1>1 DEF ExactBut, HeightHere, HeightOf
<1>5. IsFiniteSet(N)
  BY FS_Singleton
<1>6. SearchTree(h, N, E)
  BY <1>0, <1>2, <1>3, <1>4, <1>5 DEF SearchTree, Rooted
<1>7. k = 1 => TreeCounted(h, N)
  BY <1>0, <1>1 DEF TreeCounted, CountOf
<1>8. Planted(h, v, k, E)
  BY <1>0, <1>6, <1>7 DEF Planted
<1>. QED
  BY <1>8

-----------------------------------------------------------------------------
(***************************************************************************)
(* How many samples of a queue are in a set.                               *)
(***************************************************************************)
Places(q, S) == {i \in DOMAIN q : q[i] \in S}
Among(q, S) == Cardinality(Places(q, S))

LEMMA AmongFacts ==
  ASSUME NEW q \in Seq(Values), NEW S
  PROVE  /\ IsFiniteSet(Places(q, S)) /\ Among(q, S) \in Nat
         /\ Places(q, S) \subseteq 1 .. Len(q) /\ Len(q) \in Nat /\ DOMAIN q = 1 .. Len(q)
         /\ Among(q, S) = 0 <=> \A i \in 1 .. Len(q) : q[i] \notin S
<1>1. Len(q) \in Nat /\ DOMAIN q = 1 .. Len(q)
  OBVIOUS
<1>2. Places(q, S) \subseteq 1 .. Len(q)
  BY <1>1 DEF Places
<1>3. IsFiniteSet(1 .. Len(q))
  BY <1>1, FS_Interval
<1>4. IsFiniteSet(Places(q, S))
  BY <1>2, <1>3, FS_Subset
<1>5. Among(q, S) \in Nat
  BY <1>4, FS_CardinalityType DEF Among
<1>6. Among(q, S) = 0 <=> Places(q, S) = {}
  BY <1>4, FS_EmptySet DEF Among
<1>7. Places(q, S) = {} <=> \A i \in 1 .. Len(q) : q[i] \notin S
  BY <1>1 DEF Places
<1>. QED
  BY <1>1, <1>2, <1>4, <1>5, <1>6, <1>7

LEMMA AmongSame ==
  ASSUME NEW q \in Seq(Values), NEW S, NEW T, \A i \in 1 .. Len(q) : q[i] \in S <=> q[i] \in T
  PROVE  Among(q, S) = Among(q, T)
<1>1. Places(q, S) = Places(q, T)
  BY DEF Places
<1>. QED
  BY <1>1 DEF Among

LEMMA AmongUnion ==
  ASSUME NEW q \in Seq(Values), NEW S, NEW T, S \cap T = {}
  PROVE  Among(q, S \cup T) = Among(q, S) + Among(q, T)
<1>. DEFINE A == Places(q, S)
            B == Places(q, T)
<1>1. Places(q, S \cup T) = A \cup B /\ A \cap B = {}
  BY DEF Places
<1>2. IsFiniteSet(A) /\ IsFiniteSet(B) /\ Cardinality(A) \in Nat /\ Cardinality(B) \in Nat
  BY AmongFacts DEF Among
<1>. HIDE DEF A, B
<1>3. Cardinality(A \cup B) = Cardinality(A) + Cardinality(B) - Cardinality(A \cap B)
  BY <1>2, FS_Union
<1>4. Cardinality(A \cap B) = 0
  BY <1>1, FS_EmptySet
<1>5. Cardinality(A \cup B) = Cardinality(A) + Cardinality(B)
  BY <1>2, <1>3, <1>4
<1>. QED
  BY <1>1, <1>5 DEF Among, A, B

(* k samples are appended.                                                 *)
Grown(q, r, v, k) ==
  /\ r \in Seq(Values) /\ Len(r) = Len(q) + k
  /\ \A S : Among(r, S) = Among(q, S) + IF v \in S THEN k ELSE 0

LEMMA WithSamplesFacts ==
  ASSUME NEW q \in Seq(Values), NEW v \in Values, NEW k \in Nat, NEW r, r = WithSamples(q, v, k)
  PROVE  Grown(q, r, v, k)
<1>. DEFINE n == Len(q)
            c == [i \in 1 .. k |-> v]
<1>1. n \in Nat /\ DOMAIN q = 1 .. n
  OBVIOUS
<1>2. c \in Seq(Values) /\ Len(c) = k
  OBVIOUS
<1>3. /\ r \in Seq(Values) /\ Len(r) = n + k
      /\ \A i \in 1 .. n : r[i] = q[i]
      /\ \A i \in n + 1 .. n + k : r[i] = v
  <2>1. r = q \o c
    BY DEF WithSamples
  <2>2. r \in Seq(Values) /\ Len(r) = n + k
    BY <1>1, <1>2, <2>1
  <2>3. ASSUME NEW i \in 1 .. n PROVE r[i] = q[i]
    BY <1>1, <1>2, <2>1
  <2>4. ASSUME NEW i \in n + 1 .. n + k PROVE r[i] = v
    <3>1. i \in 1 .. n + k /\ i > n /\ i - n \in 1 .. k
      BY <1>1
    <3>2. r[i] = c[i - n]
      BY <1>1, <1>2, <2>1, <3>1
    <3>. QED
      BY <3>1, <3>2
  <2>. QED
    BY <2>2, <2>3, <2>4
<1>. HIDE DEF n, c
<1>4. ASSUME NEW S PROVE Among(r, S) = Among(q, S) + IF v \in S THEN k ELSE 0
  <2>. DEFINE A == Places(q, S)
              B == IF v \in S THEN n + 1 .. n + k ELSE {}
  <2>1. DOMAIN r = 1 .. n + k
    BY <1>3
  <2>2. Places(r, S) = A \cup B
    <3>1. ASSUME NEW i \in 1 .. n + k PROVE i \in 1 .. n \/ i \in n + 1 .. n + k
      BY <1>1
    <3>2. 1 .. n \subseteq 1 .. n + k /\ n + 1 .. n + k \subseteq 1 .. n + k
      BY <1>1
    <3>. QED
      BY <1>1, <1>3, <2>1, <3>1, <3>2 DEF Places
  <2>3. A \subseteq 1 .. n /\ IsFiniteSet(A) /\ Cardinality(A) \in Nat
    BY AmongFacts DEF Among, n
  <2>4. IsFiniteSet(B) /\ Cardinality(B) = IF v \in S THEN k ELSE 0
    <3>1. IsFiniteSet(n + 1 .. n + k) /\ Cardinality(n + 1 .. n + k) = k
      <4>1. n + 1 \in Int /\ n + k \in Int
        BY <1>1
      <4>2. /\ IsFiniteSet(n + 1 .. n + k)
            /\ Cardinality(n + 1 .. n + k) = IF n + 1 > n + k THEN 0 ELSE (n + k) - (n + 1) + 1
        BY <4>1, FS_Interval
      <4>. QED
        BY <1>1, <4>2
    <3>. QED
      BY <3>1, FS_EmptySet
  <2>5. A \cap B = {}
    BY <1>1, <2>3
  <2>. HIDE DEF A, B
  <2>6. Cardinality(A \cup B) = Cardinality(A) + Cardinality(B) - Cardinality(A \cap B)
    BY <2>3, <2>4, FS_Union
  <2>7. Cardinality(A \cap B) = 0
    BY <2>5, FS_EmptySet
  <2>8. Cardinality(B) \in Nat
    BY <2>4
  <2>9. Cardinality(A \cup B) = Cardinality(A) + Cardinality(B)
    BY <2>3, <2>6, <2>7, <2>8
  <2>. QED
    BY <2>2, <2>4, <2>9 DEF Among, A
<1>. QED
  BY <1>3, <1>4 DEF Grown, n

(* The oldest sample leaves.                                               *)
Shrunk(q, r, v) ==
  /\ r \in Seq(Values) /\ Len(r) = Len(q) - 1 /\ v \in Values
  /\ \A S : Among(r, S) = Among(q, S) - IF v \in S THEN 1 ELSE 0

LEMMA TailFacts ==
  ASSUME NEW q \in Seq(Values), Len(q) > 0, NEW r, r = Tail(q), NEW v, v = Head(q)
  PROVE  Shrunk(q, r, v)
<1>. DEFINE n == Len(q)
<1>1. /\ n \in Nat \ {0} /\ DOMAIN q = 1 .. n /\ v = q[1] /\ v \in Values
      /\ r \in Seq(Values) /\ Len(r) = n - 1 /\ DOMAIN r = 1 .. n - 1
      /\ \A i \in 1 .. n - 1 : r[i] = q[i + 1]
  OBVIOUS
<1>. HIDE DEF n
<1>2. ASSUME NEW S PROVE Among(r, S) = Among(q, S) - IF v \in S THEN 1 ELSE 0
  <2>. DEFINE A == Places(q, S)
              B == Places(r, S)
              later == A \ {1}
              f == [i \in B |-> i + 1]
  <2>1. IsFiniteSet(A) /\ Cardinality(A) \in Nat /\ A \subseteq 1 .. n
    BY AmongFacts DEF Among, n
  <2>2. IsFiniteSet(B) /\ B \subseteq 1 .. n - 1
    BY <1>1, AmongFacts DEF Among
  <2>3. 1 \in A <=> v \in S
    BY <1>1 DEF Places
  <2>4. Cardinality(later) = Cardinality(A) - IF v \in S THEN 1 ELSE 0
    <3>. HIDE DEF A
    <3>1. Cardinality(A \ {1}) = IF 1 \in A THEN Cardinality(A) - 1 ELSE Cardinality(A)
      BY <2>1, FS_RemoveElement
    <3>. QED
      BY <2>1, <2>3, <3>1
  <2>5. ASSUME NEW i \in B PROVE i + 1 \in later
    <3>1. i \in 1 .. n - 1 /\ r[i] \in S
      BY <2>2 DEF Places
    <3>2. i + 1 \in 1 .. n /\ i + 1 # 1 /\ q[i + 1] \in S
      BY <1>1, <3>1
    <3>. QED
      BY <1>1, <3>2 DEF Places
  <2>6. ASSUME NEW j \in later PROVE j - 1 \in B /\ (j - 1) + 1 = j
    <3>1. j \in 1 .. n /\ j # 1 /\ q[j] \in S
      BY <1>1 DEF Places
    <3>2. j - 1 \in 1 .. n - 1 /\ (j - 1) + 1 = j
      BY <1>1, <3>1
    <3>3. r[j - 1] = q[j]
      BY <1>1, <3>2
    <3>. QED
      BY <1>1, <3>1, <3>2, <3>3 DEF Places
  <2>7. \A i \in B : i \in Int
    BY <1>1, <2>2
  <2>. HIDE DEF A, B, later
  <2>8. f \in [B -> later] /\ (\A i, j \in B : f[i] = f[j] => i = j) /\ \A j \in later : \E i \in B : f[i] = j
    BY <2>5, <2>6, <2>7
  <2>9. f \in Bijection(B, later)
    <3>. HIDE DEF f
    <3>. QED
      BY <2>8 DEF Bijection, Injection, Surjection, IsInjective
  <2>10. Cardinality(later) = Cardinality(B)
    <3>. HIDE DEF f
    <3>1. ExistsBijection(B, later)
      BY <2>9 DEF ExistsBijection
    <3>. QED
      BY <2>2, <3>1, FS_Bijection
  <2>. QED
    BY <2>4, <2>10 DEF Among, A, B
<1>. QED
  BY <1>1, <1>2 DEF Shrunk, n

(* A count is the number of samples in the subtree.                        *)
Weighed(h, q) == \A v \in Values : h.dup[v] = Among(q, {v})

LEMMA CountsBelow ==
  ASSUME NEW h, NEW N, NEW D, SearchTree(h, N, D), TreeCounted(h, N),
         NEW q \in Seq(Values), Weighed(h, q), NEW n \in N
  PROVE  h.count[n] = Among(q, D[n])
<1>0. h \in Trees /\ IsFiniteSet(N) /\ Shaped(h, N, D) /\ N \subseteq Values
  BY DEF SearchTree, Shaped
<1>. DEFINE K == Cardinality(N)
            T == {m \in 0 .. K : \A x \in N : Cardinality(D[x]) <= m => h.count[x] = Among(q, D[x])}
<1>1. K \in Nat /\ \A x \in N : Cardinality(D[x]) \in 0 .. K
  <2>1. K \in Nat
    BY <1>0, FS_CardinalityType
  <2>. QED
    BY <1>0, <2>1, SmallerBelow
<1>2. ASSUME NEW x \in N, NEW m \in Nat, Cardinality(D[x]) <= m,
             \A y \in N : Cardinality(D[y]) < m => h.count[y] = Among(q, D[y])
      PROVE  h.count[x] = Among(q, D[x])
  <2>. DEFINE l == h.child[L][x]
              r == h.child[R][x]
  <2>1. /\ x \in Values /\ L \in Sides /\ R \in Sides /\ Other(L) = R /\ l \in N \cup {NoItem} /\ r \in N \cup {NoItem}
        /\ D[x] = ({x} \cup Below(D, l)) \cup Below(D, r)
    <3>1. L \in Sides /\ R \in Sides /\ Other(L) = R
      BY DEF Sides, Other, L, R
    <3>. QED
      BY <1>0, <3>1, ShapeFacts
  <2>2. x \notin Below(D, l) /\ x \notin Below(D, r) /\ Below(D, l) \cap Below(D, r) = {}
    <3>1. \A m1 \in Below(D, l) : m1 # x /\ m1 \notin Below(D, r)
      BY <1>0, <2>1, ShapeApart
    <3>2. \A m1 \in Below(D, r) : m1 # x
      BY <1>0, <2>1, ShapeApart
    <3>. QED
      BY <3>1, <3>2
  <2>3. ASSUME NEW s \in Sides PROVE CountOf(h, h.child[s][x]) = Among(q, Below(D, h.child[s][x]))
    <3>. DEFINE c == h.child[s][x]
    <3>1. CASE c = NoItem
      <4>1. Among(q, {}) = 0
        BY AmongFacts
      <4>. QED
        BY <3>1, <4>1 DEF CountOf, Below
    <3>2. CASE c # NoItem
      <4>1. c \in N
        BY <1>0, <3>2, ShapeFacts
      <4>2. Cardinality(D[c]) < Cardinality(D[x])
        BY <1>0, <3>2, SmallerBelow
      <4>3. Cardinality(D[c]) < m
        <5>. HIDE DEF c
        <5>1. Cardinality(D[c]) \in 0 .. K /\ Cardinality(D[x]) \in 0 .. K
          BY <1>1, <4>1
        <5>. QED
          BY <1>1, <1>2, <4>2, <5>1
      <4>4. h.count[c] = Among(q, D[c])
        BY <1>2, <4>1, <4>3
      <4>. QED
        BY <3>2, <4>4 DEF CountOf, Below
    <3>. QED
      BY <3>1, <3>2
  <2>4. h.count[x] = h.dup[x] + CountOf(h, l) + CountOf(h, r)
    BY DEF TreeCounted
  <2>. HIDE DEF l, r
  <2>5. CountOf(h, l) = Among(q, Below(D, l)) /\ CountOf(h, r) = Among(q, Below(D, r))
    BY <2>1, <2>3 DEF l, r
  <2>6. Among(q, ({x} \cup Below(D, l)) \cup Below(D, r)) = Among(q, {x} \cup Below(D, l)) + Among(q, Below(D, r))
    <3>1. ({x} \cup Below(D, l)) \cap Below(D, r) = {}
      BY <2>2
    <3>. QED
      BY <3>1, AmongUnion
  <2>7. Among(q, {x} \cup Below(D, l)) = Among(q, {x}) + Among(q, Below(D, l))
    <3>1. {x} \cap Below(D, l) = {}
      BY <2>2
    <3>. QED
      BY <3>1, AmongUnion
  <2>8. h.dup[x] = Among(q, {x})
    BY <2>1 DEF Weighed
  <2>. QED
    BY <2>1, <2>4, <2>5, <2>6, <2>7, <2>8
<1>3. 0 \in T
  <2>1. ASSUME NEW x \in N, Cardinality(D[x]) <= 0 PROVE h.count[x] = Among(q, D[x])
    <3>1. \A y \in N : ~ (Cardinality(D[y]) < 0)
      BY <1>1
    <3>. QED
      BY <1>2, <2>1, <3>1
  <2>. QED
    BY <1>1, <2>1
<1>4. ASSUME NEW m \in 0 .. K - 1, m \in T PROVE m + 1 \in T
  <2>1. m + 1 \in 0 .. K /\ m \in Nat /\ m + 1 \in Nat
    BY <1>1
  <2>2. \A y \in N : Cardinality(D[y]) < m + 1 => h.count[y] = Among(q, D[y])
    <3>1. \A y \in N : Cardinality(D[y]) < m + 1 => Cardinality(D[y]) <= m
      BY <1>1, <2>1
    <3>. QED
      BY <1>4, <3>1
  <2>3. ASSUME NEW x \in N, Cardinality(D[x]) <= m + 1 PROVE h.count[x] = Among(q, D[x])
    BY <1>2, <2>1, <2>2, <2>3
  <2>. QED
    BY <2>1, <2>3
<1>5. 0 .. K \subseteq T
  <2>. HIDE DEF T, K
  <2>. QED
    BY <1>1, <1>3, <1>4, InductionUpTo
<1>6. K \in T
  BY <1>1, <1>5
<1>. QED
  BY <1>1, <1>6

-----------------------------------------------------------------------------
(***************************************************************************)
(* The inductive invariant of a window that is not empty.                  *)
(***************************************************************************)
NodesOf(h) == {v \in Values : h.dup[v] > 0}
Bounds(N, lo, hi) == lo \in N /\ hi \in N /\ \A x \in N : lo <= x /\ x <= hi

GoodWindow(s) ==
  /\ s.Queue \in Seq(Values) /\ Len(s.Queue) > 0
  /\ \E D : SearchTree(s.tree, NodesOf(s.tree), D)
  /\ SampleCounts \subseteq {1} => TreeCounted(s.tree, NodesOf(s.tree))
  /\ Weighed(s.tree, s.Queue)
  /\ Bounds(NodesOf(s.tree), s.MinItem, s.MaxItem)

LEMMA SearchNodes ==
  ASSUME NEW h, NEW N, NEW D, SearchTree(h, N, D)
  PROVE  N = NodesOf(h) /\ N \subseteq Values /\ N \subseteq Nat /\ Linked(h, N)
  BY HistogramTreeAssumption DEF SearchTree, NodesOf, Shaped

LEMMA FirstSound ==
  ASSUME NEW v \in Values, NEW k \in SampleCounts, NEW s, s = First(v, k)
  PROVE  GoodWindow(s) /\ Len(s.Queue) = k
<1>0. k \in Nat \ {0} /\ v \in Nat
  BY HistogramAssumption, HistogramTreeAssumption
<1>. DEFINE h == RootNode(v, k)
            q == WithSamples(<<>>, v, k)
<1>1. s.tree = h /\ s.Queue = q /\ s.MinItem = v /\ s.MaxItem = v
  BY DEF First
<1>. HIDE DEF h, q
<1>2. PICK E : Planted(h, v, k, E)
  BY <1>0, RootNodeKeeps DEF h
<1>3. SearchTree(h, {v}, E) /\ (k = 1 => TreeCounted(h, {v})) /\ \A x \in Values : h.dup[x] = IF x = v THEN k ELSE 0
  BY <1>2 DEF Planted
<1>4. {v} = NodesOf(h)
  BY <1>3, SearchNodes
<1>5. <<>> \in Seq(Values) /\ Len(<<>>) = 0
  OBVIOUS
<1>6. q \in Seq(Values) /\ Len(q) = k /\ \A S : Among(q, S) = Among(<<>>, S) + IF v \in S THEN k ELSE 0
  <2>1. Grown(<<>>, q, v, k)
    BY <1>0, <1>5, WithSamplesFacts DEF q
  <2>. QED
    BY <1>0, <1>5, <2>1 DEF Grown
<1>7. \A S : Among(<<>>, S) = 0
  <2>1. ASSUME NEW S PROVE Among(<<>>, S) = 0
    <3>1. Among(<<>>, S) = 0 <=> \A i \in 1 .. Len(<<>>) : <<>>[i] \notin S
      BY <1>5, AmongFacts
    <3>. QED
      BY <1>5, <3>1
  <2>. QED
    BY <2>1
<1>8. Weighed(h, q)
  <2>1. ASSUME NEW x \in Values PROVE h.dup[x] = Among(q, {x})
    <3>1. x = v => Among(q, {x}) = k
      BY <1>0, <1>6, <1>7
    <3>2. x # v => Among(q, {x}) = 0
      BY <1>6, <1>7
    <3>. QED
      BY <1>3, <3>1, <3>2
  <2>. QED
    BY <2>1 DEF Weighed
<1>9. Bounds({v}, v, v)
  BY <1>0 DEF Bounds
<1>10. SampleCounts \subseteq {1} => k = 1
  OBVIOUS
<1>11. SampleCounts \subseteq {1} => TreeCounted(h, {v})
  BY <1>3, <1>10
<1>12. q \in Seq(Values) /\ Len(q) > 0
  BY <1>0, <1>6
<1>13. /\ SearchTree(h, NodesOf(h), E) /\ Bounds(NodesOf(h), v, v)
       /\ SampleCounts \subseteq {1} => TreeCounted(h, NodesOf(h))
  BY <1>3, <1>4, <1>9, <1>11, Zenon
<1>14. GoodWindow(s)
  BY <1>1, <1>8, <1>12, <1>13 DEF GoodWindow
<1>. QED
  BY <1>1, <1>6, <1>14

(* The extremes follow a new node.                                         *)
LEMMA NewExtremes ==
  ASSUME NEW N, NEW v \in Values, N \subseteq Values, NEW lo, NEW hi, Bounds(N, lo, hi),
         NEW h, Linked(h, N \cup {v})
  PROVE  Bounds(N \cup {v}, IF h.next[L][lo] = NoItem THEN lo ELSE h.next[L][lo],
                            IF h.next[R][hi] = NoItem THEN hi ELSE h.next[R][hi])
<1>. DEFINE M == N \cup {v}
            a == h.next[L][lo]
            b == h.next[R][hi]
<1>1. lo \in M /\ hi \in M /\ M \subseteq Nat /\ \A x \in N : lo <= x /\ x <= hi
  BY HistogramTreeAssumption DEF Bounds
<1>2. Neighbor(M, lo, L, a) /\ Neighbor(M, hi, R, b)
  BY <1>1 DEF Linked, Sides
<1>. HIDE DEF a, b
<1>3. L # R /\ \A x, y \in Nat : (Towards(x, y) = L <=> x < y) /\ (Towards(x, y) = R <=> ~ (x < y))
  BY DEF Towards, L, R
<1>4. a = NoItem => \A x \in M : lo <= x
  BY <1>1, <1>2, <1>3 DEF Neighbor
<1>5. a # NoItem => a \in M /\ \A x \in M : a <= x
  <2>1. SUFFICES ASSUME a # NoItem PROVE a \in M /\ \A x \in M : a <= x
    OBVIOUS
  <2>2. /\ a \in M /\ a < lo
        /\ \A x \in M : x # lo /\ x # a /\ x < lo => x < a
    BY <1>1, <1>2, <1>3, <2>1 DEF Neighbor
  <2>3. a = v
    BY <1>1, <2>2
  <2>. QED
    BY <1>1, <2>2, <2>3
<1>6. b = NoItem => \A x \in M : x <= hi
  BY <1>1, <1>2, <1>3 DEF Neighbor
<1>7. b # NoItem => b \in M /\ \A x \in M : x <= b
  <2>1. SUFFICES ASSUME b # NoItem PROVE b \in M /\ \A x \in M : x <= b
    OBVIOUS
  <2>2. b \in M /\ b # hi /\ ~ (b < hi)
    BY <1>1, <1>2, <1>3, <2>1 DEF Neighbor
  <2>3. b = v
    BY <1>1, <2>2
  <2>. QED
    BY <1>1, <2>2, <2>3
<1>. HIDE DEF M
<1>8. CASE a = NoItem /\ b = NoItem
  BY <1>1, <1>4, <1>6, <1>8 DEF Bounds, M, a, b
<1>9. CASE a = NoItem /\ b # NoItem
  BY <1>1, <1>4, <1>7, <1>9 DEF Bounds, M, a, b
<1>10. CASE a # NoItem /\ b = NoItem
  BY <1>1, <1>5, <1>6, <1>10 DEF Bounds, M, a, b
<1>11. CASE a # NoItem /\ b # NoItem
  BY <1>1, <1>5, <1>7, <1>11 DEF Bounds, M, a, b
<1>. QED
  BY <1>8, <1>9, <1>10, <1>11

LEMMA AddedSound ==
  ASSUME NEW r, GoodWindow(r), NEW v \in Values, NEW k \in SampleCounts, NEW s, s = Added(r, v, k)
  PROVE  GoodWindow(s) /\ Len(s.Queue) = Len(r.Queue) + k
<1>0. k \in Nat \ {0} /\ v \in Nat
  BY HistogramAssumption, HistogramTreeAssumption
<1>. DEFINE h == r.tree
            N == NodesOf(h)
            p == r.Queue
            f == Insert(r.tree, v, k)
            q == WithSamples(r.Queue, v, k)
<1>1. /\ p \in Seq(Values) /\ Len(p) > 0 /\ Weighed(h, p) /\ Bounds(N, r.MinItem, r.MaxItem)
      /\ SampleCounts \subseteq {1} => TreeCounted(h, N)
  BY DEF GoodWindow
<1>2. PICK D : SearchTree(h, N, D)
  BY DEF GoodWindow
<1>3. /\ s.tree = f /\ s.Queue = q
      /\ s.MinItem = IF f.next[L][r.MinItem] = NoItem THEN r.MinItem ELSE f.next[L][r.MinItem]
      /\ s.MaxItem = IF f.next[R][r.MaxItem] = NoItem THEN r.MaxItem ELSE f.next[R][r.MaxItem]
  BY DEF Added
<1>d. f = Insert(h, v, k)
  OBVIOUS
<1>e. q = WithSamples(p, v, k)
  OBVIOUS
<1>. HIDE DEF f, q, h, N, p
<1>4. PICK E : Inserted(h, f, N, v, k, E)
  BY <1>0, <1>2, <1>d, InsertKeeps
<1>5. /\ SearchTree(f, N \cup {v}, E)
      /\ \A x \in Values : f.dup[x] = IF x = v THEN h.dup[v] + k ELSE h.dup[x]
      /\ TreeCounted(h, N) /\ (k = 1 \/ v \in N) => TreeCounted(f, N \cup {v})
  BY <1>4 DEF Inserted
<1>6. N \cup {v} = NodesOf(f) /\ Linked(f, N \cup {v}) /\ N \subseteq Values
  BY <1>5, SearchNodes
<1>7. q \in Seq(Values) /\ Len(q) = Len(p) + k /\ \A S : Among(q, S) = Among(p, S) + IF v \in S THEN k ELSE 0
  <2>1. Grown(p, q, v, k)
    BY <1>0, <1>1, <1>e, WithSamplesFacts
  <2>. QED
    BY <2>1 DEF Grown
<1>8. Len(q) > 0
  <2>1. Len(p) \in Nat
    BY <1>1
  <2>. QED
    BY <1>0, <1>7, <2>1
<1>9. Weighed(f, q)
  <2>1. ASSUME NEW x \in Values PROVE f.dup[x] = Among(q, {x})
    <3>1. h.dup[x] = Among(p, {x}) /\ Among(p, {x}) \in Nat
      BY <1>1, AmongFacts DEF Weighed
    <3>2. x = v => Among(q, {x}) = Among(p, {x}) + k
      BY <1>7
    <3>3. x # v => Among(q, {x}) = Among(p, {x})
      BY <1>7, <3>1
    <3>. QED
      BY <1>5, <3>1, <3>2, <3>3
  <2>. QED
    BY <2>1 DEF Weighed
<1>10. Bounds(N \cup {v}, s.MinItem, s.MaxItem)
  BY <1>1, <1>3, <1>6, NewExtremes
<1>11. SampleCounts \subseteq {1} => TreeCounted(f, N \cup {v})
  <2>1. SampleCounts \subseteq {1} => k = 1
    OBVIOUS
  <2>. QED
    BY <1>1, <1>5, <2>1
<1>. QED
  BY <1>3, <1>5, <1>6, <1>7, <1>8, <1>9, <1>10, <1>11 DEF GoodWindow, p

(* The neighbor of an extreme item that leaves is the next one.            *)
LEMMA ExtremesLeft ==
  ASSUME NEW h, NEW N, N \subseteq Values, Linked(h, N), NEW v \in N, N \ {v} # {},
         NEW lo, NEW hi, Bounds(N, lo, hi)
  PROVE  Bounds(N \ {v}, IF v = lo THEN h.next[R][v] ELSE lo, IF v = hi THEN h.next[L][v] ELSE hi)
<1>. DEFINE M == N \ {v}
            a == h.next[R][v]
            b == h.next[L][v]
<1>1. N \subseteq Nat /\ M \subseteq N /\ v \in Nat /\ lo \in N /\ hi \in N /\ \A x \in N : lo <= x /\ x <= hi
  BY HistogramTreeAssumption DEF Bounds
<1>2. PICK w \in M : w # v
  OBVIOUS
<1>3. Neighbor(N, v, R, a) /\ Neighbor(N, v, L, b)
  BY DEF Linked, Sides
<1>4. L # R /\ \A x, y \in Nat : (Towards(x, y) = L <=> x < y) /\ (Towards(x, y) = R <=> ~ (x < y))
  BY DEF Towards, L, R
<1>. HIDE DEF a, b
<1>5. v = lo => a \in M /\ \A x \in M : a <= x
  <2>1. SUFFICES ASSUME v = lo PROVE a \in M /\ \A x \in M : a <= x
    OBVIOUS
  <2>2. w \in N /\ w # v /\ ~ (w < v) /\ \A x \in N : ~ (x < v)
    BY <1>1, <1>2, <2>1
  <2>3. a # NoItem
    BY <1>1, <1>3, <1>4, <2>2 DEF Neighbor
  <2>4. a \in N /\ a # v /\ \A x \in N : x # v /\ x # a /\ ~ (x < v) => ~ (x < a)
    BY <1>1, <1>3, <1>4, <2>3 DEF Neighbor
  <2>5. ASSUME NEW x \in M PROVE a <= x
    <3>1. x \in N /\ x # v /\ ~ (x < v) /\ x \in Nat /\ a \in Nat
      BY <1>1, <2>2, <2>4
    <3>2. x = a \/ ~ (x < a)
      BY <2>4, <3>1
    <3>. QED
      BY <3>1, <3>2
  <2>. QED
    BY <2>4, <2>5
<1>6. v = hi => b \in M /\ \A x \in M : x <= b
  <2>1. SUFFICES ASSUME v = hi PROVE b \in M /\ \A x \in M : x <= b
    OBVIOUS
  <2>2. w \in N /\ w # v /\ w < v /\ \A x \in N : x # v => x < v
    BY <1>1, <1>2, <2>1
  <2>3. b # NoItem
    BY <1>1, <1>3, <1>4, <2>2 DEF Neighbor
  <2>4. b \in N /\ b # v /\ \A x \in N : x # v /\ x # b /\ x < v => x < b
    BY <1>1, <1>3, <1>4, <2>3 DEF Neighbor
  <2>5. ASSUME NEW x \in M PROVE x <= b
    <3>1. x \in N /\ x # v /\ x < v /\ x \in Nat /\ b \in Nat
      BY <1>1, <2>2, <2>4
    <3>2. x = b \/ x < b
      BY <2>4, <3>1
    <3>. QED
      BY <3>1, <3>2
  <2>. QED
    BY <2>4, <2>5
<1>7. v # lo => lo \in M /\ \A x \in M : lo <= x
  BY <1>1
<1>8. v # hi => hi \in M /\ \A x \in M : x <= hi
  BY <1>1
<1>. HIDE DEF M
<1>9. CASE v = lo /\ v = hi
  BY <1>5, <1>6, <1>9 DEF Bounds, M, a, b
<1>10. CASE v = lo /\ v # hi
  BY <1>5, <1>8, <1>10 DEF Bounds, M, a, b
<1>11. CASE v # lo /\ v = hi
  BY <1>7, <1>6, <1>11 DEF Bounds, M, a, b
<1>12. CASE v # lo /\ v # hi
  BY <1>7, <1>8, <1>12 DEF Bounds, M, a, b
<1>. QED
  BY <1>9, <1>10, <1>11, <1>12

LEMMA DequeueSound ==
  ASSUME NEW r, GoodWindow(r), Len(r.Queue) > 1, NEW s, s = Dequeue(r)
  PROVE  GoodWindow(s) /\ Len(s.Queue) = Len(r.Queue) - 1
<1>. DEFINE h == r.tree
            N == NodesOf(h)
            p == r.Queue
            v == Head(r.Queue)
            f == Delete(r.tree, Head(r.Queue))
            q == Tail(r.Queue)
            M == IF h.dup[v] > 1 THEN N ELSE N \ {v}
<1>1. /\ p \in Seq(Values) /\ Len(p) > 1 /\ Len(p) > 0 /\ Len(p) \in Nat
      /\ Weighed(h, p) /\ Bounds(N, r.MinItem, r.MaxItem)
      /\ SampleCounts \subseteq {1} => TreeCounted(h, N)
  BY DEF GoodWindow
<1>2. PICK D : SearchTree(h, N, D)
  BY DEF GoodWindow
<1>3. /\ s.tree = f /\ s.Queue = q
      /\ s.MinItem = IF h.dup[v] = 1 /\ v = r.MinItem THEN h.next[R][v] ELSE r.MinItem
      /\ s.MaxItem = IF h.dup[v] = 1 /\ v = r.MaxItem THEN h.next[L][v] ELSE r.MaxItem
  BY DEF Dequeue
<1>d. f = Delete(h, v)
  OBVIOUS
<1>e. q = Tail(p)
  OBVIOUS
<1>m. M = IF h.dup[v] > 1 THEN N ELSE N \ {v}
  OBVIOUS
<1>v. v = Head(p) /\ v = p[1]
  BY <1>1
<1>. HIDE DEF f, q, h, N, p, v, M
<1>4. /\ q \in Seq(Values) /\ Len(q) = Len(p) - 1 /\ v \in Values
      /\ \A S : Among(q, S) = Among(p, S) - IF v \in S THEN 1 ELSE 0
  <2>1. Shrunk(p, q, v)
    BY <1>1, <1>e, <1>v, TailFacts
  <2>. QED
    BY <2>1 DEF Shrunk
<1>5. h.dup[v] = Among(p, {v}) /\ h.dup[v] \in Nat \ {0} /\ v \in N
  <2>1. h.dup[v] = Among(p, {v})
    BY <1>1, <1>4 DEF Weighed
  <2>2. Among(p, {v}) \in Nat /\ Among(p, {v}) # 0
    <3>1. p[1] \in {v} /\ 1 \in 1 .. Len(p)
      BY <1>1, <1>v
    <3>. QED
      BY <1>1, <3>1, AmongFacts
  <2>3. v \in N
    BY <1>4, <2>1, <2>2 DEF NodesOf, N
  <2>. QED
    BY <2>1, <2>2, <2>3
<1>6. PICK E : Left(h, f, N, M, v, E)
  BY <1>2, <1>5, <1>d, <1>m, DeleteKeeps
<1>7. /\ WindowTree(f, M, E) /\ (TreeCounted(h, N) => TreeCounted(f, M))
      /\ \A x \in Values : f.dup[x] = IF x = v THEN h.dup[v] - 1 ELSE h.dup[x]
  BY <1>6 DEF Left
<1>8. Weighed(f, q)
  <2>1. ASSUME NEW x \in Values PROVE f.dup[x] = Among(q, {x})
    <3>1. h.dup[x] = Among(p, {x}) /\ Among(p, {x}) \in Nat
      BY <1>1, AmongFacts DEF Weighed
    <3>2. x = v => Among(q, {x}) = Among(p, {x}) - 1
      BY <1>4
    <3>3. x # v => Among(q, {x}) = Among(p, {x})
      BY <1>4, <3>1
    <3>. QED
      BY <1>7, <3>1, <3>2, <3>3
  <2>. QED
    BY <2>1 DEF Weighed
<1>9. SearchTree(f, M, E)
  <2>1. SUFFICES ASSUME M = {}, f = EmptyTree PROVE FALSE
    BY <1>7 DEF WindowTree
  <2>2. Len(q) > 0 /\ q[1] \in Values /\ 1 \in 1 .. Len(q)
    BY <1>1, <1>4
  <2>3. Among(q, {q[1]}) # 0
    <3>1. q[1] \in {q[1]}
      OBVIOUS
    <3>. QED
      BY <1>4, <2>2, <3>1, AmongFacts
  <2>4. f.dup[q[1]] = Among(q, {q[1]})
    BY <1>8, <2>2 DEF Weighed
  <2>5. f.dup[q[1]] = 0
    BY <2>1, <2>2, EmptyTreeFacts
  <2>. QED
    BY <2>3, <2>4, <2>5
<1>10. M = NodesOf(f) /\ Linked(h, N) /\ N \subseteq Values
  BY <1>2, <1>9, SearchNodes
<1>11. M # {}
  BY <1>9 DEF SearchTree, Rooted
<1>12. Bounds(M, s.MinItem, s.MaxItem)
  <2>1. CASE h.dup[v] > 1
    <3>1. M = N /\ h.dup[v] # 1
      BY <1>5, <1>m, <2>1
    <3>. QED
      BY <1>1, <1>3, <3>1
  <2>2. CASE h.dup[v] = 1
    <3>1. M = N \ {v}
      BY <1>m, <2>2
    <3>2. Bounds(N \ {v}, IF v = r.MinItem THEN h.next[R][v] ELSE r.MinItem,
                          IF v = r.MaxItem THEN h.next[L][v] ELSE r.MaxItem)
      BY <1>1, <1>5, <1>10, <1>11, <3>1, ExtremesLeft
    <3>3. /\ s.MinItem = IF v = r.MinItem THEN h.next[R][v] ELSE r.MinItem
          /\ s.MaxItem = IF v = r.MaxItem THEN h.next[L][v] ELSE r.MaxItem
      BY <1>3, <2>2
    <3>. QED
      BY <3>1, <3>2, <3>3
  <2>. QED
    BY <1>5, <2>1, <2>2
<1>13. SampleCounts \subseteq {1} => TreeCounted(f, M)
  BY <1>1, <1>7
<1>14. Len(q) > 0
  BY <1>1, <1>4
<1>15. GoodWindow(s)
  BY <1>3, <1>4, <1>8, <1>9, <1>10, <1>12, <1>13, <1>14 DEF GoodWindow
<1>. QED
  BY <1>3, <1>4, <1>15 DEF p

-----------------------------------------------------------------------------
(***************************************************************************)
(* The tracked points: each is at a node, with the number of samples up to *)
(* it.                                                                     *)
(***************************************************************************)
(* All samples are at nodes.                                               *)
AtNodes(N, q) == N \subseteq Values /\ q \in Seq(Values) /\ \A i \in 1 .. Len(q) : q[i] \in N

LEMMA SamplesAtNodes ==
  ASSUME NEW h, NEW N, NEW D, SearchTree(h, N, D), NEW q \in Seq(Values), Weighed(h, q)
  PROVE  AtNodes(N, q)
<1>0. \A x \in Values : h.dup[x] > 0 <=> x \in N
  BY DEF SearchTree
<1>1. ASSUME NEW i \in 1 .. Len(q) PROVE q[i] \in N
  <2>1. q[i] \in Values /\ q[i] \in {q[i]}
    OBVIOUS
  <2>2. h.dup[q[i]] = Among(q, {q[i]})
    BY <2>1 DEF Weighed
  <2>3. Among(q, {q[i]}) # 0 /\ Among(q, {q[i]}) \in Nat
    BY <2>1, AmongFacts
  <2>. QED
    BY <1>0, <2>1, <2>2, <2>3
<1>2. N \subseteq Values
  BY DEF SearchTree, Shaped
<1>. QED
  BY <1>1, <1>2 DEF AtNodes

(* The samples up to an item.                                              *)
LEMMA UpToNodes ==
  ASSUME NEW h, NEW N, NEW D, SearchTree(h, N, D), NEW q \in Seq(Values), Weighed(h, q), NEW n
  PROVE  Among(q, {x \in N : x <= n}) = Among(q, UpTo(n))
<1>1. ASSUME NEW i \in 1 .. Len(q) PROVE q[i] \in {x \in N : x <= n} <=> q[i] \in UpTo(n)
  <2>1. q[i] \in N /\ q[i] \in Values
    BY SamplesAtNodes DEF AtNodes
  <2>. QED
    BY <2>1 DEF UpTo
<1>. QED
  BY <1>1, AmongSame

(* How many samples there are up to the next smaller, or larger, item.     *)
LEMMA SmallerCounts ==
  ASSUME NEW N, NEW q, AtNodes(N, q), NEW y \in N, NEW x, x # NoItem, Neighbor(N, y, L, x)
  PROVE  x \in N /\ Among(q, UpTo(x)) = Among(q, UpTo(y)) - Among(q, {y})
<1>0. N \subseteq Nat /\ Values \subseteq Nat /\ q \in Seq(Values)
  BY HistogramTreeAssumption DEF AtNodes
<1>1. L # R /\ \A a, b \in Nat : (Towards(a, b) = L <=> a < b) /\ (Towards(a, b) = R <=> ~ (a < b))
  BY DEF Towards, L, R
<1>2. \A S : Among(q, S) \in Nat
  BY <1>0, AmongFacts
<1>3. \A i \in 1 .. Len(q) : q[i] \in N /\ q[i] \in Values
  BY <1>0 DEF AtNodes
<1>4. /\ x \in N /\ x # y /\ Towards(x, y) = L
      /\ \A z \in N : z # y /\ z # x /\ Towards(z, y) = L => Towards(z, x) = L
  BY DEF Neighbor
<1>5. x \in N /\ x < y /\ \A z \in N : z # y /\ z # x /\ z < y => z < x
  BY <1>0, <1>1, <1>4
<1>6. \A z \in N : z <= y <=> z <= x \/ z = y
  BY <1>0, <1>5
<1>7. \A i \in 1 .. Len(q) : q[i] \in UpTo(y) <=> q[i] \in UpTo(x) \cup {y}
  BY <1>3, <1>6 DEF UpTo
<1>8. Among(q, UpTo(y)) = Among(q, UpTo(x) \cup {y})
  BY <1>0, <1>7, AmongSame
<1>9. UpTo(x) \cap {y} = {}
  BY <1>0, <1>5 DEF UpTo
<1>10. Among(q, UpTo(x) \cup {y}) = Among(q, UpTo(x)) + Among(q, {y})
  BY <1>0, <1>9, AmongUnion
<1>. QED
  BY <1>2, <1>5, <1>8, <1>10

LEMMA LargerCounts ==
  ASSUME NEW N, NEW q, AtNodes(N, q), NEW y \in N, NEW x, x # NoItem, Neighbor(N, y, R, x)
  PROVE  x \in N /\ Among(q, UpTo(x)) = Among(q, UpTo(y)) + Among(q, {x})
<1>0. N \subseteq Nat /\ Values \subseteq Nat /\ q \in Seq(Values)
  BY HistogramTreeAssumption DEF AtNodes
<1>1. L # R /\ \A a, b \in Nat : (Towards(a, b) = L <=> a < b) /\ (Towards(a, b) = R <=> ~ (a < b))
  BY DEF Towards, L, R
<1>2. \A S : Among(q, S) \in Nat
  BY <1>0, AmongFacts
<1>3. \A i \in 1 .. Len(q) : q[i] \in N /\ q[i] \in Values
  BY <1>0 DEF AtNodes
<1>4. /\ x \in N /\ x # y /\ Towards(x, y) = R
      /\ \A z \in N : z # y /\ z # x /\ Towards(z, y) = R => Towards(z, x) = R
  BY DEF Neighbor
<1>5. x \in N /\ y < x /\ \A z \in N : z # y /\ z # x /\ ~ (z < y) => ~ (z < x)
  BY <1>0, <1>1, <1>4
<1>6. \A z \in N : z <= x <=> z <= y \/ z = x
  BY <1>0, <1>5
<1>7. \A i \in 1 .. Len(q) : q[i] \in UpTo(x) <=> q[i] \in UpTo(y) \cup {x}
  BY <1>3, <1>6 DEF UpTo
<1>8. Among(q, UpTo(x)) = Among(q, UpTo(y) \cup {x})
  BY <1>0, <1>7, AmongSame
<1>9. UpTo(y) \cap {x} = {}
  BY <1>0, <1>5 DEF UpTo
<1>10. Among(q, UpTo(y) \cup {x}) = Among(q, UpTo(y)) + Among(q, {x})
  BY <1>0, <1>9, AmongUnion
<1>. QED
  BY <1>2, <1>5, <1>8, <1>10

Pointed(N, q, t) ==
  /\ t \in [item : N, count : Int]
  /\ SampleCounts \subseteq {1} => t.count = Among(q, UpTo(t.item))
OnWay(N, q, a) ==
  /\ a \in [item : N, count : Int, share : Int]
  /\ SampleCounts \subseteq {1} => a.count = Among(q, UpTo(a.item))

(* A round of a walk keeps a point's count exact.                          *)
LEMMA RoundFacts ==
  ASSUME NEW h \in Trees, NEW N, N \subseteq Values, Linked(h, N),
         NEW q \in Seq(Values), Weighed(h, q), AtNodes(N, q), NEW p, NEW a, OnWay(N, q, a)
  PROVE  OnWay(N, q, SmallerRound(h, p, a)) /\ OnWay(N, q, LargerRound(h, p, a))
<1>. DEFINE y == a.item
<1>1. y \in N /\ y \in Values /\ a.count \in Int /\ a.share \in Int /\ a.item = y /\ a = [item |-> y, count |-> a.count, share |-> a.share]
  BY DEF OnWay
<1>c. SampleCounts \subseteq {1} => a.count = Among(q, UpTo(y))
  BY DEF OnWay
<1>y. y = a.item
  OBVIOUS
<1>. HIDE DEF y
<1>2. \A x \in Values : h.dup[x] \in Nat /\ h.dup[x] = Among(q, {x})
  BY TreeFields DEF Weighed
<1>3. ASSUME NEW b, b = SmallerRound(h, p, a) PROVE OnWay(N, q, b)
  <2>. DEFINE x == h.next[L][y]
              c == a.count - h.dup[y]
  <2>1. Neighbor(N, y, L, x)
    BY <1>1 DEF Linked, Sides
  <2>2. b = a \/ (x # NoItem /\ b = [item |-> x, count |-> c, share |-> c - h.dup[x]])
    BY <1>3, <1>y DEF SmallerRound
  <2>. HIDE DEF x
  <2>3. CASE x # NoItem /\ b = [item |-> x, count |-> c, share |-> c - h.dup[x]]
    <3>1. x \in N /\ Among(q, UpTo(x)) = Among(q, UpTo(y)) - Among(q, {y})
      BY <1>1, <2>1, <2>3, SmallerCounts
    <3>2. c \in Int /\ c - h.dup[x] \in Int
      <4>1. x \in Values
        BY <3>1
      <4>2. h.dup[x] \in Nat /\ h.dup[y] \in Nat /\ a.count \in Int
        BY <1>1, <1>2, <4>1
      <4>. QED
        BY <4>2
    <3>3. SampleCounts \subseteq {1} => c = Among(q, UpTo(x))
      BY <1>1, <1>2, <1>c, <3>1
    <3>. HIDE DEF c
    <3>4. b.item = x /\ b.count = c /\ b \in [item : N, count : Int, share : Int]
      BY <2>3, <3>1, <3>2
    <3>. QED
      BY <3>3, <3>4 DEF OnWay
  <2>. QED
    BY <2>2, <2>3
<1>4. ASSUME NEW b, b = LargerRound(h, p, a) PROVE OnWay(N, q, b)
  <2>. DEFINE x == h.next[R][y]
              c == a.count + h.dup[x]
  <2>1. Neighbor(N, y, R, x)
    BY <1>1 DEF Linked, Sides
  <2>2. \/ b = a
        \/ x # NoItem /\ b = [item |-> x, count |-> c, share |-> c]
        \/ x # NoItem /\ b = [a EXCEPT !.share = c]
    BY <1>4, <1>y DEF LargerRound
  <2>. HIDE DEF x
  <2>3. ASSUME x # NoItem
        PROVE  x \in N /\ c \in Int /\ (SampleCounts \subseteq {1} => c = Among(q, UpTo(x)))
    <3>1. x \in N /\ Among(q, UpTo(x)) = Among(q, UpTo(y)) + Among(q, {x})
      BY <1>1, <2>1, <2>3, LargerCounts
    <3>2. c \in Int
      BY <1>1, <1>2, <3>1
    <3>3. SampleCounts \subseteq {1} => c = Among(q, UpTo(x))
      BY <1>1, <1>2, <1>c, <3>1
    <3>. QED
      BY <3>1, <3>2, <3>3
  <2>. HIDE DEF c
  <2>4. CASE x # NoItem /\ b = [item |-> x, count |-> c, share |-> c]
    <3>1. b.item = x /\ b.count = c /\ b \in [item : N, count : Int, share : Int]
      BY <2>3, <2>4
    <3>. QED
      BY <2>3, <2>4, <3>1 DEF OnWay
  <2>5. CASE x # NoItem /\ b = [a EXCEPT !.share = c]
    <3>1. b.item = y /\ b.count = a.count /\ b \in [item : N, count : Int, share : Int]
      BY <1>1, <2>3, <2>5
    <3>. QED
      BY <1>c, <3>1 DEF OnWay
  <2>. QED
    BY <2>2, <2>4, <2>5
<1>. QED
  BY <1>3, <1>4

LEMMA WalkedPointed ==
  ASSUME NEW h \in Trees, NEW N, N = NodesOf(h), IsFiniteSet(N), N \subseteq Values, Linked(h, N),
         NEW q \in Seq(Values), Weighed(h, q), AtNodes(N, q),
         NEW t, Pointed(N, q, t), NEW p, NEW s \in Sides
  PROVE  Pointed(N, q, Walked(h, t, p, s))
<1>. DEFINE m == Cardinality({x \in Values : h.dup[x] > 0})
            S == {a \in [item : N, count : Int, share : Int] : OnWay(N, q, a)}
            b == [item |-> t.item, count |-> t.count, share |-> t.count]
            Onward(a) == IF s = L THEN SmallerRound(h, p, a) ELSE LargerRound(h, p, a)
            g == [z \in S \X (1 .. m) |-> Onward(z[1])]
            Fits(f) == f = [i \in 0 .. m |-> IF i = 0 THEN b
                                              ELSE IF s = L THEN SmallerRound(h, p, f[i - 1])
                                              ELSE LargerRound(h, p, f[i - 1])]
            after == CHOOSE f : Fits(f)
<1>1. m \in Nat
  BY FS_CardinalityType DEF NodesOf
<1>2. Walked(h, t, p, s) = [item |-> after[m].item, count |-> after[m].count]
  BY Zenon DEF Walked
<1>3. b \in S
  <2>1. t.item \in N /\ t.count \in Int /\ (SampleCounts \subseteq {1} => t.count = Among(q, UpTo(t.item)))
    BY DEF Pointed
  <2>2. b \in [item : N, count : Int, share : Int] /\ b.item = t.item /\ b.count = t.count
    BY <2>1
  <2>. HIDE DEF b
  <2>. QED
    BY <2>1, <2>2 DEF OnWay
<1>4. \A a \in S : Onward(a) \in S
  <2>1. ASSUME NEW a \in S PROVE Onward(a) \in S
    <3>1. OnWay(N, q, Onward(a))
      BY RoundFacts
    <3>. HIDE DEF Onward
    <3>. QED
      BY <3>1 DEF OnWay
  <2>. QED
    BY <2>1
<1>. HIDE DEF m, S, b
<1>5. \E f : Fits(f)
  <2>1. IsStep(g, S, m)
    <3>. HIDE DEF Onward
    <3>. QED
      BY <1>4 DEF IsStep
  <2>2. PICK f : Iterates(f, g, b, S, m)
    <3>. HIDE DEF g
    <3>. QED
      BY <1>1, <1>3, <2>1, Iteration
  <2>3. f \in [0 .. m -> S] /\ f[0] = b
    BY <2>2 DEF Iterates
  <2>4. ASSUME NEW i \in 1 .. m PROVE f[i] = Onward(f[i - 1])
    <3>1. i - 1 \in 0 .. m
      BY <1>1
    <3>2. f[i] = g[<<f[i - 1], i>>]
      BY <2>2 DEF Iterates
    <3>3. <<f[i - 1], i>> \in S \X (1 .. m)
      BY <2>3, <3>1
    <3>. HIDE DEF Onward
    <3>. QED
      BY <3>2, <3>3
  <2>5. \A i \in 0 .. m : i # 0 => i \in 1 .. m
    BY <1>1
  <2>6. \A i \in 0 .. m : f[i] = IF i = 0 THEN b ELSE Onward(f[i - 1])
    <3>. HIDE DEF Onward
    <3>. QED
      BY <2>3, <2>4, <2>5
  <2>7. f = [i \in 0 .. m |-> f[i]]
    BY <2>3
  <2>8. f = [i \in 0 .. m |-> IF i = 0 THEN b ELSE Onward(f[i - 1])]
    <3>. HIDE DEF Onward
    <3>. QED
      BY <2>6, <2>7
  <2>9. Fits(f)
    BY <2>8, Zenon
  <2>. QED
    BY <2>9
<1>6. Fits(after)
  <2>. HIDE DEF Fits
  <2>. QED
    BY <1>5, Zenon
<1>. HIDE DEF after
<1>7. \A i \in 0 .. m : after[i] = IF i = 0 THEN b ELSE Onward(after[i - 1])
  BY <1>6, Zenon
<1>. HIDE DEF Fits, Onward, g
<1>. DEFINE T == {i \in 0 .. m : after[i] \in S}
<1>8. 0 \in T
  BY <1>1, <1>3, <1>7
<1>9. ASSUME NEW i \in 0 .. m - 1, i \in T PROVE i + 1 \in T
  <2>1. i + 1 \in 0 .. m /\ i + 1 # 0 /\ (i + 1) - 1 = i
    BY <1>1
  <2>2. after[i + 1] = Onward(after[i])
    BY <1>7, <2>1
  <2>. QED
    BY <1>4, <1>9, <2>1, <2>2
<1>10. 0 .. m \subseteq T
  <2>. HIDE DEF T
  <2>. QED
    BY <1>1, <1>8, <1>9, InductionUpTo
<1>11. after[m] \in S
  BY <1>1, <1>10
<1>12. OnWay(N, q, after[m])
  BY <1>11 DEF S
<1>. QED
  BY <1>2, <1>12 DEF OnWay, Pointed

LEMMA SoundFacts ==
  ASSUME NEW s, GoodWindow(s), NEW h, h = s.tree, NEW N, N = NodesOf(h), NEW q, q = s.Queue
  PROVE  /\ h \in Trees /\ IsFiniteSet(N) /\ N \subseteq Values /\ Linked(h, N)
         /\ q \in Seq(Values) /\ Len(q) > 0 /\ Weighed(h, q) /\ AtNodes(N, q)
         /\ \A x \in Values : x \in N <=> Among(q, {x}) > 0
         /\ \A S : Among(q, S) \in Nat
<1>1. q \in Seq(Values) /\ Len(q) > 0 /\ Weighed(h, q) /\ \E D : SearchTree(h, N, D)
  BY DEF GoodWindow
<1>2. PICK D : SearchTree(h, N, D)
  BY <1>1
<1>3. h \in Trees /\ IsFiniteSet(N) /\ N \subseteq Values /\ Linked(h, N)
  BY <1>2 DEF SearchTree, Shaped
<1>4. AtNodes(N, q)
  BY <1>1, <1>2, SamplesAtNodes
<1>5. ASSUME NEW x \in Values PROVE x \in N <=> Among(q, {x}) > 0
  BY <1>1 DEF Weighed, NodesOf
<1>6. \A S : Among(q, S) \in Nat
  BY <1>1, AmongFacts
<1>. QED
  BY <1>1, <1>3, <1>4, <1>5, <1>6

LEMMA AfterInsertPointed ==
  ASSUME NEW r, GoodWindow(r), NEW v \in Values, NEW k \in SampleCounts, NEW s, GoodWindow(s),
         s.Queue = WithSamples(r.Queue, v, k), NEW p, NEW t, Pointed(NodesOf(r.tree), r.Queue, t)
  PROVE  Pointed(NodesOf(s.tree), s.Queue, AfterInsert(s.tree, t, p, v))
<1>. DEFINE h == s.tree
            N == NodesOf(r.tree)
            M == NodesOf(s.tree)
            q == r.Queue
            f == s.Queue
            x == t.item
<1>1. /\ N \subseteq Values /\ q \in Seq(Values) /\ \A S : Among(q, S) \in Nat
      /\ \A z \in Values : z \in N <=> Among(q, {z}) > 0
  BY SoundFacts
<1>2. /\ h \in Trees /\ IsFiniteSet(M) /\ M \subseteq Values /\ Linked(h, M)
      /\ f \in Seq(Values) /\ Weighed(h, f) /\ AtNodes(M, f) /\ M = NodesOf(h)
      /\ \A z \in Values : z \in M <=> Among(f, {z}) > 0
  BY SoundFacts
<1>3. k \in Nat \ {0} /\ Values \subseteq Nat /\ (SampleCounts \subseteq {1} => k = 1)
  BY HistogramAssumption, HistogramTreeAssumption
<1>4. \A S : Among(f, S) = Among(q, S) + IF v \in S THEN k ELSE 0
  <2>1. Grown(q, f, v, k)
    BY <1>1, <1>3, WithSamplesFacts
  <2>. QED
    BY <2>1 DEF Grown
<1>5. t = [item |-> x, count |-> t.count] /\ x \in N /\ t.count \in Int
  BY DEF Pointed
<1>6. SampleCounts \subseteq {1} => t.count = Among(q, UpTo(x))
  BY DEF Pointed
<1>w. AfterInsert(h, t, p, v) = IF v <= x THEN Walked(h, [t EXCEPT !.count = @ + 1], p, L)
                                ELSE Walked(h, t, p, R)
  BY DEF AfterInsert
<1>. HIDE DEF h, N, M, q, f, x
<1>7. x \in M /\ x \in Nat /\ v \in Nat
  <2>1. Among(q, {x}) > 0 /\ Among(q, {x}) \in Nat
    BY <1>1, <1>5
  <2>2. Among(f, {x}) > 0
    BY <1>3, <1>4, <2>1
  <2>. QED
    BY <1>1, <1>2, <1>3, <1>5, <2>2
<1>8. L \in Sides /\ R \in Sides
  BY DEF Sides
<1>9. CASE v <= x
  <2>. DEFINE u == [item |-> x, count |-> t.count + 1]
  <2>1. AfterInsert(h, t, p, v) = Walked(h, u, p, L)
    <3>1. [t EXCEPT !.count = @ + 1] = u
      BY <1>5
    <3>. HIDE DEF u
    <3>. QED
      BY <1>9, <1>w, <3>1
  <2>2. SampleCounts \subseteq {1} => u.count = Among(f, UpTo(x))
    <3>1. v \in UpTo(x)
      BY <1>9 DEF UpTo
    <3>2. Among(f, UpTo(x)) = Among(q, UpTo(x)) + k
      BY <1>4, <3>1
    <3>. QED
      BY <1>3, <1>6, <3>2
  <2>3. Pointed(M, f, u)
    <3>1. u \in [item : M, count : Int] /\ u.item = x
      BY <1>5, <1>7
    <3>. HIDE DEF u
    <3>. QED
      BY <2>2, <3>1 DEF Pointed
  <2>. HIDE DEF u
  <2>. QED
    BY <1>2, <1>8, <2>1, <2>3, WalkedPointed DEF h, M, f
<1>10. CASE ~ (v <= x)
  <2>1. AfterInsert(h, t, p, v) = Walked(h, t, p, R)
    BY <1>10, <1>w
  <2>2. SampleCounts \subseteq {1} => t.count = Among(f, UpTo(x))
    <3>1. v \notin UpTo(x)
      BY <1>10 DEF UpTo
    <3>2. Among(f, UpTo(x)) = Among(q, UpTo(x))
      BY <1>1, <1>4, <3>1
    <3>. QED
      BY <1>6, <3>2
  <2>3. Pointed(M, f, t)
    <3>1. t \in [item : M, count : Int] /\ t.item = x
      BY <1>5, <1>7 DEF x
    <3>. QED
      BY <2>2, <3>1 DEF Pointed
  <2>. QED
    BY <1>2, <1>8, <2>1, <2>3, WalkedPointed DEF h, M, f
<1>. QED
  BY <1>9, <1>10 DEF h, M, f

(* The sample v has left.                                                  *)
HeadGone(r, s, v) ==
  /\ GoodWindow(r) /\ GoodWindow(s) /\ Len(r.Queue) > 1 /\ s.Queue = Tail(r.Queue) /\ v = Head(r.Queue)

(* The point before its walk.                                              *)
Adjusted(h, g, t, v) ==
  IF v > t.item THEN t
  ELSE IF ~ (v = t.item /\ g.dup[v] = 1) THEN [item |-> t.item, count |-> t.count - 1]
  ELSE IF g.next[R][v] # NoItem THEN [item |-> g.next[R][v], count |-> t.count - 1 + h.dup[g.next[R][v]]]
  ELSE [item |-> g.next[L][v], count |-> t.count - 1]

LEMMA AdjustedPointed ==
  ASSUME NEW r, NEW s, NEW v, HeadGone(r, s, v), NEW t, Pointed(NodesOf(r.tree), r.Queue, t),
         NEW h, h = s.tree, NEW g, g = r.tree, NEW M, M = NodesOf(h), NEW f, f = s.Queue
  PROVE  Pointed(M, f, Adjusted(h, g, t, v))
<1>. DEFINE N == NodesOf(g)
            q == r.Queue
            x == t.item
<1>1. /\ g \in Trees /\ N \subseteq Values /\ Linked(g, N) /\ q \in Seq(Values) /\ \A S : Among(q, S) \in Nat
      /\ Weighed(g, q) /\ AtNodes(N, q) /\ \A z \in Values : z \in N <=> Among(q, {z}) > 0
  BY SoundFacts DEF HeadGone
<1>2. /\ h \in Trees /\ M \subseteq Values /\ f \in Seq(Values) /\ Len(f) > 0
      /\ Weighed(h, f) /\ AtNodes(M, f) /\ \A z \in Values : z \in M <=> Among(f, {z}) > 0
      /\ \A S : Among(f, S) \in Nat
  BY SoundFacts DEF HeadGone
<1>3. t = [item |-> x, count |-> t.count] /\ x \in N /\ t.count \in Int
  BY DEF Pointed
<1>4. SampleCounts \subseteq {1} => t.count = Among(q, UpTo(x))
  BY DEF Pointed
<1>5. f = Tail(q) /\ v = Head(q) /\ Len(q) > 1
  BY DEF HeadGone
<1>. HIDE DEF N, q, x
<1>6. v \in Values /\ v \in N /\ \A S : Among(f, S) = Among(q, S) - IF v \in S THEN 1 ELSE 0
  <2>0. q \in Seq(Values) /\ Len(q) > 0
    <3>1. Len(q) \in Nat
      BY <1>1
    <3>. QED
      BY <1>1, <1>5, <3>1
  <2>1. Shrunk(q, f, v)
    BY <1>5, <2>0, TailFacts
  <2>2. v = q[1] /\ 1 \in 1 .. Len(q)
    BY <1>1, <1>5
  <2>. QED
    BY <1>1, <2>1, <2>2 DEF Shrunk, AtNodes
<1>7. Values \subseteq Nat
  BY HistogramTreeAssumption
<1>8. \A z \in N \ {v} : z \in M
  <2>1. ASSUME NEW z \in N \ {v} PROVE z \in M
    <3>1. Among(f, {z}) = Among(q, {z})
      BY <1>1, <1>6
    <3>. QED
      BY <1>1, <1>2, <3>1
  <2>. QED
    BY <2>1
<1>9. M \subseteq N
  <2>1. ASSUME NEW z \in M PROVE z \in N
    <3>1. Among(f, {z}) > 0 /\ Among(f, {z}) \in Nat /\ Among(q, {z}) \in Nat /\ z \in Values
      BY <1>1, <1>2
    <3>2. Among(f, {z}) = Among(q, {z}) - IF v \in {z} THEN 1 ELSE 0
      BY <1>6
    <3>3. Among(q, {z}) > 0
      BY <3>1, <3>2
    <3>. QED
      BY <1>1, <3>1, <3>3
  <2>. QED
    BY <2>1
<1>10. (v \in M <=> g.dup[v] # 1) /\ (g.dup[v] = 1 => Among(f, {v}) = 0)
  <2>1. g.dup[v] = Among(q, {v}) /\ Among(f, {v}) = Among(q, {v}) - 1
    BY <1>1, <1>6 DEF Weighed
  <2>2. Among(q, {v}) \in Nat /\ Among(q, {v}) > 0 /\ Among(f, {v}) \in Nat
    BY <1>1, <1>2, <1>6
  <2>3. v \in M <=> Among(f, {v}) > 0
    BY <1>2, <1>6
  <2>. QED
    BY <2>1, <2>2, <2>3
<1>11. AtNodes(N, f)
  <2>1. N \subseteq Values /\ f \in Seq(Values)
    BY <1>1, <1>2
  <2>2. \A i \in 1 .. Len(f) : f[i] \in N
    BY <1>2, <1>9 DEF AtNodes
  <2>. QED
    BY <2>1, <2>2 DEF AtNodes
<1>c. v \in N
  BY <1>6
<1>12. ASSUME v > x PROVE Pointed(M, f, t)
  <2>1. x \in M
    BY <1>1, <1>3, <1>7, <1>8, <1>12
  <2>2. Among(f, UpTo(x)) = Among(q, UpTo(x))
    <3>1. v \notin UpTo(x)
      BY <1>1, <1>3, <1>6, <1>7, <1>12 DEF UpTo
    <3>. QED
      BY <1>1, <1>6, <3>1
  <2>3. t \in [item : M, count : Int] /\ t.item = x
    BY <1>3, <2>1 DEF x
  <2>. QED
    BY <1>4, <2>2, <2>3 DEF Pointed
<1>13. ASSUME ~ (v > x), SampleCounts \subseteq {1} PROVE t.count - 1 = Among(f, UpTo(x))
  <2>1. v \in UpTo(x)
    BY <1>1, <1>3, <1>6, <1>7, <1>13 DEF UpTo
  <2>2. Among(f, UpTo(x)) = Among(q, UpTo(x)) - 1
    BY <1>6, <2>1
  <2>. QED
    BY <1>4, <1>13, <2>2
<1>14. \A y \in M, c \in Int : (SampleCounts \subseteq {1} => c = Among(f, UpTo(y))) => Pointed(M, f, [item |-> y, count |-> c])
  BY DEF Pointed
<1>15. ASSUME ~ (v > x), ~ (v = x /\ g.dup[v] = 1) PROVE Pointed(M, f, [item |-> x, count |-> t.count - 1])
  <2>1. x \in M
    BY <1>3, <1>8, <1>10, <1>15
  <2>2. t.count - 1 \in Int
    BY <1>3
  <2>. QED
    BY <1>13, <1>14, <1>15, <2>1, <2>2
<1>16. Neighbor(N, v, R, g.next[R][v]) /\ Neighbor(N, v, L, g.next[L][v])
  BY <1>1, <1>6 DEF Linked, Sides
<1>17. v = x => ~ (v > x)
  BY <1>6, <1>7
<1>18. ASSUME v = x, g.dup[v] = 1, NEW y, y = g.next[R][v], y # NoItem
       PROVE  Pointed(M, f, [item |-> y, count |-> t.count - 1 + h.dup[y]])
  <2>n. Neighbor(N, v, R, y)
    BY <1>16, <1>18
  <2>1. y \in N /\ Among(f, UpTo(y)) = Among(f, UpTo(v)) + Among(f, {y})
    BY <1>c, <1>11, <1>18, <2>n, LargerCounts
  <2>2. y # v
    BY <1>16, <1>18 DEF Neighbor
  <2>3. y \in M
    BY <1>8, <2>1, <2>2
  <2>4. h.dup[y] = Among(f, {y}) /\ h.dup[y] \in Nat
    BY <1>2, <2>3 DEF Weighed
  <2>5. SampleCounts \subseteq {1} => t.count - 1 + h.dup[y] = Among(f, UpTo(y))
    BY <1>13, <1>17, <1>18, <2>1, <2>4
  <2>6. t.count - 1 + h.dup[y] \in Int
    BY <1>3, <2>4
  <2>. QED
    BY <1>14, <2>3, <2>5, <2>6
<1>19. ASSUME v = x, g.dup[v] = 1, g.next[R][v] = NoItem, NEW y, y = g.next[L][v]
       PROVE  Pointed(M, f, [item |-> y, count |-> t.count - 1])
  <2>1. y # NoItem
    <3>1. ASSUME y = NoItem PROVE FALSE
      <4>1. \A z \in N : z # v => Towards(z, v) # R /\ Towards(z, v) # L
        BY <1>16, <1>19, <3>1 DEF Neighbor
      <4>2. \A z : Towards(z, v) = R \/ Towards(z, v) = L
        BY DEF Towards
      <4>3. N \subseteq {v}
        BY <4>1, <4>2
      <4>4. f[1] \in M
        <5>1. Len(f) \in Nat /\ Len(f) > 0
          BY <1>2
        <5>2. 1 \in 1 .. Len(f)
          BY <5>1
        <5>. QED
          BY <1>2, <5>2 DEF AtNodes
      <4>. QED
        BY <1>9, <1>10, <1>19, <4>3, <4>4
    <3>. QED
      BY <3>1
  <2>n. Neighbor(N, v, L, y)
    BY <1>16, <1>19
  <2>2. y \in N /\ Among(f, UpTo(y)) = Among(f, UpTo(v)) - Among(f, {v})
    BY <1>c, <1>11, <2>1, <2>n, SmallerCounts
  <2>3. y # v
    BY <1>16, <1>19, <2>1 DEF Neighbor
  <2>4. y \in M
    BY <1>8, <2>2, <2>3
  <2>5. SampleCounts \subseteq {1} => t.count - 1 = Among(f, UpTo(y))
    <3>1. Among(f, {v}) = 0 /\ Among(f, UpTo(v)) \in Nat
      BY <1>2, <1>10, <1>19
    <3>2. Among(f, UpTo(y)) = Among(f, UpTo(v))
      BY <2>2, <3>1
    <3>. QED
      BY <1>13, <1>17, <1>19, <3>2
  <2>6. t.count - 1 \in Int
    BY <1>3
  <2>. QED
    BY <1>14, <2>4, <2>5, <2>6
<1>20. CASE v > x
  <2>1. Adjusted(h, g, t, v) = t
    BY <1>20 DEF Adjusted, x
  <2>. QED
    BY <1>12, <1>20, <2>1
<1>21. CASE ~ (v > x) /\ ~ (v = x /\ g.dup[v] = 1)
  <2>1. Adjusted(h, g, t, v) = [item |-> x, count |-> t.count - 1]
    BY <1>21 DEF Adjusted, x
  <2>. QED
    BY <1>15, <1>21, <2>1
<1>22. CASE v = x /\ g.dup[v] = 1
  <2>. DEFINE y == g.next[R][v]
  <2>1. Adjusted(h, g, t, v) = IF y # NoItem THEN [item |-> y, count |-> t.count - 1 + h.dup[y]]
                              ELSE [item |-> g.next[L][v], count |-> t.count - 1]
    BY <1>17, <1>22 DEF Adjusted, x
  <2>2. CASE y # NoItem
    <3>1. Pointed(M, f, [item |-> y, count |-> t.count - 1 + h.dup[y]])
      BY <1>18, <1>22, <2>2
    <3>. QED
      BY <2>1, <2>2, <3>1
  <2>3. CASE y = NoItem
    <3>1. Pointed(M, f, [item |-> g.next[L][v], count |-> t.count - 1])
      BY <1>19, <1>22, <2>3
    <3>. QED
      BY <2>1, <2>3, <3>1
  <2>. QED
    BY <2>2, <2>3
<1>. QED
  BY <1>20, <1>21, <1>22

LEMMA AfterDeletePointed ==
  ASSUME NEW r, NEW s, NEW v, HeadGone(r, s, v), NEW t, Pointed(NodesOf(r.tree), r.Queue, t),
         NEW h, h = s.tree, NEW g, g = r.tree, NEW M, M = NodesOf(h), NEW f, f = s.Queue, NEW p
  PROVE  Pointed(M, f, AfterDelete(h, g, t, p, v))
<1>. DEFINE x == t.item
            u == Adjusted(h, g, t, v)
<1>1. /\ h \in Trees /\ IsFiniteSet(M) /\ M \subseteq Values /\ Linked(h, M)
      /\ f \in Seq(Values) /\ Weighed(h, f) /\ AtNodes(M, f)
  BY SoundFacts DEF HeadGone
<1>2. t = [item |-> x, count |-> t.count]
  BY DEF Pointed
<1>3. Pointed(M, f, u)
  BY AdjustedPointed
<1>4. AfterDelete(h, g, t, p, v) = IF v > x THEN Walked(h, u, p, L) ELSE Walked(h, u, p, R)
  <2>. DEFINE y == g.next[R][v]
              e == [t EXCEPT !.count = @ - 1]
              w == IF v = x /\ g.dup[v] = 1
                   THEN IF y # NoItem THEN [item |-> y, count |-> e.count + h.dup[y]]
                        ELSE [e EXCEPT !.item = g.next[L][v]]
                   ELSE e
              lost == [item |-> x, count |-> t.count - 1]
              up == [item |-> y, count |-> t.count - 1 + h.dup[y]]
              down == [item |-> g.next[L][v], count |-> t.count - 1]
  <2>1. AfterDelete(h, g, t, p, v) = IF v > x THEN Walked(h, t, p, L) ELSE Walked(h, w, p, R)
    BY Zenon DEF AfterDelete
  <2>2. e = lost
    BY <1>2
  <2>3. [lost EXCEPT !.item = g.next[L][v]] = down /\ lost.count = t.count - 1
    OBVIOUS
  <2>4. u = IF v > x THEN t ELSE IF ~ (v = x /\ g.dup[v] = 1) THEN lost ELSE IF y # NoItem THEN up ELSE down
    BY Zenon DEF Adjusted
  <2>. HIDE DEF e, lost, down, y, x, u
  <2>5. ~ (v > x) => w = u
    BY <2>2, <2>3, <2>4
  <2>6. v > x => t = u
    BY <2>4
  <2>. HIDE DEF w
  <2>. QED
    BY <2>1, <2>5, <2>6
<1>6. L \in Sides /\ R \in Sides
  BY DEF Sides
<1>. HIDE DEF u, x
<1>7. CASE v > x
  BY <1>1, <1>3, <1>4, <1>6, <1>7, WalkedPointed
<1>8. CASE ~ (v > x)
  BY <1>1, <1>3, <1>4, <1>6, <1>8, WalkedPointed
<1>. QED
  BY <1>7, <1>8

(* All points of a window.                                                 *)
Tracks(s) ==
  /\ s.tracked = [p \in Percentiles |-> s.tracked[p]]
  /\ \A p \in Percentiles : Pointed(NodesOf(s.tree), s.Queue, s.tracked[p])

LEMMA FirstTracks ==
  ASSUME NEW v \in Values, NEW k \in SampleCounts, NEW s, s = First(v, k)
  PROVE  Tracks(s)
<1>1. s.tracked = [p \in Percentiles |-> [item |-> v, count |-> k]] /\ s.Queue = WithSamples(<<>>, v, k)
      /\ s.MinItem = v
  BY DEF First
<1>2. GoodWindow(s)
  BY FirstSound
<1>3. v \in NodesOf(s.tree)
  BY <1>1, <1>2 DEF GoodWindow, Bounds
<1>. DEFINE q == s.Queue
<1>4. Among(q, UpTo(v)) = k
  <2>0. k \in Nat /\ <<>> \in Seq(Values) /\ Len(<<>>) = 0 /\ v \in Nat
    BY HistogramAssumption, HistogramTreeAssumption
  <2>1. Grown(<<>>, q, v, k)
    BY <1>1, <2>0, WithSamplesFacts
  <2>2. Among(<<>>, UpTo(v)) = 0
    <3>1. Among(<<>>, UpTo(v)) = 0 <=> \A i \in 1 .. Len(<<>>) : <<>>[i] \notin UpTo(v)
      BY <2>0, AmongFacts
    <3>. QED
      BY <2>0, <3>1
  <2>3. v \in UpTo(v)
    BY <2>0 DEF UpTo
  <2>. QED
    BY <2>0, <2>1, <2>2, <2>3 DEF Grown
<1>5. k \in Int
  BY HistogramAssumption
<1>. HIDE DEF q
<1>6. \A p \in Percentiles : Pointed(NodesOf(s.tree), q, s.tracked[p])
  BY <1>1, <1>3, <1>4, <1>5 DEF Pointed
<1>. QED
  BY <1>1, <1>6 DEF Tracks, q

LEMMA AddedTracks ==
  ASSUME NEW r, GoodWindow(r), Tracks(r), NEW v \in Values, NEW k \in SampleCounts, NEW s, s = Added(r, v, k)
  PROVE  Tracks(s)
<1>1. /\ s.tracked = [p \in Percentiles |-> AfterInsert(s.tree, r.tracked[p], p, v)]
      /\ s.Queue = WithSamples(r.Queue, v, k)
  BY DEF Added
<1>2. GoodWindow(s)
  BY AddedSound
<1>3. ASSUME NEW p \in Percentiles PROVE Pointed(NodesOf(s.tree), s.Queue, s.tracked[p])
  <2>1. Pointed(NodesOf(r.tree), r.Queue, r.tracked[p])
    BY DEF Tracks
  <2>2. s.tracked[p] = AfterInsert(s.tree, r.tracked[p], p, v)
    BY <1>1
  <2>3. Pointed(NodesOf(s.tree), s.Queue, AfterInsert(s.tree, r.tracked[p], p, v))
    BY <1>1, <1>2, <2>1, AfterInsertPointed
  <2>. QED
    BY <2>2, <2>3
<1>. QED
  BY <1>1, <1>3 DEF Tracks

LEMMA DequeueTracks ==
  ASSUME NEW r, GoodWindow(r), Tracks(r), Len(r.Queue) > 1, NEW s, s = Dequeue(r)
  PROVE  Tracks(s)
<1>. DEFINE v == Head(r.Queue)
<1>1. /\ s.tracked = [p \in Percentiles |-> AfterDelete(s.tree, r.tree, r.tracked[p], p, v)]
      /\ s.Queue = Tail(r.Queue)
  BY DEF Dequeue
<1>2. GoodWindow(s)
  BY DequeueSound
<1>4. HeadGone(r, s, v)
  BY <1>1, <1>2 DEF HeadGone
<1>. HIDE DEF v
<1>3. ASSUME NEW p \in Percentiles PROVE Pointed(NodesOf(s.tree), s.Queue, s.tracked[p])
  <2>1. Pointed(NodesOf(r.tree), r.Queue, r.tracked[p])
    BY DEF Tracks
  <2>2. s.tracked[p] = AfterDelete(s.tree, r.tree, r.tracked[p], p, v)
    BY <1>1
  <2>3. Pointed(NodesOf(s.tree), s.Queue, AfterDelete(s.tree, r.tree, r.tracked[p], p, v))
    BY <1>4, <2>1, AfterDeletePointed
  <2>. QED
    BY <2>2, <2>3
<1>. QED
  BY <1>1, <1>3 DEF Tracks

(* Dequeue is called as often as samples are too many.                     *)
Dequeues(f, s, n) == f = [i \in 0 .. n |-> IF i = 0 THEN s ELSE Dequeue(f[i - 1])]

LEMMA DequeuesStep ==
  ASSUME NEW s, NEW k \in Nat, NEW f, Dequeues(f, s, k)
  PROVE  \E g : Dequeues(g, s, k + 1)
<1>. DEFINE d == Dequeue(f[k])
            g == [i \in 0 .. k + 1 |-> IF i = k + 1 THEN d ELSE f[i]]
            e == [i \in 0 .. k + 1 |-> IF i = 0 THEN s ELSE Dequeue(g[i - 1])]
<1>1. \A i \in 0 .. k : f[i] = IF i = 0 THEN s ELSE Dequeue(f[i - 1])
  BY Zenon DEF Dequeues
<1>2. g[k + 1] = d /\ \A i \in 0 .. k : g[i] = f[i]
  OBVIOUS
<1>3. DOMAIN g = 0 .. k + 1 /\ g = [i \in 0 .. k + 1 |-> g[i]]
  OBVIOUS
<1>4. k \in 0 .. k /\ k + 1 \in 0 .. k + 1 /\ 0 \in 0 .. k /\ k + 1 # 0 /\ (k + 1) - 1 = k
  OBVIOUS
<1>g. d = Dequeue(f[k])
  OBVIOUS
<1>. HIDE DEF g, d
<1>5. ASSUME NEW i \in 0 .. k + 1 PROVE g[i] = IF i = 0 THEN s ELSE Dequeue(g[i - 1])
  <2>1. CASE i = k + 1
    <3>1. g[k] = f[k]
      BY <1>2, <1>4
    <3>2. g[i] = Dequeue(g[k])
      BY <1>2, <1>g, <2>1, <3>1
    <3>3. i # 0 /\ i - 1 = k
      BY <1>4, <2>1
    <3>. QED
      BY <3>2, <3>3
  <2>2. CASE i = 0
    <3>1. g[0] = f[0] /\ f[0] = s
      BY <1>1, <1>2, <1>4
    <3>. QED
      BY <2>2, <3>1
  <2>3. CASE i # 0 /\ i # k + 1
    <3>1. i \in 0 .. k /\ i - 1 \in 0 .. k
      BY <2>3
    <3>2. g[i] = f[i] /\ g[i - 1] = f[i - 1] /\ f[i] = Dequeue(f[i - 1])
      BY <1>1, <1>2, <2>3, <3>1
    <3>. QED
      BY <2>3, <3>2
  <2>. QED
    BY <2>1, <2>2, <2>3
<1>6. g = e
  BY <1>3, <1>5
<1>. QED
  BY <1>6 DEF Dequeues

LEMMA DequeuesExist ==
  ASSUME NEW s, NEW n \in Nat
  PROVE  \E f : Dequeues(f, s, n)
<1>. DEFINE T == {k \in 0 .. n : \E f : Dequeues(f, s, k)}
<1>1. 0 \in T
  <2>. DEFINE f == [i \in 0 .. 0 |-> s]
              e == [i \in 0 .. 0 |-> IF i = 0 THEN s ELSE Dequeue(f[i - 1])]
  <2>1. \A i \in 0 .. 0 : i = 0
    OBVIOUS
  <2>2. f = e
    BY <2>1
  <2>3. Dequeues(f, s, 0)
    BY <2>2 DEF Dequeues
  <2>. QED
    BY <2>3
<1>2. ASSUME NEW k \in 0 .. n - 1, k \in T PROVE k + 1 \in T
  <2>1. PICK f : Dequeues(f, s, k)
    BY <1>2
  <2>2. k \in Nat /\ k + 1 \in 0 .. n
    OBVIOUS
  <2>3. \E g : Dequeues(g, s, k + 1)
    BY <2>1, <2>2, DequeuesStep
  <2>. QED
    BY <2>2, <2>3
<1>3. 0 .. n \subseteq T
  <2>. HIDE DEF T
  <2>. QED
    BY <1>1, <1>2, InductionUpTo
<1>4. n \in T
  BY <1>3
<1>. QED
  BY <1>4

LEMMA DequeuedSound ==
  ASSUME NEW s, GoodWindow(s), Tracks(s), NEW n \in Nat, n < Len(s.Queue), NEW t, t = Dequeued(s, n)
  PROVE  GoodWindow(t) /\ Tracks(t) /\ Len(t.Queue) = Len(s.Queue) - n
<1>. DEFINE after == CHOOSE f : f = [i \in 0 .. n |-> IF i = 0 THEN s ELSE Dequeue(f[i - 1])]
<1>1. t = after[n]
  BY Zenon DEF Dequeued
<1>2. after = [i \in 0 .. n |-> IF i = 0 THEN s ELSE Dequeue(after[i - 1])]
  <2>1. \E f : f = [i \in 0 .. n |-> IF i = 0 THEN s ELSE Dequeue(f[i - 1])]
    BY DequeuesExist, Zenon DEF Dequeues
  <2>. QED
    BY <2>1, Zenon
<1>. HIDE DEF after
<1>3. \A i \in 0 .. n : after[i] = IF i = 0 THEN s ELSE Dequeue(after[i - 1])
  BY <1>2, Zenon
<1>4. Len(s.Queue) \in Nat
  BY DEF GoodWindow
<1>. DEFINE T == {i \in 0 .. n : GoodWindow(after[i]) /\ Tracks(after[i]) /\ Len(after[i].Queue) = Len(s.Queue) - i}
<1>5. 0 \in T
  <2>1. after[0] = s
    BY <1>3
  <2>. QED
    BY <1>4, <2>1
<1>6. ASSUME NEW i \in 0 .. n - 1, i \in T PROVE i + 1 \in T
  <2>1. i + 1 \in 0 .. n /\ i + 1 # 0 /\ (i + 1) - 1 = i
    OBVIOUS
  <2>. DEFINE a == after[i]
              b == after[i + 1]
  <2>2. b = Dequeue(a)
    BY <1>3, <2>1
  <2>3. GoodWindow(a) /\ Tracks(a) /\ Len(a.Queue) = Len(s.Queue) - i
    BY <1>6
  <2>. HIDE DEF a, b
  <2>4. Len(a.Queue) > 1
    BY <1>4, <2>3
  <2>5. GoodWindow(b) /\ Len(b.Queue) = Len(a.Queue) - 1
    BY <2>2, <2>3, <2>4, DequeueSound
  <2>6. Tracks(b)
    BY <2>2, <2>3, <2>4, DequeueTracks
  <2>7. Len(b.Queue) = Len(s.Queue) - (i + 1)
    BY <1>4, <2>3, <2>5
  <2>. QED
    BY <2>1, <2>5, <2>6, <2>7 DEF b
<1>7. 0 .. n \subseteq T
  <2>. HIDE DEF T
  <2>. QED
    BY <1>5, <1>6, InductionUpTo
<1>8. n \in T
  BY <1>7
<1>. QED
  BY <1>1, <1>8
-----------------------------------------------------------------------------
(* The inductive invariant: the window is empty, or its tree is a search   *)
(* tree with the samples of the queue, never over its size, and its points *)
(* are at nodes.                                                           *)
EmptyWindow ==
  hist = [tree |-> EmptyTree, Queue |-> <<>>, MinItem |-> NoItem, MaxItem |-> NoItem,
          tracked |-> [p \in Percentiles |-> [item |-> NoItem, count |-> 0]]]
HistogramInv == EmptyWindow \/ (GoodWindow(hist) /\ Tracks(hist) /\ Len(hist.Queue) <= QueueSize)

LEMMA EnqueueInv ==
  ASSUME HistogramInv, NEW v \in Values, NEW k \in SampleCounts, Enqueue(v, k)
  PROVE  HistogramInv'
<1>0. k \in Nat \ {0} /\ QueueSize \in Nat \ {0}
  BY HistogramAssumption
<1>. DEFINE s == IF hist.tree.root = NoItem THEN First(v, k) ELSE Added(hist, v, k)
            n == Overflow(s)
<1>1. hist' = IF n > 0 THEN Dequeued(s, n) ELSE s
  BY DEF Enqueue, Trimmed
<1>2. GoodWindow(s) /\ Tracks(s)
  <2>1. CASE hist.tree.root = NoItem
    <3>1. s = First(v, k)
      BY <2>1
    <3>. HIDE DEF s
    <3>. QED
      BY <3>1, FirstSound, FirstTracks
  <2>2. CASE hist.tree.root # NoItem
    <3>1. s = Added(hist, v, k)
      BY <2>2
    <3>2. GoodWindow(hist) /\ Tracks(hist)
      BY <2>2, EmptyTreeFacts DEF HistogramInv, EmptyWindow
    <3>. HIDE DEF s
    <3>. QED
      BY <3>1, <3>2, AddedSound, AddedTracks
  <2>. QED
    BY <2>1, <2>2
<1>3. n = Len(s.Queue) - QueueSize
  BY DEF Overflow
<1>. HIDE DEF s, n
<1>4. Len(s.Queue) \in Nat
  BY <1>2 DEF GoodWindow
<1>5. CASE n > 0
  <2>1. n \in Nat /\ n < Len(s.Queue) /\ Len(s.Queue) - n = QueueSize
    BY <1>0, <1>3, <1>4, <1>5
  <2>2. hist' = Dequeued(s, n)
    BY <1>1, <1>5
  <2>3. GoodWindow(hist') /\ Tracks(hist') /\ Len(hist'.Queue) = QueueSize
    BY <1>2, <2>1, <2>2, DequeuedSound
  <2>. QED
    BY <1>0, <2>3 DEF HistogramInv
<1>6. CASE ~ (n > 0)
  <2>1. hist' = s /\ Len(s.Queue) <= QueueSize
    BY <1>0, <1>1, <1>3, <1>4, <1>6
  <2>. QED
    BY <1>2, <2>1 DEF HistogramInv
<1>. QED
  BY <1>5, <1>6

(* An empty window has no nodes.                                           *)
LEMMA EmptyNodes ==
  ASSUME EmptyWindow
  PROVE  Nodes = {} /\ Queue = <<>> /\ Queue \in Seq(Values) /\ Len(Queue) = 0
<1>1. Tree = EmptyTree /\ Queue = <<>>
  BY DEF EmptyWindow, Tree, Queue
<1>2. Nodes = {}
  BY <1>1, EmptyTreeFacts DEF Nodes
<1>. QED
  BY <1>1, <1>2

LEMMA SoundTree ==
  ASSUME GoodWindow(hist)
  PROVE  /\ \E D : SearchTree(Tree, Nodes, D)
         /\ Queue \in Seq(Values) /\ Len(Queue) > 0 /\ Weighed(Tree, Queue)
         /\ SampleCounts \subseteq {1} => TreeCounted(Tree, Nodes)
         /\ Bounds(Nodes, hist.MinItem, hist.MaxItem)
<1>1. Nodes = NodesOf(Tree)
  BY DEF Nodes, NodesOf
<1>. QED
  BY <1>1 DEF GoodWindow, Tree, Queue

LEMMA InvTreeOrdered == HistogramInv => TreeOrdered
<1>1. ASSUME EmptyWindow PROVE TreeOrdered
  BY <1>1, EmptyNodes DEF TreeOrdered
<1>2. ASSUME GoodWindow(hist) PROVE TreeOrdered
  <2>. DEFINE h == Tree
              N == Nodes
  <2>1. PICK D : SearchTree(h, N, D)
    BY <1>2, SoundTree
  <2>2. /\ h \in Trees /\ IsFiniteSet(N) /\ Shaped(h, N, D) /\ Rooted(h, N) /\ Linked(h, N) /\ N \subseteq Values
    BY <2>1 DEF SearchTree, Shaped
  <2>. HIDE DEF h, N
  <2>3. ASSUME NEW n \in N PROVE PlaceOf(h, n) = n
    BY <2>2, PlaceOfNode
  <2>4. ASSUME NEW n \in N, NEW s \in Sides, NEW m \in Values, h.child[s][n] = m
        PROVE  h.parent[m] = n /\ s = Towards(m, n) /\ m \in N
    <3>1. m # NoItem
      BY HistogramTreeAssumption
    <3>. QED
      BY <2>2, <2>4, <3>1, ShapeFacts
  <2>5. ASSUME NEW n \in N, NEW s \in Sides, NEW B, B = {m \in N : m # n /\ Towards(m, n) = s}
        PROVE  IF B = {} THEN h.next[s][n] = NoItem
               ELSE h.next[s][n] \in B
                    /\ \A m \in B : m = h.next[s][n] \/ Towards(m, h.next[s][n]) = s
    <3>1. Neighbor(N, n, s, h.next[s][n])
      BY <2>2 DEF Linked
    <3>2. CASE h.next[s][n] = NoItem
      <4>1. B = {}
        BY <2>5, <3>1, <3>2 DEF Neighbor
      <4>. QED
        BY <3>2, <4>1
    <3>3. CASE h.next[s][n] # NoItem
      <4>1. h.next[s][n] \in B
        BY <2>5, <3>1, <3>3 DEF Neighbor
      <4>2. \A m \in B : m = h.next[s][n] \/ Towards(m, h.next[s][n]) = s
        BY <2>5, <3>1, <3>3 DEF Neighbor
      <4>. QED
        BY <4>1, <4>2
    <3>. QED
      BY <3>2, <3>3
  <2>6. ASSUME NEW n \in N, NEW s \in Sides
        PROVE  LET beyond == {m \in N : m # n /\ Towards(m, n) = s}
               IN  IF beyond = {} THEN h.next[s][n] = NoItem
                   ELSE /\ h.next[s][n] \in beyond
                        /\ \A m \in beyond : m = h.next[s][n] \/ Towards(m, h.next[s][n]) = s
    BY <2>5
  <2>. QED
    BY <2>3, <2>4, <2>6 DEF TreeOrdered, h, N
<1>. QED
  BY <1>1, <1>2 DEF HistogramInv

LEMMA InvWindowMatches == HistogramInv => WindowMatchesTree
<1>1. ASSUME EmptyWindow PROVE WindowMatchesTree
  <2>1. ToSet(Queue) = {}
    <3>1. ToSet(<<>>) = {}
      BY DEF ToSet
    <3>. QED
      BY <1>1, <3>1, EmptyNodes
  <2>. QED
    BY <1>1, <2>1, EmptyNodes DEF WindowMatchesTree
<1>2. ASSUME GoodWindow(hist) PROVE WindowMatchesTree
  <2>. DEFINE h == Tree
              N == Nodes
              q == Queue
  <2>1. PICK D : SearchTree(h, N, D)
    BY <1>2, SoundTree
  <2>2. /\ q \in Seq(Values) /\ Len(q) > 0 /\ Weighed(h, q) /\ Bounds(N, hist.MinItem, hist.MaxItem)
    BY <1>2, SoundTree
  <2>3. h.root \in N /\ N \subseteq Values /\ \A x \in Values : h.dup[x] > 0 <=> x \in N
    BY <2>1 DEF SearchTree, Rooted, Shaped
  <2>. HIDE DEF h, N, q
  <2>4. ASSUME NEW x \in Values PROVE x \in N <=> \E i \in 1 .. Len(q) : q[i] = x
    <3>1. h.dup[x] = Among(q, {x}) /\ Among(q, {x}) \in Nat
      BY <2>2, AmongFacts DEF Weighed
    <3>2. Among(q, {x}) = 0 <=> \A i \in 1 .. Len(q) : q[i] \notin {x}
      BY <2>2, AmongFacts
    <3>3. x \in N <=> Among(q, {x}) # 0
      BY <2>3, <3>1
    <3>4. (\A i \in 1 .. Len(q) : q[i] \notin {x}) <=> ~ \E i \in 1 .. Len(q) : q[i] = x
      OBVIOUS
    <3>. QED
      BY <3>2, <3>3, <3>4
  <2>5. N = ToSet(q)
    <3>1. \A i \in 1 .. Len(q) : q[i] \in Values
      BY <2>2
    <3>2. \A x : x \in ToSet(q) <=> \E i \in 1 .. Len(q) : q[i] = x
      BY <2>2, ToSetOfSeq
    <3>3. ASSUME NEW x \in N PROVE x \in ToSet(q)
      BY <2>3, <2>4, <3>2
    <3>4. ASSUME NEW x \in ToSet(q) PROVE x \in N
      BY <2>4, <3>1, <3>2
    <3>. QED
      BY <3>3, <3>4
  <2>6. ASSUME NEW n \in N PROVE h.dup[n] = Cardinality({i \in DOMAIN q : q[i] \in {n}})
    BY <2>2, <2>3 DEF Weighed, Among, Places
  <2>. QED
    BY <2>2, <2>3, <2>5, <2>6 DEF WindowMatchesTree, NumberIn, Bounds, h, N, q
<1>. QED
  BY <1>1, <1>2 DEF HistogramInv

LEMMA InvCountsExact == SampleCounts \subseteq {1} /\ HistogramInv => CountsExact
<1>1. ASSUME EmptyWindow PROVE CountsExact
  BY <1>1, EmptyNodes DEF CountsExact
<1>2. ASSUME SampleCounts \subseteq {1}, GoodWindow(hist) PROVE CountsExact
  <2>. DEFINE h == Tree
              N == Nodes
              q == Queue
  <2>1. PICK D : SearchTree(h, N, D)
    BY <1>2, SoundTree
  <2>2. q \in Seq(Values) /\ Weighed(h, q) /\ TreeCounted(h, N)
    BY <1>2, SoundTree
  <2>3. /\ h \in Trees /\ IsFiniteSet(N) /\ Shaped(h, N, D) /\ N \subseteq Values /\ ExactBut(h, N, {})
        /\ \A x \in Values : h.dup[x] > 0 <=> x \in N
    BY <2>1 DEF SearchTree, Shaped
  <2>. HIDE DEF h, N, q
  <2>4. \A i \in 1 .. Len(q) : q[i] \in N
    <3>1. ASSUME NEW i \in 1 .. Len(q) PROVE q[i] \in N
      <4>1. q[i] \in Values /\ q[i] \in {q[i]}
        BY <2>2
      <4>2. h.dup[q[i]] = Among(q, {q[i]})
        BY <2>2, <4>1 DEF Weighed
      <4>3. Among(q, {q[i]}) # 0 /\ Among(q, {q[i]}) \in Nat
        BY <2>2, <4>1, AmongFacts
      <4>4. h.dup[q[i]] > 0
        BY <4>2, <4>3
      <4>. QED
        BY <2>3, <4>1, <4>4
    <3>. QED
      BY <3>1
  <2>5. ASSUME NEW n \in N, NEW S, S = {x \in Values : n \in ToSet(Path(h, x))}
        PROVE  h.count[n] = Among(q, S)
    <3>1. h.count[n] = Among(q, D[n])
      BY <2>1, <2>2, CountsBelow
    <3>2. ASSUME NEW i \in 1 .. Len(q) PROVE q[i] \in S <=> q[i] \in D[n]
      <4>1. q[i] \in N /\ q[i] \in Values
        BY <2>2, <2>4
      <4>2. n \in ToSet(Path(h, q[i])) <=> q[i] \in D[n]
        BY <2>3, <4>1, PathAncestors
      <4>. QED
        BY <2>5, <4>1, <4>2
    <3>3. Among(q, S) = Among(q, D[n])
      BY <2>2, <3>2, AmongSame
    <3>. QED
      BY <3>1, <3>3
  <2>6. ASSUME NEW n \in N PROVE h.height[n] = CalcHeight(h, n).height[n]
    <3>. DEFINE g == CalcHeight(h, n)
    <3>1. g = CalcHeight(h, n)
      OBVIOUS
    <3>2. n \in Values /\ h.height[n] = HeightHere(h, n)
      BY <2>3 DEF ExactBut
    <3>. HIDE DEF g
    <3>3. g.height[n] = HeightHere(h, n)
      BY <2>3, <3>1, <3>2, CalcHeightFacts DEF HeightSet
    <3>. QED
      BY <3>2, <3>3 DEF g
  <2>7. ASSUME NEW n \in N
        PROVE  h.count[n] = Cardinality({i \in DOMAIN q : q[i] \in {x \in Values : n \in ToSet(Path(h, x))}})
    BY <2>5 DEF Among, Places
  <2>. QED
    BY <2>6, <2>7 DEF CountsExact, NumberIn, h, N, q
<1>. QED
  BY <1>1, <1>2 DEF HistogramInv

-----------------------------------------------------------------------------
(***************************************************************************)
(* Searches: the number of samples up to an item.                          *)
(***************************************************************************)
OwnCount(h, n) == h.dup[n] + CountOf(h, h.child[L][n])

LEMMA OwnCountExact ==
  ASSUME NEW h, NEW N, NEW D, SearchTree(h, N, D), TreeCounted(h, N),
         NEW q \in Seq(Values), Weighed(h, q), NEW n \in N
  PROVE  OwnCount(h, n) = Among(q, {n} \cup Below(D, h.child[L][n]))
<1>. DEFINE l == h.child[L][n]
<1>0. h \in Trees /\ Shaped(h, N, D) /\ N \subseteq Values /\ n \in Values /\ L \in Sides
  BY DEF SearchTree, Shaped, Sides
<1>1. n \notin Below(D, l) /\ (l # NoItem => l \in N)
  BY <1>0, ShapeApart, ShapeFacts
<1>2. CountOf(h, l) = Among(q, Below(D, l))
  <2>1. CASE l = NoItem
    <3>1. Among(q, {}) = 0
      BY AmongFacts
    <3>. QED
      BY <2>1, <3>1 DEF CountOf, Below
  <2>2. CASE l # NoItem
    <3>1. h.count[l] = Among(q, D[l])
      BY <1>1, <2>2, CountsBelow
    <3>. QED
      BY <2>2, <3>1 DEF CountOf, Below
  <2>. QED
    BY <2>1, <2>2
<1>3. h.dup[n] = Among(q, {n})
  BY <1>0 DEF Weighed
<1>. HIDE DEF l
<1>4. Among(q, {n} \cup Below(D, l)) = Among(q, {n}) + Among(q, Below(D, l))
  BY <1>1, AmongUnion
<1>. QED
  BY <1>2, <1>3, <1>4 DEF OwnCount, l

(* The nodes before n that are not below it.                               *)
Before(N, D, n) == {x \in N \ D[n] : x < n}

LEMMA BeforeFacts ==
  ASSUME NEW h, NEW N, NEW D, SearchTree(h, N, D), NEW n \in N
  PROVE  /\ h.parent[n] = NoItem => Before(N, D, n) = {}
         /\ \A p : p = h.parent[n] /\ p # NoItem =>
              /\ p \in N
              /\ h.child[L][p] = n => Before(N, D, n) = Before(N, D, p)
              /\ h.child[L][p] # n =>
                   /\ Before(N, D, n) = Before(N, D, p) \cup ({p} \cup Below(D, h.child[L][p]))
                   /\ Before(N, D, p) \cap ({p} \cup Below(D, h.child[L][p])) = {}
<1>0. /\ h \in Trees /\ Shaped(h, N, D) /\ IsFiniteSet(N) /\ Rooted(h, N)
      /\ N \subseteq Values /\ N \subseteq Nat /\ L \in Sides /\ R \in Sides /\ Other(L) = R /\ Other(R) = L /\ L # R
  BY HistogramTreeAssumption DEF SearchTree, Shaped, Sides, Other, L, R
<1>1. ASSUME h.parent[n] = NoItem PROVE Before(N, D, n) = {}
  <2>1. n = h.root
    BY <1>0, <1>1 DEF Rooted, Shaped, OneRoot
  <2>2. D[n] = N
    BY <1>0, <2>1, AllBelowRoot
  <2>. QED
    BY <2>2 DEF Before
<1>2. ASSUME NEW p, p = h.parent[n], p # NoItem
      PROVE  /\ p \in N
             /\ h.child[L][p] = n => Before(N, D, n) = Before(N, D, p)
             /\ h.child[L][p] # n =>
                  /\ Before(N, D, n) = Before(N, D, p) \cup ({p} \cup Below(D, h.child[L][p]))
                  /\ Before(N, D, p) \cap ({p} \cup Below(D, h.child[L][p])) = {}
  <2>1. p \in N /\ D[n] \subseteq D[p] /\ p \notin D[n] /\ \E s \in Sides : h.child[s][p] = n
    BY <1>0, <1>2, ShapeApart
  <2>2. h.child[L][p] = n \/ h.child[R][p] = n
    BY <2>1 DEF Sides
  <2>3. n \in D[n] /\ p \in D[p] /\ n # NoItem
    BY <1>0, <2>1, ShapeFacts
  <2>4. \A x \in N \ D[p] : x < n <=> x < p
    <3>1. ASSUME NEW x \in N \ D[p] PROVE x < n <=> x < p
      <4>1. InRange(N, D, p, p)
        BY <1>0, <2>1, PlaceOfNode
      <4>2. Towards(n, x) = Towards(p, x)
        BY <2>1, <2>3, <4>1 DEF InRange
      <4>3. x # n /\ x # p /\ x \in Nat /\ n \in Nat /\ p \in Nat
        BY <1>0, <2>1, <2>3
      <4>. QED
        BY <4>2, <4>3 DEF Towards, L, R
    <3>. QED
      BY <3>1
  <2>. DEFINE l == Below(D, h.child[L][p])
              r == Below(D, h.child[R][p])
  <2>5. /\ D[p] = {p} \cup l \cup r /\ p \notin l /\ p \notin r /\ l \cap r = {}
        /\ \A x \in l : x < p
        /\ \A x \in r : ~ (x < p)
    <3>1. D[p] = {p} \cup l \cup r
      BY <1>0, <2>1, ShapeFacts
    <3>2. \A m \in l : m # p /\ Towards(m, p) = L /\ m \notin r
      BY <1>0, <2>1, ShapeApart
    <3>3. \A m \in r : m # p /\ Towards(m, p) = R
      BY <1>0, <2>1, ShapeApart
    <3>4. /\ \A m : Towards(m, p) = L => m < p
          /\ \A m : Towards(m, p) = R => ~ (m < p)
      BY <1>0 DEF Towards
    <3>. QED
      BY <3>1, <3>2, <3>3, <3>4
  <2>6. D[p] \subseteq N
    BY <1>0, <2>1, ShapeFacts
  <2>7. CASE h.child[L][p] = n
    <3>1. l = D[n]
      BY <2>3, <2>7 DEF Below
    <3>. HIDE DEF l, r
    <3>2. n < p
      BY <2>3, <2>5, <3>1
    <3>3. \A x \in N : x \in N \ D[n] /\ x < n <=> x \in N \ D[p] /\ x < p
      <4>1. ASSUME NEW x \in {p} \cup r PROVE ~ (x < n)
        <5>1. x \in Nat /\ p \in Nat /\ n \in Nat /\ ~ (x < p)
          BY <1>0, <2>1, <2>5, <2>6
        <5>. QED
          BY <3>2, <5>1
      <4>. QED
        BY <2>1, <2>4, <2>5, <3>1, <4>1
    <3>. QED
      BY <2>1, <2>7, <3>3 DEF Before
  <2>8. CASE h.child[L][p] # n
    <3>1. r = D[n]
      BY <2>2, <2>3, <2>8 DEF Below
    <3>2. Below(D, h.child[L][p]) = l
      OBVIOUS
    <3>. HIDE DEF l, r
    <3>3. ~ (n < p) /\ n # p
      BY <2>3, <2>5, <3>1
    <3>4. \A x \in {p} \cup l : x < n /\ x \in N \ D[n] /\ x \notin N \ D[p]
      <4>1. ASSUME NEW x \in {p} \cup l PROVE x < n
        <5>1. x \in Nat /\ p \in Nat /\ n \in Nat /\ (x < p \/ x = p)
          BY <1>0, <2>1, <2>5, <2>6
        <5>. QED
          BY <3>3, <5>1
      <4>. QED
        BY <2>1, <2>5, <2>6, <3>1, <4>1
    <3>5. \A x \in N : x \in N \ D[n] <=> x \in N \ D[p] \/ x \in {p} \cup l
      BY <2>5, <2>6, <3>1
    <3>6. Before(N, D, n) = Before(N, D, p) \cup ({p} \cup l)
      BY <2>4, <2>6, <2>5, <3>4, <3>5 DEF Before
    <3>7. Before(N, D, p) \cap ({p} \cup l) = {}
      BY <3>4 DEF Before
    <3>. QED
      BY <2>1, <2>8, <3>2, <3>6, <3>7
  <2>. QED
    BY <2>7, <2>8
<1>. QED
  BY <1>1, <1>2

LEMMA CumulativeCountExact ==
  ASSUME NEW h, NEW N, NEW D, SearchTree(h, N, D), TreeCounted(h, N),
         NEW q \in Seq(Values), Weighed(h, q), NEW n \in N
  PROVE  CumulativeCount(h, n) = Among(q, {x \in N : x <= n})
<1>. DEFINE X == Values
            Y == Int
            K == Cardinality(N) + 1
            mu == [c \in X |-> Depth(N, D, c)]
            Own(c) == h.dup[c] + CountOf(h, h.child[L][c])
            Fits(f) == f = [c \in X |-> IF h.parent[c] = NoItem THEN 0
                                        ELSE f[h.parent[c]] + IF h.child[L][h.parent[c]] = c THEN 0
                                                              ELSE Own(h.parent[c])]
            G == [f \in [X -> Y] |->
                    [c \in X |-> IF h.parent[c] = NoItem THEN 0
                                 ELSE f[h.parent[c]] + IF h.child[L][h.parent[c]] = c THEN 0
                                                       ELSE Own(h.parent[c])]]
            up == CHOOSE f : Fits(f)
<1>0. /\ h \in Trees /\ Shaped(h, N, D) /\ IsFiniteSet(N) /\ N \subseteq Values /\ N \subseteq Nat
      /\ NoItem \notin Values /\ L \in Sides
  BY HistogramTreeAssumption DEF SearchTree, Shaped, Sides
<1>1. K \in Nat /\ Cardinality(N) \in Nat
  BY <1>0, FS_CardinalityType
<1>2. \A c \in X : h.parent[c] \in Values \cup {NoItem}
  BY <1>0, TreeFields
<1>3. mu \in [X -> 0 .. K]
  <2>1. \A c \in X : Depth(N, D, c) \in 0 .. K
    BY <1>0, DepthFacts
  <2>. QED
    BY <2>1
<1>4. \A c \in X : h.parent[c] # NoItem => h.parent[c] \in X /\ mu[h.parent[c]] < mu[c]
  BY <1>0, <1>2, DepthFacts
<1>5. \A c \in X : Own(c) \in Int
  <2>1. ASSUME NEW c \in X PROVE Own(c) \in Int
    <3>1. h.dup[c] \in Nat /\ h.child[L][c] \in Values \cup {NoItem}
      BY <1>0, TreeFields
    <3>2. \A m \in Values \cup {NoItem} : CountOf(h, m) \in Int
      <4>1. \A m \in Values : h.count[m] \in Int
        BY <1>0, TreeFields
      <4>. QED
        BY <4>1 DEF CountOf
    <3>. QED
      BY <3>1, <3>2
  <2>. QED
    BY <2>1
<1>. HIDE DEF Own
<1>6. G \in [[X -> Y] -> [X -> Y]]
  <2>1. ASSUME NEW f \in [X -> Y], NEW c \in X
        PROVE  (IF h.parent[c] = NoItem THEN 0
                ELSE f[h.parent[c]] + IF h.child[L][h.parent[c]] = c THEN 0 ELSE Own(h.parent[c])) \in Y
    <3>1. CASE h.parent[c] = NoItem
      BY <3>1
    <3>2. CASE h.parent[c] # NoItem
      <4>1. h.parent[c] \in X
        BY <1>4, <3>2
      <4>2. f[h.parent[c]] \in Int /\ Own(h.parent[c]) \in Int
        BY <1>5, <4>1
      <4>3. f[h.parent[c]] + (IF h.child[L][h.parent[c]] = c THEN 0 ELSE Own(h.parent[c])) \in Int
        BY <4>2
      <4>. QED
        BY <3>2, <4>3
    <3>. QED
      BY <3>1, <3>2
  <2>. QED
    BY <2>1
<1>7. \A f, g \in [X -> Y], x \in X :
        (\A y \in X : mu[y] < mu[x] => f[y] = g[y]) => G[f][x] = G[g][x]
  <2>. SUFFICES ASSUME NEW f \in [X -> Y], NEW g \in [X -> Y], NEW x \in X,
                       \A y \in X : mu[y] < mu[x] => f[y] = g[y]
                PROVE  G[f][x] = G[g][x]
    OBVIOUS
  <2>1. h.parent[x] # NoItem => f[h.parent[x]] = g[h.parent[x]]
    BY <1>4
  <2>. QED
    BY <2>1
<1>8. \E f : Fits(f)
  <2>1. Unfolds(G, mu, X, Y, K)
    <3>. HIDE DEF G, mu, K, X, Y
    <3>. QED
      BY <1>3, <1>6, <1>7 DEF Unfolds
  <2>2. \E f : FixedBy(f, G, X, Y)
    <3>1. 0 \in Y
      OBVIOUS
    <3>. HIDE DEF G, mu, K, X, Y
    <3>. QED
      BY <1>1, <2>1, <3>1, FixedPoint
  <2>3. PICK f : FixedBy(f, G, X, Y)
    BY <2>2
  <2>4. f \in [X -> Y] /\ f = G[f]
    <3>. HIDE DEF G
    <3>. QED
      BY <2>3 DEF FixedBy
  <2>. QED
    BY <2>4
<1>9. Fits(up)
  <2>. HIDE DEF Fits
  <2>. QED
    BY <1>8, Zenon
<1>10. n # NoItem /\ CumulativeCount(h, n) = Own(n) + up[n]
  <2>1. n # NoItem
    BY <1>0
  <2>2. CumulativeCount(h, n) = IF n = NoItem THEN 0 ELSE Own(n) + up[n]
    BY Zenon DEF CumulativeCount, Own
  <2>. QED
    BY <2>1, <2>2
<1>. HIDE DEF up, G, K, mu
<1>11. \A c \in X : up[c] = IF h.parent[c] = NoItem THEN 0
                            ELSE up[h.parent[c]] + IF h.child[L][h.parent[c]] = c THEN 0
                                                   ELSE Own(h.parent[c])
  BY <1>9
<1>. HIDE DEF Fits
<1>12. \A c \in N : Own(c) = Among(q, {c} \cup Below(D, h.child[L][c]))
  BY OwnCountExact DEF OwnCount, Own
<1>. DEFINE T == {k \in 0 .. Cardinality(N) + 1 :
                    \A c \in N : Depth(N, D, c) <= k => up[c] = Among(q, Before(N, D, c))}
<1>13. \A c \in N : Depth(N, D, c) \in 0 .. Cardinality(N) + 1 /\ Depth(N, D, h.parent[c]) < Depth(N, D, c)
  BY <1>0, DepthFacts
<1>14. ASSUME NEW c \in N, h.parent[c] # NoItem => up[h.parent[c]] = Among(q, Before(N, D, h.parent[c]))
       PROVE  up[c] = Among(q, Before(N, D, c))
  <2>. DEFINE p == h.parent[c]
  <2>1. CASE p = NoItem
    <3>1. Before(N, D, c) = {}
      BY <2>1, BeforeFacts
    <3>2. Among(q, {}) = 0
      BY AmongFacts
    <3>3. up[c] = 0
      BY <1>0, <1>11, <2>1
    <3>. QED
      BY <3>1, <3>2, <3>3
  <2>2. CASE p # NoItem /\ h.child[L][p] = c
    <3>1. Before(N, D, c) = Before(N, D, p)
      BY <2>2, BeforeFacts
    <3>2. up[p] = Among(q, Before(N, D, p))
      BY <1>14, <2>2
    <3>3. Among(q, Before(N, D, p)) \in Nat
      BY AmongFacts
    <3>4. up[c] = up[p] + 0
      BY <1>0, <1>11, <2>2
    <3>. QED
      BY <3>1, <3>2, <3>3, <3>4
  <2>3. CASE p # NoItem /\ h.child[L][p] # c
    <3>. DEFINE B == {p} \cup Below(D, h.child[L][p])
    <3>1. p \in N /\ Before(N, D, c) = Before(N, D, p) \cup B /\ Before(N, D, p) \cap B = {}
      BY <2>3, BeforeFacts
    <3>2. up[p] = Among(q, Before(N, D, p)) /\ Own(p) = Among(q, B)
      BY <1>12, <1>14, <2>3, <3>1
    <3>3. up[c] = up[p] + Own(p)
      BY <1>0, <1>11, <2>3
    <3>. HIDE DEF B
    <3>4. Among(q, Before(N, D, p) \cup B) = Among(q, Before(N, D, p)) + Among(q, B)
      BY <3>1, AmongUnion
    <3>. QED
      BY <3>1, <3>2, <3>3, <3>4
  <2>. QED
    BY <2>1, <2>2, <2>3
<1>15. 0 \in T
  <2>1. ASSUME NEW c \in N, Depth(N, D, c) <= 0 PROVE FALSE
    <3>1. h.parent[c] \in Values \cup {NoItem}
      BY <1>0, <1>2
    <3>2. Depth(N, D, h.parent[c]) \in Nat
      <4>1. CASE h.parent[c] = NoItem
        BY <1>0, <4>1 DEF Depth
      <4>2. CASE h.parent[c] \in Values
        <5>1. Depth(N, D, h.parent[c]) \in 0 .. Cardinality(N) + 1
          BY <1>0, <4>2, DepthFacts
        <5>. QED
          BY <1>1, <5>1
      <4>. QED
        BY <3>1, <4>1, <4>2
    <3>3. Depth(N, D, c) \in Nat /\ Depth(N, D, h.parent[c]) < Depth(N, D, c)
      BY <1>1, <1>13
    <3>. QED
      BY <2>1, <3>2, <3>3
  <2>. QED
    BY <1>1, <2>1
<1>16. ASSUME NEW k \in 0 .. (Cardinality(N) + 1) - 1, k \in T PROVE k + 1 \in T
  <2>1. ASSUME NEW c \in N, Depth(N, D, c) <= k + 1 PROVE up[c] = Among(q, Before(N, D, c))
    <3>1. ASSUME h.parent[c] # NoItem PROVE up[h.parent[c]] = Among(q, Before(N, D, h.parent[c]))
      <4>1. h.parent[c] \in N
        BY <3>1, BeforeFacts
      <4>2. /\ Depth(N, D, h.parent[c]) \in 0 .. Cardinality(N) + 1 /\ Depth(N, D, c) \in 0 .. Cardinality(N) + 1
            /\ Depth(N, D, h.parent[c]) < Depth(N, D, c)
        BY <1>13, <4>1
      <4>3. Depth(N, D, h.parent[c]) <= k
        BY <1>1, <2>1, <4>2
      <4>. QED
        BY <1>16, <4>1, <4>3
    <3>. QED
      BY <1>14, <3>1
  <2>. QED
    BY <1>1, <2>1
<1>17. 0 .. Cardinality(N) + 1 \subseteq T
  <2>1. Cardinality(N) + 1 \in Nat
    BY <1>1
  <2>. HIDE DEF T
  <2>. QED
    BY <1>15, <1>16, <2>1, InductionUpTo
<1>18. up[n] = Among(q, Before(N, D, n))
  <2>1. Cardinality(N) + 1 \in T
    BY <1>1, <1>17
  <2>2. Depth(N, D, n) <= Cardinality(N) + 1
    BY <1>1, <1>13
  <2>. QED
    BY <2>1, <2>2
<1>. HIDE DEF T
<1>. DEFINE B == {n} \cup Below(D, h.child[L][n])
<1>19. {x \in N : x <= n} = B \cup Before(N, D, n) /\ B \cap Before(N, D, n) = {}
  <2>0. R \in Sides /\ Other(L) = R /\ Other(R) = L
    BY DEF Sides, Other, L, R
  <2>. DEFINE l == Below(D, h.child[L][n])
              r == Below(D, h.child[R][n])
  <2>1. D[n] = {n} \cup l \cup r /\ D[n] \subseteq N
    <3>1. D[n] = {n} \cup Below(D, h.child[L][n]) \cup Below(D, h.child[R][n])
      BY <1>0, <2>0, ShapeFacts
    <3>2. D[n] \subseteq N
      BY <1>0, OwnFacts
    <3>. QED
      BY <3>1, <3>2
  <2>2. \A m \in l : m # n /\ Towards(m, n) = L
    BY <1>0, BelowSide
  <2>3. \A m \in r : m # n /\ Towards(m, n) = R
    BY <1>0, <2>0, BelowSide
  <2>4. \A m : (Towards(m, n) = L => m < n) /\ (Towards(m, n) = R => ~ (m < n))
    BY DEF Towards, L, R
  <2>5. B = {n} \cup l
    OBVIOUS
  <2>. HIDE DEF l, r, B
  <2>6. \A x \in N : x \in Nat /\ n \in Nat
    BY <1>0
  <2>7. \A x \in l : x < n
    BY <2>2, <2>4
  <2>8. \A x \in r : ~ (x < n) /\ x # n
    BY <2>3, <2>4
  <2>9. ASSUME NEW x \in N PROVE x <= n <=> x \in B \/ (x \in N \ D[n] /\ x < n)
    BY <2>1, <2>5, <2>6, <2>7, <2>8
  <2>10. B \subseteq D[n] /\ B \subseteq N
    BY <2>1, <2>5
  <2>. QED
    BY <2>9, <2>10 DEF Before
<1>20. Own(n) = Among(q, B)
  BY <1>12
<1>. HIDE DEF B
<1>21. Among(q, B \cup Before(N, D, n)) = Among(q, B) + Among(q, Before(N, D, n))
  BY <1>19, AmongUnion
<1>. QED
  BY <1>10, <1>18, <1>19, <1>20, <1>21

(***************************************************************************)
(* Searches: the largest item that is not larger than a value.             *)
(***************************************************************************)
(* Where the loop of side s ends: what it has passed is on the other side  *)
(* of the node before the last, or is that node.                           *)
LastFound(h, D, n, s, v, p) ==
  /\ p \in D[n]
  /\ h.child[s][p] = NoItem \/ Towards(v, p) # s
  /\ p # n => /\ h.parent[p] \in D[n] /\ h.child[s][h.parent[p]] = p /\ Towards(v, h.parent[p]) = s
              /\ \A x \in D[n] \ D[p] : x = h.parent[p] \/ Towards(x, h.parent[p]) = Other(s)

LEMMA LastStep ==
  ASSUME NEW h \in Trees, NEW N, NEW D, Shaped(h, N, D), IsFiniteSet(N), NEW n \in N, NEW s \in Sides,
         NEW v \in Values, NEW c, c = h.child[s][n], c # NoItem, Towards(v, n) = s,
         NEW p, LastFound(h, D, c, s, v, p)
  PROVE  LastFound(h, D, n, s, v, p)
<1>0. /\ Other(s) \in Sides /\ Other(s) # s /\ Other(Other(s)) = s
  BY TwoSides
<1>1. /\ c \in N /\ h.parent[c] = n /\ D[c] \subseteq D[n] /\ n \in D[n] /\ n \notin D[c] /\ c \in D[c]
      /\ N \subseteq Values /\ D[n] \subseteq N
  BY ShapeFacts DEF Shaped
<1>2. \A x \in D[c] : x \in Values /\ x # n /\ Towards(x, n) = s
  <2>1. Below(D, h.child[s][n]) = D[c]
    BY DEF Below
  <2>. QED
    BY <2>1, ShapeApart
<1>3. \A x \in D[n] \ D[c] : x = n \/ Towards(x, n) = Other(s)
  <2>. DEFINE rest == Below(D, h.child[Other(s)][n])
  <2>1. D[n] = {n} \cup Below(D, h.child[s][n]) \cup rest
    BY ShapeFacts
  <2>2. Below(D, h.child[s][n]) = D[c]
    BY DEF Below
  <2>3. \A x \in rest : Towards(x, n) = Other(s)
    BY <1>0, BelowSide
  <2>. HIDE DEF rest
  <2>. QED
    BY <2>1, <2>2, <2>3
<1>4. p \in D[c] /\ (h.child[s][p] = NoItem \/ Towards(v, p) # s)
  BY DEF LastFound
<1>5. CASE p = c
  BY <1>1, <1>3, <1>4, <1>5 DEF LastFound
<1>6. CASE p # c
  <2>. DEFINE q == h.parent[p]
  <2>1. /\ q \in D[c] /\ h.child[s][q] = p /\ Towards(v, q) = s
        /\ \A x \in D[c] \ D[p] : x = q \/ Towards(x, q) = Other(s)
    BY <1>6 DEF LastFound
  <2>2. p # n /\ p \in D[n] /\ q \in D[n]
    BY <1>1, <1>2, <1>4, <2>1
  <2>. HIDE DEF q
  <2>3. q \in Values /\ q # n /\ Towards(q, n) = s /\ n \in Values
    BY <1>1, <1>2, <2>1
  <2>4. Towards(n, q) = Other(s)
    BY <2>3, SideFacts
  <2>5. ASSUME NEW x \in D[n] \ D[p] PROVE x = q \/ Towards(x, q) = Other(s)
    <3>1. CASE x \in D[c]
      BY <2>1, <3>1
    <3>2. CASE x = n
      BY <2>4, <3>2
    <3>3. CASE x \notin D[c] /\ x # n
      <4>1. Towards(x, n) = Other(s) /\ x \in Values
        BY <1>1, <1>3, <3>3
      <4>. QED
        BY <2>3, <2>4, <3>3, <4>1, SameSide
    <3>. QED
      BY <3>1, <3>2, <3>3
  <2>. QED
    BY <1>4, <2>1, <2>2, <2>5 DEF LastFound, q
<1>. QED
  BY <1>5, <1>6

LEMMA LastOfFacts ==
  ASSUME NEW h \in Trees, NEW N, NEW D, Shaped(h, N, D), IsFiniteSet(N), NEW s \in Sides, NEW v \in Values
  PROVE  /\ \A n \in N : LastFound(h, D, n, s, v, LastOf(h, n, s, v))
         /\ \A n \in Values \ N : LastOf(h, n, s, v) = n
<1>. DEFINE K == Cardinality(N)
            mu == [n \in Values |-> IF n \in N THEN Cardinality(D[n]) ELSE 0]
            Goes(n) == h.child[s][n] # NoItem /\ Towards(v, n) = s
            G == [f \in [Values -> Values] |->
                    [n \in Values |-> IF Goes(n) THEN f[h.child[s][n]] ELSE n]]
            Solution(f) == f = [n \in Values |-> IF h.child[s][n] # NoItem /\ Towards(v, n) = s
                                                 THEN f[h.child[s][n]] ELSE n]
            run == CHOOSE f : Solution(f)
<1>1. K \in Nat /\ N \subseteq Values /\ NoItem \notin Values
  BY FS_CardinalityType, HistogramTreeAssumption DEF Shaped
<1>2. ASSUME NEW n \in Values, Goes(n)
      PROVE  /\ n \in N /\ h.child[s][n] \in N
             /\ Cardinality(D[h.child[s][n]]) < Cardinality(D[n])
  <2>1. n \in N
    BY <1>2 DEF Shaped, Outside
  <2>. QED
    BY <1>2, <2>1, ShapeFacts, SmallerBelow
<1>3. \A n \in N : Cardinality(D[n]) \in 0 .. K
  BY SmallerBelow
<1>4. \E f : Solution(f)
  <2>1. mu \in [Values -> 0 .. K]
    BY <1>1, <1>3
  <2>2. G \in [[Values -> Values] -> [Values -> Values]]
    <3>1. ASSUME NEW f \in [Values -> Values], NEW n \in Values
          PROVE  (IF Goes(n) THEN f[h.child[s][n]] ELSE n) \in Values
      BY <1>1, <1>2
    <3>. HIDE DEF Goes
    <3>. QED
      BY <3>1
  <2>3. \A f, g \in [Values -> Values], x \in Values :
          (\A y \in Values : mu[y] < mu[x] => f[y] = g[y]) => G[f][x] = G[g][x]
    <3>. SUFFICES ASSUME NEW f \in [Values -> Values], NEW g \in [Values -> Values], NEW x \in Values,
                         \A y \in Values : mu[y] < mu[x] => f[y] = g[y]
                  PROVE  G[f][x] = G[g][x]
      OBVIOUS
    <3>1. CASE ~ Goes(x)
      <4>. HIDE DEF Goes
      <4>. QED
        BY <3>1
    <3>2. CASE Goes(x)
      <4>. DEFINE c == h.child[s][x]
      <4>1. c \in Values /\ mu[c] < mu[x]
        BY <1>1, <1>2, <3>2
      <4>2. f[c] = g[c]
        BY <4>1
      <4>. HIDE DEF Goes
      <4>. QED
        BY <3>2, <4>2
    <3>. QED
      BY <3>1, <3>2
  <2>4. Unfolds(G, mu, Values, Values, K)
    <3>. HIDE DEF G, mu, K
    <3>. QED
      BY <2>1, <2>2, <2>3 DEF Unfolds
  <2>. HIDE DEF mu, K
  <2>5. \E f : FixedBy(f, G, Values, Values)
    <3>. HIDE DEF G
    <3>. QED
      BY <1>1, <2>4, FixedPoint
  <2>6. PICK f : FixedBy(f, G, Values, Values)
    BY <2>5
  <2>7. f \in [Values -> Values] /\ f = G[f]
    <3>. HIDE DEF G
    <3>. QED
      BY <2>6 DEF FixedBy
  <2>. QED
    BY <2>7
<1>5. Solution(run)
  <2>. HIDE DEF Solution
  <2>. QED
    BY <1>4, Zenon
<1>6. \A n : LastOf(h, n, s, v) = run[n]
  BY Zenon DEF LastOf
<1>. HIDE DEF run, G, mu, K
<1>7. \A n \in Values : run[n] = IF Goes(n) THEN run[h.child[s][n]] ELSE n
  BY <1>5
<1>. HIDE DEF Solution
<1>8. ASSUME NEW n \in Values \ N PROVE LastOf(h, n, s, v) = n
  <2>1. ~ Goes(n)
    BY <1>2
  <2>. HIDE DEF Goes
  <2>. QED
    BY <1>6, <1>7, <2>1
<1>. DEFINE T == {k \in 0 .. K : \A n \in N : Cardinality(D[n]) <= k => LastFound(h, D, n, s, v, run[n])}
<1>9. ASSUME NEW n \in N, ~ Goes(n) PROVE LastFound(h, D, n, s, v, run[n])
  <2>1. run[n] = n
    BY <1>1, <1>7, <1>9
  <2>2. n \in D[n]
    BY ShapeFacts
  <2>. QED
    BY <1>9, <2>1, <2>2 DEF LastFound
<1>10. ASSUME NEW n \in N, Goes(n), LastFound(h, D, h.child[s][n], s, v, run[h.child[s][n]])
       PROVE  LastFound(h, D, n, s, v, run[n])
  <2>1. run[n] = run[h.child[s][n]]
    BY <1>1, <1>7, <1>10
  <2>. QED
    BY <1>10, <2>1, LastStep
<1>11. 0 \in T
  <2>1. ASSUME NEW n \in N PROVE Cardinality(D[n]) # 0
    <3>1. IsFiniteSet(D[n]) /\ n \in D[n]
      BY ShapeFacts, FS_Subset
    <3>. QED
      BY <3>1, FS_EmptySet
  <2>2. \A n \in N : ~ (Cardinality(D[n]) <= 0)
    BY <1>1, <1>3, <2>1
  <2>. QED
    BY <1>1, <2>2
<1>12. ASSUME NEW k \in 0 .. K - 1, k \in T PROVE k + 1 \in T
  <2>1. ASSUME NEW n \in N, Cardinality(D[n]) <= k + 1 PROVE LastFound(h, D, n, s, v, run[n])
    <3>1. CASE ~ Goes(n)
      BY <1>9, <3>1
    <3>2. CASE Goes(n)
      <4>. DEFINE c == h.child[s][n]
      <4>1. c \in N /\ Cardinality(D[c]) < Cardinality(D[n])
        BY <1>1, <1>2, <3>2
      <4>2. Cardinality(D[c]) <= k
        <5>. HIDE DEF c
        <5>. QED
          BY <1>1, <1>3, <2>1, <4>1
      <4>3. LastFound(h, D, c, s, v, run[c])
        BY <1>12, <4>1, <4>2
      <4>. QED
        BY <1>10, <3>2, <4>3
    <3>. QED
      BY <3>1, <3>2
  <2>. HIDE DEF Goes
  <2>. QED
    BY <1>1, <2>1
<1>13. 0 .. K \subseteq T
  <2>. HIDE DEF T
  <2>. QED
    BY <1>1, <1>11, <1>12, InductionUpTo
<1>14. ASSUME NEW n \in N PROVE LastFound(h, D, n, s, v, LastOf(h, n, s, v))
  <2>1. K \in T /\ Cardinality(D[n]) <= K
    BY <1>1, <1>3, <1>13
  <2>. QED
    BY <1>6, <2>1
<1>. QED
  BY <1>8, <1>14

LastNode(h, n, v) == LastOf(h, n, Towards(v, n), v)
Deeper(h, n, v) == h.child[Towards(v, LastNode(h, n, v))][LastNode(h, n, v)]
Chosen(h, n, v, d) ==
  IF LastNode(h, n, v) <= v THEN IF n <= v \/ d = NoItem THEN LastNode(h, n, v) ELSE d
  ELSE IF v < n THEN NoItem
  ELSE IF d = NoItem THEN h.parent[LastNode(h, n, v)] ELSE d

(* r is the greatest of S up to v, or NoItem. *)
Greatest(S, v, r) ==
  IF \A x \in S : v < x THEN r = NoItem
  ELSE r \in S /\ r <= v /\ \A x \in S : x <= v => x <= r

(* What the loop has passed is beyond v, or before the rest of the tree.   *)
LEMMA SearchPassed ==
  ASSUME NEW h \in Trees, NEW N, NEW D, Shaped(h, N, D), IsFiniteSet(N), NEW n \in N, NEW v \in Values,
         NEW p, p = LastNode(h, n, v)
  PROVE  /\ p \in N /\ p \in D[n] /\ D[p] \subseteq D[n] /\ D[n] \subseteq N /\ N \subseteq Nat
         /\ h.child[Towards(v, n)][p] = NoItem \/ Towards(v, p) # Towards(v, n)
         /\ v < n => \A x \in D[n] \ D[p] : v < x
         /\ ~ (v < n) /\ p # n => /\ h.parent[p] \in D[n] /\ h.parent[p] <= v
                                  /\ \A x \in D[n] \ D[p] : x <= h.parent[p]
                                  /\ \A x \in D[p] : h.parent[p] <= x
<1>. DEFINE s == Towards(v, n)
            q == h.parent[p]
<1>0. /\ s \in Sides /\ Other(L) = R /\ Other(R) = L /\ L # R
      /\ s = IF v < n THEN L ELSE R
  BY DEF Towards, Sides, Other, L, R
<1>1. N \subseteq Values /\ N \subseteq Nat /\ n \in Nat /\ v \in Nat
  BY HistogramTreeAssumption DEF Shaped
<1>2. LastFound(h, D, n, s, v, p)
  BY <1>0, LastOfFacts DEF LastNode
<1>s. s = Towards(v, n)
  OBVIOUS
<1>. HIDE DEF s
<1>3. p \in D[n] /\ (h.child[s][p] = NoItem \/ Towards(v, p) # s)
  BY <1>2 DEF LastFound
<1>4. p \in N /\ D[p] \subseteq D[n] /\ D[n] \subseteq N
  <2>1. D[n] \subseteq N
    BY ShapeFacts
  <2>2. Nested(h, N, D)
    BY ShapeNested
  <2>. QED
    BY <1>3, <2>1, <2>2 DEF Nested
<1>5. ASSUME p # n
      PROVE  /\ q \in D[n] /\ q \in N /\ Towards(v, q) = s
             /\ \A x \in D[n] \ D[p] : x = q \/ Towards(x, q) = Other(s)
             /\ \A x \in D[p] : x # q /\ Towards(x, q) = s
  <2>1. /\ q \in D[n] /\ h.child[s][q] = p /\ Towards(v, q) = s
        /\ \A x \in D[n] \ D[p] : x = q \/ Towards(x, q) = Other(s)
    BY <1>2, <1>5 DEF LastFound
  <2>2. q \in N
    BY <1>4, <2>1
  <2>. HIDE DEF q
  <2>3. Below(D, h.child[s][q]) = D[p]
    <3>1. p # NoItem
      BY <1>1, <1>4, HistogramTreeAssumption
    <3>. QED
      BY <2>1, <3>1 DEF Below
  <2>4. \A x \in D[p] : x # q /\ Towards(x, q) = s
    BY <1>0, <2>2, <2>3, ShapeApart
  <2>. QED
    BY <2>1, <2>2, <2>4 DEF q
<1>. HIDE DEF q
<1>6. ASSUME v < n, NEW x \in D[n] \ D[p] PROVE v < x
  <2>1. p # n /\ s = L
    BY <1>0, <1>6
  <2>2. q \in Nat /\ x \in Nat
    BY <1>1, <1>4, <1>5, <2>1
  <2>3. v < q
    BY <1>0, <1>5, <2>1 DEF Towards
  <2>4. x = q \/ ~ (x < q)
    BY <1>0, <1>5, <2>1 DEF Towards
  <2>. QED
    BY <1>1, <2>2, <2>3, <2>4
<1>7. ASSUME ~ (v < n), p # n
      PROVE  /\ q \in D[n] /\ q <= v
             /\ \A x \in D[n] \ D[p] : x <= q
             /\ \A x \in D[p] : q <= x
  <2>1. s = R
    BY <1>0, <1>7
  <2>2. q \in Nat /\ q \in D[n]
    BY <1>1, <1>5, <1>7
  <2>3. ~ (v < q)
    BY <1>0, <1>5, <1>7, <2>1 DEF Towards
  <2>4. \A x \in D[n] \ D[p] : x = q \/ x < q
    BY <1>0, <1>5, <1>7, <2>1 DEF Towards
  <2>5. \A x \in D[p] : ~ (x < q)
    BY <1>0, <1>5, <1>7, <2>1 DEF Towards
  <2>6. \A x \in D[n] : x \in Nat
    BY <1>1, <1>4
  <2>. QED
    BY <1>1, <1>4, <2>2, <2>3, <2>4, <2>5, <2>6
<1>. QED
  BY <1>1, <1>3, <1>4, <1>6, <1>7, <1>s DEF q

LEMMA FindStep ==
  ASSUME NEW h \in Trees, NEW N, NEW D, Shaped(h, N, D), IsFiniteSet(N), NEW n \in N, NEW v \in Values,
         NEW d, Greatest(Below(D, Deeper(h, n, v)), v, d), NEW r, r = Chosen(h, n, v, d)
  PROVE  Greatest(D[n], v, r)
<1>. DEFINE p == LastNode(h, n, v)
            q == h.parent[p]
            l == Below(D, h.child[L][p])
            g == Below(D, h.child[R][p])
            E == Below(D, Deeper(h, n, v))
<1>0. L \in Sides /\ R \in Sides /\ Other(L) = R /\ Other(R) = L /\ L # R /\ v \in Nat /\ n \in Nat /\ NoItem \notin N
  BY HistogramTreeAssumption DEF Shaped, Sides, Other, L, R
<1>1. /\ p \in N /\ p \in D[n] /\ D[p] \subseteq D[n] /\ D[n] \subseteq N /\ N \subseteq Nat
      /\ h.child[Towards(v, n)][p] = NoItem \/ Towards(v, p) # Towards(v, n)
      /\ v < n => \A x \in D[n] \ D[p] : v < x
      /\ ~ (v < n) /\ p # n => /\ q \in D[n] /\ q <= v
                               /\ \A x \in D[n] \ D[p] : x <= q
                               /\ \A x \in D[p] : q <= x
  BY SearchPassed
<1>2. /\ r = IF p <= v THEN IF n <= v \/ d = NoItem THEN p ELSE d
             ELSE IF v < n THEN NoItem
             ELSE IF d = NoItem THEN q ELSE d
      /\ E = Below(D, h.child[Towards(v, p)][p])
  BY DEF Chosen, Deeper
<1>3. Greatest(E, v, d)
  OBVIOUS
<1>. HIDE DEF p, q, E
<1>4. D[p] = {p} \cup l \cup g
  BY <1>0, <1>1, ShapeFacts
<1>5. \A x \in l : x < p
  <2>1. \A x \in l : Towards(x, p) = L
    BY <1>0, <1>1, ShapeApart
  <2>. QED
    BY <1>0, <2>1 DEF Towards
<1>6. \A x \in g : ~ (x < p) /\ x # p
  <2>1. \A x \in g : Towards(x, p) = R /\ x # p
    BY <1>0, <1>1, ShapeApart
  <2>. QED
    BY <1>0, <2>1 DEF Towards
<1>7. E = IF v < p THEN l ELSE g
  BY <1>2 DEF Towards
<1>8. v < n <=> Towards(v, n) = L
  BY <1>0 DEF Towards
<1>9. v < p <=> Towards(v, p) = L
  BY <1>0 DEF Towards
<1>10. \A x : Towards(v, x) = L \/ Towards(v, x) = R
  BY DEF Towards
<1>11. h.child[L][p] = NoItem => l = {}
  BY DEF Below
<1>12. h.child[R][p] = NoItem => g = {}
  BY DEF Below
<1>. HIDE DEF l, g
<1>13. d = NoItem <=> \A x \in E : v < x
  <2>1. E \subseteq N
    BY <1>1, <1>4, <1>7
  <2>. QED
    BY <1>0, <1>3, <2>1 DEF Greatest
<1>14. d # NoItem => d \in E /\ d <= v /\ \A x \in E : x <= v => x <= d
  BY <1>3, <1>13 DEF Greatest
<1>15. \A x \in D[n] : x \in Nat
  BY <1>1
<1>16. p \in Nat /\ l \subseteq D[n] /\ g \subseteq D[n] /\ p \in D[n]
  BY <1>1, <1>4
<1>17. CASE ~ (v < n) /\ ~ (v < p)
  <2>1. g = {}
    BY <1>1, <1>8, <1>9, <1>10, <1>12, <1>17
  <2>2. r = p
    BY <1>0, <1>2, <1>16, <1>17
  <2>3. ASSUME NEW x \in D[n] PROVE x <= p
    <3>1. CASE x \in D[p]
      BY <1>4, <1>5, <1>15, <1>16, <2>1, <3>1
    <3>2. CASE x \notin D[p]
      <4>1. p # n
        BY <3>2
      <4>2. x <= q /\ q <= p /\ q \in Nat
        BY <1>1, <1>4, <1>15, <1>17, <3>2, <4>1
      <4>. QED
        BY <1>15, <1>16, <4>2
    <3>. QED
      BY <3>1, <3>2
  <2>. QED
    BY <1>0, <1>16, <1>17, <2>2, <2>3 DEF Greatest
<1>18. CASE ~ (v < n) /\ v < p
  <2>1. p # n /\ E = l
    BY <1>7, <1>18
  <2>2. q \in D[n] /\ q <= v /\ q \in Nat /\ (\A x \in D[n] \ D[p] : x <= q) /\ \A x \in D[p] : q <= x
    BY <1>1, <1>15, <1>18, <2>1
  <2>3. r = IF d = NoItem THEN q ELSE d
    BY <1>0, <1>2, <1>16, <1>18
  <2>4. \A x \in D[n] : x <= v => x <= q \/ x \in l
    <3>1. ASSUME NEW x \in D[n], x <= v, x \in D[p] PROVE x \in l
      BY <1>0, <1>4, <1>6, <1>15, <1>16, <1>18, <3>1
    <3>. QED
      BY <2>2, <3>1
  <2>5. CASE d = NoItem
    <3>1. \A x \in l : ~ (x <= v)
      BY <1>0, <1>13, <1>15, <1>16, <2>1, <2>5
    <3>. QED
      BY <1>0, <2>2, <2>3, <2>4, <2>5, <3>1 DEF Greatest
  <2>6. CASE d # NoItem
    <3>1. d \in l /\ d \in D[n] /\ d \in Nat /\ d <= v /\ q <= d /\ r = d
      BY <1>4, <1>14, <1>15, <1>16, <2>1, <2>2, <2>3, <2>6
    <3>2. \A x \in D[n] : x <= v => x <= d
      BY <1>14, <1>15, <2>1, <2>2, <2>4, <2>6, <3>1
    <3>. QED
      BY <1>0, <3>1, <3>2 DEF Greatest
  <2>. QED
    BY <2>5, <2>6
<1>19. CASE v < n /\ ~ (v < p)
  <2>1. E = g /\ \A x \in D[n] \ D[p] : v < x
    BY <1>1, <1>7, <1>19
  <2>2. r = IF d = NoItem THEN p ELSE d
    BY <1>0, <1>2, <1>16, <1>19
  <2>3. \A x \in D[n] : x <= v => x <= p \/ x \in g
    <3>1. ASSUME NEW x \in D[n], x <= v PROVE x <= p \/ x \in g
      <4>1. x \in D[p]
        BY <1>0, <1>15, <2>1, <3>1
      <4>. QED
        BY <1>4, <1>5, <1>15, <1>16, <4>1
    <3>. QED
      BY <3>1
  <2>4. CASE d = NoItem
    <3>1. \A x \in g : ~ (x <= v)
      BY <1>0, <1>13, <1>15, <1>16, <2>1, <2>4
    <3>. QED
      BY <1>0, <1>16, <1>19, <2>2, <2>3, <2>4, <3>1 DEF Greatest
  <2>5. CASE d # NoItem
    <3>1. d \in g /\ d \in D[n] /\ d \in Nat /\ d <= v /\ p <= d /\ r = d
      BY <1>6, <1>14, <1>15, <1>16, <2>1, <2>2, <2>5
    <3>2. \A x \in D[n] : x <= v => x <= d
      BY <1>14, <1>15, <1>16, <2>1, <2>3, <2>5, <3>1
    <3>. QED
      BY <1>0, <3>1, <3>2 DEF Greatest
  <2>. QED
    BY <2>4, <2>5
<1>20. CASE v < n /\ v < p
  <2>1. l = {}
    BY <1>1, <1>8, <1>9, <1>11, <1>20
  <2>2. r = NoItem
    BY <1>0, <1>2, <1>16, <1>20
  <2>3. ASSUME NEW x \in D[n] PROVE v < x
    <3>1. CASE x \in D[p]
      BY <1>0, <1>4, <1>6, <1>15, <1>16, <1>20, <2>1, <3>1
    <3>2. CASE x \notin D[p]
      BY <1>1, <1>20, <3>2
    <3>. QED
      BY <3>1, <3>2
  <2>. QED
    BY <2>2, <2>3 DEF Greatest
<1>. QED
  BY <1>17, <1>18, <1>19, <1>20

LEMMA DeeperFacts ==
  ASSUME NEW h \in Trees, NEW N, NEW D, Shaped(h, N, D), IsFiniteSet(N), NEW v \in Values
  PROVE  /\ \A n \in Values \ N : LastNode(h, n, v) = n /\ Deeper(h, n, v) = NoItem
         /\ \A n \in N : /\ LastNode(h, n, v) \in N
                         /\ Deeper(h, n, v) \in N \cup {NoItem}
                         /\ Deeper(h, n, v) # NoItem => Cardinality(D[Deeper(h, n, v)]) < Cardinality(D[n])
<1>0. N \subseteq Values /\ NoItem \notin Values
  BY HistogramTreeAssumption DEF Shaped
<1>1. \A x : Towards(v, x) \in Sides
  BY DEF Towards, Sides
<1>2. ASSUME NEW n \in Values \ N PROVE LastNode(h, n, v) = n /\ Deeper(h, n, v) = NoItem
  <2>1. LastNode(h, n, v) = n
    BY <1>1, LastOfFacts DEF LastNode
  <2>2. \A s \in Sides : h.child[s][n] = NoItem
    BY DEF Shaped, Outside
  <2>. QED
    BY <1>1, <2>1, <2>2 DEF Deeper
<1>3. ASSUME NEW n \in N
      PROVE  /\ LastNode(h, n, v) \in N
             /\ Deeper(h, n, v) \in N \cup {NoItem}
             /\ Deeper(h, n, v) # NoItem => Cardinality(D[Deeper(h, n, v)]) < Cardinality(D[n])
  <2>. DEFINE p == LastNode(h, n, v)
              c == Deeper(h, n, v)
  <2>1. p \in N /\ D[p] \subseteq D[n] /\ D[n] \subseteq N
    BY SearchPassed
  <2>2. c = h.child[Towards(v, p)][p]
    BY DEF Deeper
  <2>. HIDE DEF p, c
  <2>3. c # NoItem => c \in N /\ Cardinality(D[c]) < Cardinality(D[p])
    <3>1. \A s \in Sides : h.child[s][p] # NoItem => h.child[s][p] \in N
      BY <2>1, ShapeFacts
    <3>2. \A s \in Sides : h.child[s][p] # NoItem => Cardinality(D[h.child[s][p]]) < Cardinality(D[p])
      BY <2>1, SmallerBelow
    <3>. QED
      BY <1>1, <2>2, <3>1, <3>2
  <2>4. IsFiniteSet(D[n]) /\ IsFiniteSet(D[p]) /\ Cardinality(D[p]) <= Cardinality(D[n])
    BY <2>1, FS_Subset
  <2>5. Cardinality(D[p]) \in Nat /\ Cardinality(D[n]) \in Nat
    BY <2>4, FS_CardinalityType
  <2>6. ASSUME c # NoItem PROVE Cardinality(D[c]) < Cardinality(D[n])
    <3>1. c \in N /\ D[c] \subseteq N
      BY <2>3, <2>6, OwnFacts
    <3>2. IsFiniteSet(D[c])
      BY <3>1, FS_Subset
    <3>3. Cardinality(D[c]) \in Nat
      BY <3>2, FS_CardinalityType
    <3>. QED
      BY <2>3, <2>4, <2>5, <2>6, <3>3
  <2>. QED
    BY <2>1, <2>3, <2>6 DEF p, c
<1>. QED
  BY <1>2, <1>3

LEMMA FindFacts ==
  ASSUME NEW h \in Trees, NEW N, NEW D, Shaped(h, N, D), IsFiniteSet(N), NEW v \in Values
  PROVE  /\ FindNoLargerThan(h, NoItem, v) = NoItem
         /\ \A n \in N : Greatest(D[n], v, FindNoLargerThan(h, n, v))
<1>. DEFINE X == Values \cup {NoItem}
            K == 1 + Cardinality(N)
            mu == [n \in X |-> IF n = NoItem THEN 0 ELSE IF n \in N THEN 1 + Cardinality(D[n]) ELSE 1]
            Fits(f) == f = [n \in X |-> IF n = NoItem THEN NoItem ELSE Chosen(h, n, v, f[Deeper(h, n, v)])]
            G == [f \in [X -> X] |-> [n \in X |-> IF n = NoItem THEN NoItem ELSE Chosen(h, n, v, f[Deeper(h, n, v)])]]
            find == CHOOSE f : Fits(f)
<1>0. N \subseteq Values /\ NoItem \notin Values /\ Cardinality(N) \in Nat /\ K \in Nat
  BY FS_CardinalityType, HistogramTreeAssumption DEF Shaped
<1>1. \A n \in N : Cardinality(D[n]) \in 0 .. Cardinality(N)
  BY SmallerBelow
<1>2. mu \in [X -> 0 .. K]
  <2>1. \A n \in X : (IF n = NoItem THEN 0 ELSE IF n \in N THEN 1 + Cardinality(D[n]) ELSE 1) \in 0 .. K
    BY <1>0, <1>1
  <2>. QED
    BY <2>1
<1>3. \A n \in Values : LastNode(h, n, v) \in Values /\ Deeper(h, n, v) \in X
  BY <1>0, DeeperFacts
<1>4. ASSUME NEW n \in Values PROVE mu[Deeper(h, n, v)] < mu[n]
  <2>. DEFINE d == Deeper(h, n, v)
  <2>1. mu[n] = IF n \in N THEN 1 + Cardinality(D[n]) ELSE 1
    BY <1>0
  <2>2. d \in N \cup {NoItem} /\ (n \notin N => d = NoItem)
        /\ (n \in N /\ d # NoItem => Cardinality(D[d]) < Cardinality(D[n]))
    BY DeeperFacts
  <2>. HIDE DEF d
  <2>3. mu[d] = IF d = NoItem THEN 0 ELSE 1 + Cardinality(D[d])
    BY <1>0, <2>2
  <2>. HIDE DEF mu
  <2>4. n \in N => Cardinality(D[n]) \in Nat
    BY <1>0, <1>1
  <2>5. d # NoItem => Cardinality(D[d]) \in Nat
    BY <1>0, <1>1, <2>2
  <2>. QED
    BY <2>1, <2>2, <2>3, <2>4, <2>5 DEF d
<1>5. \A n \in Values, d \in X : Chosen(h, n, v, d) \in X
  <2>1. \A p \in Values : h.parent[p] \in X
    BY TreeFields
  <2>. QED
    BY <1>3, <2>1 DEF Chosen
<1>. HIDE DEF mu, K
<1>6. \E f : Fits(f)
  <2>1. G \in [[X -> X] -> [X -> X]]
    <3>1. ASSUME NEW f \in [X -> X], NEW n \in X
          PROVE  (IF n = NoItem THEN NoItem ELSE Chosen(h, n, v, f[Deeper(h, n, v)])) \in X
      BY <1>3, <1>5
    <3>. QED
      BY <3>1
  <2>2. \A f, g \in [X -> X], x \in X :
          (\A y \in X : mu[y] < mu[x] => f[y] = g[y]) => G[f][x] = G[g][x]
    <3>. SUFFICES ASSUME NEW f \in [X -> X], NEW g \in [X -> X], NEW x \in X,
                         \A y \in X : mu[y] < mu[x] => f[y] = g[y]
                  PROVE  G[f][x] = G[g][x]
      OBVIOUS
    <3>1. x # NoItem => f[Deeper(h, x, v)] = g[Deeper(h, x, v)]
      BY <1>3, <1>4
    <3>. QED
      BY <3>1
  <2>3. Unfolds(G, mu, X, X, K)
    <3>. HIDE DEF G, X
    <3>. QED
      BY <1>2, <2>1, <2>2 DEF Unfolds
  <2>4. \E f : FixedBy(f, G, X, X)
    <3>1. NoItem \in X
      OBVIOUS
    <3>. HIDE DEF G, X
    <3>. QED
      BY <1>0, <2>3, <3>1, FixedPoint
  <2>5. PICK f : FixedBy(f, G, X, X)
    BY <2>4
  <2>6. f \in [X -> X] /\ f = G[f]
    <3>. HIDE DEF G
    <3>. QED
      BY <2>5 DEF FixedBy
  <2>. QED
    BY <2>6
<1>7. Fits(find)
  <2>. HIDE DEF Fits
  <2>. QED
    BY <1>6, Zenon
<1>8. \A n : FindNoLargerThan(h, n, v) = find[n]
  BY Zenon DEF FindNoLargerThan, LastNode, Deeper, Chosen
<1>. HIDE DEF find, G
<1>9. \A n \in X : find[n] = IF n = NoItem THEN NoItem ELSE Chosen(h, n, v, find[Deeper(h, n, v)])
  BY <1>7
<1>. HIDE DEF Fits
<1>10. find[NoItem] = NoItem
  BY <1>9
<1>. DEFINE C == Cardinality(N)
            T == {k \in 0 .. C : \A n \in N : Cardinality(D[n]) <= k => Greatest(D[n], v, find[n])}
<1>11. ASSUME NEW n \in N, Greatest(Below(D, Deeper(h, n, v)), v, find[Deeper(h, n, v)])
       PROVE  Greatest(D[n], v, find[n])
  <2>1. find[n] = Chosen(h, n, v, find[Deeper(h, n, v)])
    BY <1>0, <1>9
  <2>. QED
    BY <1>11, <2>1, FindStep
<1>12. Greatest({}, v, NoItem)
  BY DEF Greatest
<1>13. 0 \in T
  <2>1. ASSUME NEW n \in N PROVE Cardinality(D[n]) # 0
    <3>1. IsFiniteSet(D[n]) /\ n \in D[n]
      BY OwnFacts, FS_Subset
    <3>. QED
      BY <3>1, FS_EmptySet
  <2>2. \A n \in N : ~ (Cardinality(D[n]) <= 0)
    BY <1>0, <1>1, <2>1
  <2>. QED
    BY <1>0, <2>2
<1>14. ASSUME NEW k \in 0 .. C - 1, k \in T PROVE k + 1 \in T
  <2>1. ASSUME NEW n \in N, Cardinality(D[n]) <= k + 1 PROVE Greatest(D[n], v, find[n])
    <3>. DEFINE d == Deeper(h, n, v)
    <3>1. d \in N \cup {NoItem} /\ (d # NoItem => Cardinality(D[d]) < Cardinality(D[n]))
      BY DeeperFacts
    <3>2. Greatest(Below(D, d), v, find[d])
      <4>. HIDE DEF d
      <4>1. CASE d = NoItem
        BY <1>10, <1>12, <4>1 DEF Below
      <4>2. CASE d # NoItem
        <5>1. d \in N
          BY <3>1, <4>2
        <5>2. Cardinality(D[d]) \in Nat /\ Cardinality(D[n]) \in Nat
          BY <1>0, <1>1, <5>1
        <5>3. Cardinality(D[d]) <= k
          BY <1>0, <2>1, <3>1, <4>2, <5>2
        <5>4. Greatest(D[d], v, find[d])
          BY <1>14, <5>1, <5>3
        <5>. QED
          BY <4>2, <5>4 DEF Below
      <4>. QED
        BY <4>1, <4>2
    <3>. QED
      BY <1>11, <3>2
  <2>. QED
    BY <1>0, <2>1
<1>15. 0 .. C \subseteq T
  <2>. HIDE DEF T
  <2>. QED
    BY <1>0, <1>13, <1>14, InductionUpTo
<1>16. ASSUME NEW n \in N PROVE Greatest(D[n], v, FindNoLargerThan(h, n, v))
  <2>1. C \in T /\ Cardinality(D[n]) <= C
    BY <1>0, <1>1, <1>15
  <2>. QED
    BY <1>8, <2>1
<1>. QED
  BY <1>8, <1>10, <1>16

(* A search in an empty tree finds nothing.                                *)
LEMMA EmptyFind ==
  ASSUME NEW v \in Values
  PROVE  FindNoLargerThan(EmptyTree, NoItem, v) = NoItem
<1>. DEFINE D == [x \in Values |-> {}]
<1>1. Shaped(EmptyTree, {}, D)
  BY EmptyTreeFacts DEF Shaped, Descends, Sided, ChildLinks, ParentLinks, Outside, OneRoot
<1>2. EmptyTree \in Trees /\ IsFiniteSet({})
  BY EmptyTreeFacts, FS_EmptySet
<1>. HIDE DEF D
<1>. QED
  BY <1>1, <1>2, FindFacts

LEMMA InvSearchExact == SampleCounts \subseteq {1} /\ HistogramInv => SearchExact
<1>1. ASSUME EmptyWindow PROVE SearchExact
  <2>1. Tree = EmptyTree /\ Tree.root = NoItem
    BY <1>1, EmptyTreeFacts DEF EmptyWindow, Tree
  <2>2. ASSUME NEW v \in Values PROVE FindNoLargerThan(Tree, Tree.root, v) = NoItem
    BY <2>1, EmptyFind
  <2>3. Nodes = {}
    BY <1>1, EmptyNodes
  <2>. QED
    BY <2>2, <2>3 DEF SearchExact
<1>2. ASSUME SampleCounts \subseteq {1}, GoodWindow(hist) PROVE SearchExact
  <2>. DEFINE h == Tree
              N == Nodes
              q == Queue
  <2>1. PICK D : SearchTree(h, N, D)
    BY <1>2, SoundTree
  <2>2. q \in Seq(Values) /\ Weighed(h, q) /\ TreeCounted(h, N)
    BY <1>2, SoundTree
  <2>3. /\ h \in Trees /\ IsFiniteSet(N) /\ Shaped(h, N, D) /\ Rooted(h, N) /\ N \subseteq Values /\ NoItem \notin N
    BY <2>1, HistogramTreeAssumption DEF SearchTree, Shaped
  <2>4. N \subseteq Nat
    BY <2>3, HistogramTreeAssumption
  <2>. HIDE DEF h, N, q
  <2>5. h.root \in N /\ D[h.root] = N
    BY <2>3, AllBelowRoot DEF Rooted
  <2>6. ASSUME NEW v \in Values, NEW f, f = FindNoLargerThan(h, h.root, v), NEW C, C = {n \in N : n <= v}
        PROVE  IF C = {} THEN f = NoItem ELSE f \in C /\ \A n \in C : n <= f
    <3>1. Greatest(N, v, f)
      BY <2>3, <2>5, <2>6, FindFacts
    <3>2. v \in Nat
      BY HistogramTreeAssumption
    <3>3. \A n \in N : ~ (n <= v) <=> v < n
      BY <2>4, <3>2
    <3>4. C = {} <=> \A n \in N : v < n
      BY <2>6, <3>3
    <3>5. CASE C = {}
      <4>1. f = NoItem
        BY <3>1, <3>4, <3>5 DEF Greatest
      <4>. QED
        BY <3>5, <4>1
    <3>6. CASE C # {}
      <4>1. f \in N /\ f <= v /\ \A n \in N : n <= v => n <= f
        BY <3>1, <3>4, <3>6 DEF Greatest
      <4>2. f \in C
        BY <2>6, <4>1
      <4>3. \A n \in C : n <= f
        BY <2>6, <4>1
      <4>. QED
        BY <3>6, <4>2, <4>3
    <3>. QED
      BY <3>5, <3>6
  <2>7. ASSUME NEW n \in N PROVE CumulativeCount(h, n) = Among(q, UpTo(n))
    <3>1. CumulativeCount(h, n) = Among(q, {x \in N : x <= n})
      BY <2>1, <2>2, CumulativeCountExact
    <3>2. Among(q, {x \in N : x <= n}) = Among(q, UpTo(n))
      BY <2>1, <2>2, UpToNodes
    <3>. QED
      BY <3>1, <3>2
  <2>8. ASSUME NEW n \in N PROVE CumulativeCount(h, n) = Cardinality({i \in DOMAIN q : q[i] \in UpTo(n)})
    BY <2>7 DEF Among, Places
  <2>9. ASSUME NEW v \in Values
        PROVE  LET found == FindNoLargerThan(h, h.root, v)
                   candidates == {n \in N : n <= v}
               IN  IF candidates = {} THEN found = NoItem
                   ELSE found \in candidates /\ \A n \in candidates : n <= found
    BY <2>6
  <2>. QED
    BY <2>8, <2>9 DEF SearchExact, NumberIn, h, N, q
<1>. QED
  BY <1>1, <1>2 DEF HistogramInv

LEMMA InvTrackedExact == SampleCounts \subseteq {1} /\ HistogramInv => TrackedCountExact
<1>1. ASSUME EmptyWindow PROVE TrackedCountExact
  BY <1>1, EmptyNodes DEF TrackedCountExact
<1>2. ASSUME SampleCounts \subseteq {1}, Tracks(hist) PROVE TrackedCountExact
  <2>1. NodesOf(hist.tree) = Nodes
    BY DEF Nodes, NodesOf, Tree
  <2>2. ASSUME NEW p \in Percentiles, NEW t, t = hist.tracked[p]
        PROVE  t.item \in Nodes /\ t.count = NumberIn(UpTo(t.item))
    <3>1. Pointed(Nodes, hist.Queue, t)
      BY <1>2, <2>1, <2>2 DEF Tracks
    <3>2. t.item \in Nodes /\ t.count = Among(hist.Queue, UpTo(t.item))
      BY <1>2, <3>1 DEF Pointed
    <3>3. Among(hist.Queue, UpTo(t.item)) = NumberIn(UpTo(t.item))
      BY DEF Among, Places, NumberIn, Queue
    <3>. QED
      BY <3>2, <3>3
  <2>. QED
    BY <2>2 DEF TrackedCountExact
<1>. QED
  BY <1>1, <1>2 DEF HistogramInv

LEMMA InvHistogramTypeOK == HistogramInv => HistogramTypeOK
<1>1. ASSUME EmptyWindow PROVE HistogramTypeOK
  <2>1. /\ Tree = EmptyTree /\ Queue = <<>> /\ hist.MinItem = NoItem /\ hist.MaxItem = NoItem
        /\ hist.tracked = [p \in Percentiles |-> [item |-> NoItem, count |-> 0]]
    BY <1>1 DEF EmptyWindow, Tree, Queue
  <2>2. Tree \in Trees
    BY <2>1, EmptyTreeFacts
  <2>3. hist.tracked \in [Percentiles -> Point]
    <3>1. [item |-> NoItem, count |-> 0] \in Point
      BY DEF Point
    <3>. QED
      BY <2>1, <3>1
  <2>4. Queue \in Seq(Values) /\ Len(Queue) <= QueueSize
    <3>1. <<>> \in Seq(Values) /\ Len(<<>>) = 0 /\ QueueSize \in Nat
      BY HistogramAssumption
    <3>. QED
      BY <2>1, <3>1
  <2>. QED
    BY <2>1, <2>2, <2>3, <2>4, TreeFields DEF HistogramTypeOK
<1>2. ASSUME GoodWindow(hist), Tracks(hist), Len(hist.Queue) <= QueueSize PROVE HistogramTypeOK
  <2>1. Tree \in Trees /\ Nodes \subseteq Values
    <3>1. PICK D : SearchTree(Tree, Nodes, D)
      BY <1>2, SoundTree
    <3>. QED
      BY <3>1 DEF SearchTree, Shaped
  <2>2. Queue \in Seq(Values) /\ Len(Queue) <= QueueSize
    BY <1>2, SoundTree DEF Queue
  <2>3. {hist.MinItem, hist.MaxItem} \subseteq Values \cup {NoItem}
    BY <1>2, <2>1, SoundTree DEF Bounds
  <2>4. hist.tracked \in [Percentiles -> Point]
    <3>1. NodesOf(hist.tree) = Nodes
      BY DEF Nodes, NodesOf, Tree
    <3>2. ASSUME NEW p \in Percentiles PROVE hist.tracked[p] \in Point
      <4>1. hist.tracked[p] \in [item : Nodes, count : Int]
        BY <1>2, <3>1 DEF Tracks, Pointed
      <4>. QED
        BY <2>1, <4>1 DEF Point
    <3>. QED
      BY <1>2, <3>2 DEF Tracks
  <2>. QED
    BY <2>1, <2>2, <2>3, <2>4, TreeFields DEF HistogramTypeOK
<1>. QED
  BY <1>1, <1>2 DEF HistogramInv

-----------------------------------------------------------------------------
(***************************************************************************)
(* The theorems.                                                           *)
(***************************************************************************)
LEMMA HistogramStep == HistogramInv /\ [HistogramNext]_hist => HistogramInv'
<1>1. ASSUME HistogramInv, HistogramNext PROVE HistogramInv'
  BY <1>1, EnqueueInv DEF HistogramNext
<1>2. ASSUME HistogramInv, UNCHANGED hist PROVE HistogramInv'
  BY <1>2 DEF HistogramInv, EmptyWindow
<1>. QED
  BY <1>1, <1>2

(* The inductive invariant: the window is empty, or its tree is a search   *)
(* tree with the samples of the queue and their extremes, and its points   *)
(* are at nodes.                                                           *)
THEOREM HistogramInvariance == HistogramSpec => []HistogramInv
<1>1. HistogramInit => HistogramInv
  BY Zenon DEF HistogramInit, HistogramInv, EmptyWindow
<1>. QED
  BY <1>1, HistogramStep, PTL DEF HistogramSpec

(* Whatever samples arrive and leave, with whatever rotations, the tree is *)
(* one search tree in which every search ends at its node, and Smaller and *)
(* Larger link the nodes in order.                                         *)
THEOREM TreeOrderedCorrect == HistogramSpec => []TreeOrdered
  BY HistogramInvariance, InvTreeOrdered, PTL

(* The tree holds what the queue holds, as often, and MinItem and MaxItem  *)
(* are its extremes.                                                       *)
THEOREM WindowMatchesCorrect == HistogramSpec => []WindowMatchesTree
  BY HistogramInvariance, InvWindowMatches, PTL

(* Counts and heights are exact if samples are enqueued one at a time, as  *)
(* every caller does: a new leaf counts for one sample, however many it    *)
(* stands for.                                                             *)
THEOREM CountsExactCorrect ==
  ASSUME SampleCounts \subseteq {1}
  PROVE  HistogramSpec => []CountsExact
<1>1. HistogramInv => CountsExact
  BY InvCountsExact
<1>. QED
  BY <1>1, HistogramInvariance, PTL

(* The search for the greatest item not above a value finds it, and the    *)
(* count of the samples up to a node, added up along its path, is exact.   *)
THEOREM SearchExactCorrect ==
  ASSUME SampleCounts \subseteq {1}
  PROVE  HistogramSpec => []SearchExact
<1>1. HistogramInv => SearchExact
  BY InvSearchExact
<1>. QED
  BY <1>1, HistogramInvariance, PTL

(* The count that a percentile point carries along, changed by every       *)
(* sample that arrives or leaves and by every step of the point's walk, is *)
(* the number of samples up to its item.                                   *)
THEOREM TrackedCountCorrect ==
  ASSUME SampleCounts \subseteq {1}
  PROVE  HistogramSpec => []TrackedCountExact
<1>1. HistogramInv => TrackedCountExact
  BY InvTrackedExact
<1>. QED
  BY <1>1, HistogramInvariance, PTL

(* Types, and the window is never over its size.                           *)
THEOREM HistogramTypeCorrect == HistogramSpec => []HistogramTypeOK
  BY HistogramInvariance, InvHistogramTypeOK, PTL
=============================================================================
