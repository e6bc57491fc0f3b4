----------------------------- MODULE Induction -----------------------------
(***************************************************************************)
(* Induction and recursion over the natural numbers, stated of sets and of *)
(* functions instead of operators: the theorems of the standard library    *)
(* that take an operator as a parameter cannot be instantiated by the      *)
(* provers at hand, these can.  They follow from the well-foundedness of   *)
(* strict inclusion among finite sets.                                     *)
(***************************************************************************)
EXTENDS Integers, FiniteSetTheorems, TLAPS

(* A nonempty set of natural numbers has a smallest member.                *)
LEMMA SmallestMember ==
  ASSUME NEW T, T \subseteq Nat, T # {}
  PROVE  \E x \in T : \A y \in T : x <= y
<1>1. PICK n \in T : TRUE
  OBVIOUS
<1>. DEFINE S == 0 .. n
            F == {0 .. k : k \in {k \in T : k <= n}}
<1>2. n \in Nat /\ IsFiniteSet(S)
  BY <1>1, FS_Interval
<1>3. IsWellFoundedOn(StrictSubsetOrdering(S), SUBSET S)
  BY <1>2, FS_StrictSubsetOrderingWellFounded, FS_FiniteSubsetsOfFinite
<1>4. F \subseteq SUBSET S /\ F # {}
  <2>1. 0 .. n \in F
    BY <1>1, <1>2
  <2>2. \A k \in Nat : k <= n => 0 .. k \subseteq 0 .. n
    BY <1>2
  <2>3. ASSUME NEW x \in F PROVE x \subseteq S
    <3>1. PICK k \in T : k <= n /\ x = 0 .. k
      OBVIOUS
    <3>. QED
      BY <2>2, <3>1
  <2>. QED
    BY <2>1, <2>3
<1>5. PICK x \in F : \A y \in F : ~ (<<y, x>> \in StrictSubsetOrdering(S))
  <2>. HIDE DEF F, S
  <2>. QED
    BY <1>3, <1>4, WFMin
<1>6. PICK k \in T : k <= n /\ x = 0 .. k
  OBVIOUS
<1>7. ASSUME NEW y \in T, ~ (k <= y) PROVE FALSE
  <2>1. y \in Nat /\ k \in Nat /\ y < k /\ y <= n
    BY <1>2, <1>6, <1>7
  <2>2. 0 .. y \in F /\ 0 .. y \subseteq x /\ 0 .. y # x
    BY <1>6, <2>1
  <2>3. 0 .. y \in SUBSET S /\ x \in SUBSET S
    BY <1>4, <2>2
  <2>. QED
    BY <1>5, <2>2, <2>3 DEF StrictSubsetOrdering
<1>. QED
  BY <1>6, <1>7

(* Induction up to m. *)
LEMMA InductionUpTo ==
  ASSUME NEW m \in Nat, NEW T, 0 \in T, \A i \in 0 .. m - 1 : i \in T => i + 1 \in T
  PROVE  0 .. m \subseteq T
<1>. DEFINE B == {i \in 0 .. m : i \notin T}
<1>1. SUFFICES ASSUME B # {} PROVE FALSE
  OBVIOUS
<1>2. B \subseteq Nat
  OBVIOUS
<1>3. PICK x \in B : \A y \in B : x <= y
  <2>. HIDE DEF B
  <2>. QED
    BY <1>1, <1>2, SmallestMember
<1>4. x # 0 /\ x \in 0 .. m /\ x \notin T
  OBVIOUS
<1>5. x - 1 \in 0 .. m - 1 /\ x - 1 \notin B
  BY <1>3, <1>4
<1>6. x - 1 \in T
  BY <1>4, <1>5
<1>. QED
  BY <1>4, <1>5, <1>6

(* A function g of a state and the number of the step, and f, which starts *)
(* with b and makes m of these steps.                                      *)
IsStep(g, S, m) == g \in [S \X (1 .. m) -> S]
Iterates(f, g, b, S, m) ==
  /\ f \in [0 .. m -> S] /\ f[0] = b
  /\ \A i \in 1 .. m : f[i] = g[<<f[i - 1], i>>]

(* A step can be made m times. *)
LEMMA Iteration ==
  ASSUME NEW m \in Nat, NEW S, NEW b \in S, NEW g, IsStep(g, S, m)
  PROVE  \E f : Iterates(f, g, b, S, m)
<1>0. g \in [S \X (1 .. m) -> S]
  BY DEF IsStep
<1>. DEFINE Upto(k) == \E f \in [0 .. m -> S] : f[0] = b /\ \A i \in 1 .. k : f[i] = g[<<f[i - 1], i>>]
            T == {k \in 0 .. m : Upto(k)}
<1>1. 0 \in T
  <2>1. [i \in 0 .. m |-> b] \in [0 .. m -> S]
    OBVIOUS
  <2>2. Upto(0)
    <3>. DEFINE f == [i \in 0 .. m |-> b]
    <3>1. f[0] = b /\ 1 .. 0 = {}
      OBVIOUS
    <3>. WITNESS f \in [0 .. m -> S]
    <3>. QED
      BY <3>1
  <2>. QED
    BY <2>2
<1>2. ASSUME NEW k \in 0 .. m - 1, k \in T PROVE k + 1 \in T
  <2>1. PICK f \in [0 .. m -> S] : f[0] = b /\ \A i \in 1 .. k : f[i] = g[<<f[i - 1], i>>]
    BY <1>2
  <2>2. k + 1 \in 1 .. m /\ k \in 0 .. m
    OBVIOUS
  <2>3. g[<<f[k], k + 1>>] \in S
    BY <1>0, <2>2
  <2>. DEFINE h == [f EXCEPT ![k + 1] = g[<<f[k], k + 1>>]]
  <2>4. h \in [0 .. m -> S]
    BY <2>3
  <2>5. \A i \in 0 .. k : h[i] = f[i]
    OBVIOUS
  <2>6. h[k + 1] = g[<<f[k], k + 1>>]
    BY <2>2
  <2>. HIDE DEF h
  <2>7. \A i \in 1 .. k + 1 : h[i] = g[<<h[i - 1], i>>]
    <3>. SUFFICES ASSUME NEW i \in 1 .. k + 1 PROVE h[i] = g[<<h[i - 1], i>>]
      OBVIOUS
    <3>1. CASE i = k + 1
      BY <2>5, <2>6, <3>1
    <3>2. CASE i \in 1 .. k
      <4>1. i - 1 \in 0 .. k
        BY <3>2
      <4>. QED
        BY <2>1, <2>5, <3>2, <4>1
    <3>. QED
      BY <3>1, <3>2
  <2>8. h[0] = b
    BY <2>1, <2>5
  <2>. QED
    BY <2>2, <2>4, <2>7, <2>8
<1>3. 0 .. m \subseteq T
  <2>. HIDE DEF T
  <2>. QED
    BY <1>1, <1>2, InductionUpTo
<1>4. m \in T
  BY <1>3
<1>. QED
  BY <1>4 DEF Iterates
(* A function defined by recursion exists when a measure decreases: G makes *)
(* from a function what the right-hand side of the definition is with it.   *)
Unfolds(G, mu, X, Y, K) ==
  /\ mu \in [X -> 0 .. K]
  /\ G \in [[X -> Y] -> [X -> Y]]
  /\ \A f, g \in [X -> Y], x \in X :
       (\A y \in X : mu[y] < mu[x] => f[y] = g[y]) => G[f][x] = G[g][x]
FixedBy(f, G, X, Y) == f \in [X -> Y] /\ f = G[f]

LEMMA FixedPoint ==
  ASSUME NEW X, NEW Y, NEW b \in Y, NEW K \in Nat, NEW mu, NEW G, Unfolds(G, mu, X, Y, K)
  PROVE  \E f : FixedBy(f, G, X, Y)
<1>0. /\ mu \in [X -> 0 .. K]
      /\ G \in [[X -> Y] -> [X -> Y]]
      /\ \A f, g \in [X -> Y], x \in X :
           (\A y \in X : mu[y] < mu[x] => f[y] = g[y]) => G[f][x] = G[g][x]
  BY DEF Unfolds
<1>. DEFINE F == [X -> Y]
            step == [z \in F \X (1 .. K + 1) |-> G[z[1]]]
            c == [x \in X |-> b]
<1>1. c \in F /\ K + 1 \in Nat
  OBVIOUS
<1>2. IsStep(step, F, K + 1)
  BY <1>0 DEF IsStep
<1>3. PICK q : Iterates(q, step, c, F, K + 1)
  <2>. HIDE DEF F, step, c
  <2>. QED
    BY <1>1, <1>2, Iteration
<1>4. /\ q \in [0 .. K + 1 -> F]
      /\ \A i \in 1 .. K + 1 : q[i] = step[<<q[i - 1], i>>]
  BY <1>3 DEF Iterates
<1>5. ASSUME NEW i \in 1 .. K + 1 PROVE q[i] = G[q[i - 1]] /\ q[i - 1] \in F
  <2>1. i - 1 \in 0 .. K + 1
    BY <1>0
  <2>2. q[i - 1] \in F
    BY <1>4, <2>1
  <2>3. <<q[i - 1], i>> \in F \X (1 .. K + 1)
    BY <2>2
  <2>. QED
    BY <1>0, <1>4, <2>2, <2>3
<1>. HIDE DEF step, c
<1>. DEFINE T == {k \in 0 .. K + 1 : \A x \in X : mu[x] < k => q[k][x] = G[q[k]][x]}
<1>6. 0 \in T
  <2>1. ASSUME NEW x \in X PROVE ~ (mu[x] < 0)
    <3>1. mu[x] \in 0 .. K
      BY <1>0
    <3>. QED
      BY <3>1
  <2>. QED
    BY <2>1
<1>7. ASSUME NEW k \in 0 .. (K + 1) - 1, k \in T PROVE k + 1 \in T
  <2>1. /\ k + 1 \in 1 .. K + 1 /\ (k + 1) - 1 = k /\ k + 1 \in 0 .. K + 1 /\ k \in 0 .. K + 1
    BY <1>0
  <2>2. q[k + 1] = G[q[k]] /\ q[k] \in F /\ q[k + 1] \in F
    BY <1>4, <1>5, <2>1
  <2>3. ASSUME NEW x \in X, mu[x] < k + 1 PROVE q[k + 1][x] = G[q[k + 1]][x]
    <3>1. ASSUME NEW y \in X, mu[y] < mu[x] PROVE q[k][y] = q[k + 1][y]
      <4>1. mu[x] \in 0 .. K /\ mu[y] \in 0 .. K
        BY <1>0
      <4>2. mu[y] < k
        BY <2>3, <3>1, <4>1
      <4>. QED
        BY <1>7, <2>2, <4>2
    <3>2. G[q[k]][x] = G[q[k + 1]][x]
      BY <1>0, <2>2, <3>1
    <3>. QED
      BY <2>2, <3>2
  <2>. QED
    BY <2>1, <2>3
<1>8. 0 .. K + 1 \subseteq T
  <2>. HIDE DEF T
  <2>. QED
    BY <1>1, <1>6, <1>7, InductionUpTo
<1>. DEFINE f == q[K + 1]
<1>9. f \in F /\ G[f] \in F
  BY <1>0, <1>1, <1>4
<1>10. ASSUME NEW x \in X PROVE f[x] = G[f][x]
  <2>1. K + 1 \in T /\ mu[x] \in 0 .. K
    BY <1>0, <1>1, <1>8
  <2>2. mu[x] < K + 1
    BY <2>1
  <2>. QED
    BY <2>1, <2>2
<1>11. f = G[f]
  <2>. HIDE DEF f
  <2>. QED
    BY <1>9, <1>10
<1>. QED
  BY <1>9, <1>11 DEF FixedBy

=============================================================================
